--------------------------- MODULE PairingProofs ---------------------------
(***************************************************************************)
(* How the HTLCs of the two ends of module Channel fit each other and the  *)
(* messages between them, for every value of the constants.                *)
(*                                                                         *)
(* The argument.  An HTLC has a slot at the end that offered it, a slot at *)
(* the end that received it, and messages under way about it.  Paired      *)
(* lists the phases the two slots go through together: the addition is     *)
(* exchanged (Added), the receiver decides to delete the HTLC              *)
(* (DelDecided), says so (DelSent), the offerer knows (DelKnown) or has    *)
(* stopped before it could (DelLost).  A slot may also be alone: the       *)
(* addition is under way (AddSent) or the other end has cleared its slot   *)
(* (ReceiverGone, OffererGone).  PairInv says that every slot of either    *)
(* end is in one of these, that every update under way is about such a     *)
(* slot, and that what one end paid the other end was paid or still holds. *)
(* Doomed is the phase of an HTLC that was refused before its addition was *)
(* exchanged (Fates has "NEXT_SHUTDOWN"): its two ends do not agree, and   *)
(* the theorems on deletions and signatures exclude it.                    *)
(*                                                                         *)
(* A step of Channel is a Move of one end, which changes its own state and *)
(* thread and the two streams.  There is a lemma for each move and each    *)
(* side of the pairing, and PairInv follows.                               *)
(*                                                                         *)
(* SigInv predicts what a commitment_signed is for: the commitment its     *)
(* reader will build once it has read what is ahead of the signature.      *)
(* KeptInv adds what an end has saved and which HTLCs its accepted         *)
(* commitment holds.                                                       *)
(***************************************************************************)
EXTENDS ChannelProofs

----------------------------------------------------------------------------
(* What a stream carries.                                                  *)

\* The message that tells the offerer of a deletion.
DelType(del) == CASE del = "FULFILL" -> "update_fulfill_htlc"
                  [] del = "FAIL" -> "update_fail_htlc"
                  [] OTHER -> "update_fail_malformed_htlc"

\* The ways an HTLC is deleted.
Deletion == DelHtlc \ {"NONE"}

\* An update_add_htlc with id n is under way.
Adding(q, n) ==
    \E k \in DOMAIN q : q[k].type = "update_add_htlc" /\ q[k].id = n
\* So is one for this HTLC, amount included.
AddingRef(q, x) ==
    \E k \in DOMAIN q : /\ q[k].type = "update_add_htlc"
                        /\ q[k].id = x.id /\ q[k].amount_msat = x.amount_msat
\* The deletion of HTLC n is under way.
Deleting(q, n, del) ==
    \E k \in DOMAIN q : q[k].type = DelType(del) /\ q[k].id = n
\* A commitment_signed is under way.
Signing(q) == \E k \in DOMAIN q : q[k].type = "commitment_signed"
\* A revoke_and_ack is under way.
Acking(q) == \E k \in DOMAIN q : q[k].type = "revoke_and_ack"

\* A revoke_and_ack comes before any commitment_signed.
AckAhead(q) ==
    \E j \in DOMAIN q : /\ q[j].type = "revoke_and_ack"
                        /\ \A k \in DOMAIN q : q[k].type = "commitment_signed" => j < k

\* The message changes the HTLCs of a channel.
IsUpdate(m) == m.type = "update_add_htlc" \/ m.type \in UpdateType

\* An update is announced once, and before the signature that covers it.
Tidy(q) ==
    \A j, k \in DOMAIN q :
        /\ IsUpdate(q[j]) /\ q[k].type = "commitment_signed" => j < k
        /\ /\ q[j].type = "update_add_htlc" /\ q[k].type = "update_add_htlc"
           /\ q[j].id = q[k].id
           => j = k
        /\ q[j].type \in UpdateType /\ q[k].type \in UpdateType /\ q[j].id = q[k].id
           => j = k
        /\ q[j].type = "commitment_signed" /\ q[k].type = "commitment_signed" => j = k
        /\ q[j].type = "revoke_and_ack" /\ q[k].type = "revoke_and_ack" => j = k

----------------------------------------------------------------------------
(* The slots of one end.                                                   *)

\* The slot holds an HTLC that was offered to the peer.
IsOffered(h) == h.addhtlc = "OFFER"
\* The slot holds an HTLC the peer offered.
IsReceived(h) == h.addhtlc = "RECV"
\* Offered, or waiting to be.
IsOwn(h) == h.addhtlc # "RECV" /\ h.amount_msat # 0

\* The flags of a slot fit each other: an HTLC that was not announced is not
\* exchanged, and the receiver announces nothing but a deletion.
SlotOK(h) ==
    /\ LN_HTLC_EMPTY(h) => h = EmptyHtlc
    /\ h.addhtlc # "NONE" => h.amount_msat # 0
    /\ h.comrecv = h.revsend
    /\ h.addhtlc = "NONE" =>
          /\ h.delhtlc = "NONE" /\ ~h.updsend
          /\ ~h.comsend /\ ~h.revrecv /\ ~h.comrecv
    /\ IsOffered(h) /\ ~h.updsend =>
          h.delhtlc = "NONE" /\ ~h.comsend /\ ~h.revrecv /\ ~h.comrecv
    /\ IsReceived(h) =>
          /\ h.updsend => h.delhtlc # "NONE"
          /\ h.comsend /\ h.delhtlc # "NONE" => h.updsend

\* The slots of one end: an id is used once, and neither again nor for an
\* HTLC that was paid.
EndOK(s) ==
    /\ \A i \in Slot : SlotOK(s.cnl_add_htlc[i])
    /\ \A i, j \in Slot :
          LET h == s.cnl_add_htlc[i]
              g == s.cnl_add_htlc[j]
          IN  /\ IsOwn(h) /\ IsOwn(g) /\ h.id = g.id => i = j
              /\ IsReceived(h) /\ IsReceived(g) /\ h.id = g.id => i = j
    /\ \A i \in Slot :
          LET h == s.cnl_add_htlc[i]
          IN  /\ IsOwn(h) => /\ h.id < s.htlc_id_num
                             /\ \A x \in s.paid_out : x.id # h.id
              /\ IsReceived(h) => \A x \in s.paid_in : x.id # h.id
    /\ \A x \in s.paid_out : x.id < s.htlc_id_num

----------------------------------------------------------------------------
(* The offerer's slot h and the receiver's slot g of one HTLC; a is the    *)
(* stream to the offerer, b the one to the receiver; ta and tb are their   *)
(* receive threads.                                                        *)

\* No deletion of HTLC n is under way.
NotDeleting(q, n) == \A del \in Deletion : ~Deleting(q, n, del)

\* The addition is being exchanged.
Added(h, g, a, b, ta, tb) ==
    /\ h.delhtlc = "NONE" /\ g.delhtlc = "NONE" /\ ~g.updsend
    /\ NotDeleting(a, h.id)
    /\ h.revrecv => h.comsend /\ g.comrecv
    /\ g.comrecv => h.comsend
    /\ Signing(b) => h.comsend
    /\ Signing(b) /\ ~h.revrecv => ~g.comrecv
    /\ h.comsend /\ ~g.comrecv => Signing(b) \/ tb # "run"
    /\ Acking(a) => g.comrecv
    /\ g.comrecv /\ ~h.revrecv => Acking(a) \/ ta # "run"
    /\ g.comsend => g.comrecv
    /\ h.comrecv => h.revrecv /\ g.comsend
    /\ g.comsend /\ ~h.comrecv => Signing(a) \/ ta # "run"
    /\ g.comsend /\ Signing(a) /\ ~h.comrecv => h.revrecv \/ AckAhead(a)
    /\ ~g.comsend /\ Signing(a) => ~h.revrecv /\ ~AckAhead(a)
    /\ g.comsend /\ (g.revrecv \/ Acking(b)) => h.comrecv

\* The receiver has decided to delete it and has not said so.
DelDecided(h, g, a) ==
    /\ h.delhtlc = "NONE" /\ Exchanged(h)
    /\ g.delhtlc # "NONE" /\ ~g.updsend /\ ~g.comsend
    /\ NotDeleting(a, h.id)

\* The message is under way.
DelSent(h, g, a, b) ==
    /\ h.delhtlc = "NONE" /\ Exchanged(h)
    /\ g.delhtlc \in Deletion /\ g.updsend
    /\ Deleting(a, h.id, g.delhtlc)
    /\ \A del \in Deletion : Deleting(a, h.id, del) => del = g.delhtlc
    /\ g.comsend <=> Signing(a)
    /\ ~g.revrecv /\ ~Acking(b)

\* The offerer knows.
DelKnown(h, g, a, b, ta, tb) ==
    /\ g.delhtlc # "NONE" /\ g.updsend
    /\ h.delhtlc = g.delhtlc
    /\ NotDeleting(a, h.id)
    /\ ~h.comrecv =>
          /\ ~g.revrecv /\ ~Acking(b)
          /\ Signing(a) => g.comsend
          /\ g.comsend => Signing(a) \/ ta # "run"
    /\ h.comrecv => g.comsend /\ (g.revrecv \/ Acking(b) \/ tb # "run")

\* The offerer stopped before the message came.
DelLost(h, g, a, b, ta) ==
    /\ g.delhtlc # "NONE" /\ g.updsend
    /\ h.delhtlc = "NONE"
    /\ ta # "run" /\ ~g.revrecv /\ ~Acking(b)

\* An HTLC that was refused before its addition was exchanged.
Doomable == "NEXT_SHUTDOWN" \in Fates
\* Its deletion is then no phase of an exchange; all that is known is that
\* it fails.
Doomed(h, g, a) ==
    /\ Doomable
    /\ h.delhtlc \in {"NONE", "FAIL"} /\ g.delhtlc = "FAIL"
    /\ \A del \in Deletion : Deleting(a, h.id, del) => del = "FAIL"

\* The two slots of an HTLC are of the same HTLC and in one of the phases.
Paired(h, g, a, b, ta, tb) ==
    /\ Ref(h) = Ref(g) /\ h.updsend
    /\ \/ Added(h, g, a, b, ta, tb)
       \/ DelDecided(h, g, a)
       \/ DelSent(h, g, a, b)
       \/ DelKnown(h, g, a, b, ta, tb)
       \/ DelLost(h, g, a, b, ta)
       \/ Doomed(h, g, a)

\* The addition is under way.
AddSent(h, a, b) ==
    /\ AddingRef(b, Ref(h))
    /\ h.updsend /\ h.delhtlc = "NONE"
    /\ ~h.revrecv /\ ~h.comrecv /\ ~Acking(a)
    /\ h.comsend <=> Signing(b)
    /\ NotDeleting(a, h.id)

\* The receiver has removed it, or never saw it.
ReceiverGone(h, R, a, b, tb) ==
    \/ /\ h.delhtlc # "NONE" /\ h.comrecv
       /\ h.delhtlc = "FULFILL" <=> Ref(h) \in R.paid_in
       /\ NotDeleting(a, h.id)
    \/ /\ tb # "run" /\ h.delhtlc = "NONE" /\ ~h.revrecv /\ ~h.comrecv /\ ~Acking(a)
       /\ Ref(h) \notin R.paid_in
       /\ NotDeleting(a, h.id)
    \/ /\ Doomable /\ h.delhtlc \in {"NONE", "FAIL"}
       /\ Ref(h) \notin R.paid_in
       /\ \A del \in Deletion : Deleting(a, h.id, del) => del = "FAIL"

\* The offerer has removed it.
OffererGone(g, O, a, b, tb) ==
    \/ /\ g.updsend /\ g.comsend /\ g.delhtlc # "NONE"
       /\ g.revrecv \/ Acking(b) \/ tb # "run"
       /\ g.delhtlc = "FULFILL" <=> Ref(g) \in O.paid_out
       /\ NotDeleting(a, g.id)
    \/ /\ Doomable /\ g.delhtlc = "FAIL"
       /\ Ref(g) \notin O.paid_out
       /\ \A del \in Deletion : Deleting(a, g.id, del) => del = "FAIL"

\* Nobody but the offerer knows of HTLC n.
Unheard(n, R, a, b) ==
    /\ \A j \in Slot : IsReceived(R.cnl_add_htlc[j]) => R.cnl_add_htlc[j].id # n
    /\ ~Adding(b, n) /\ NotDeleting(a, n)
    /\ \A x \in R.paid_in : x.id # n

\* Every HTLC of the offerer: unsent, on its way, held by the receiver, or gone.
OffersFit(O, R, a, b, ta, tb) ==
    \A i \in Slot :
        LET h == O.cnl_add_htlc[i]
        IN  /\ IsOwn(h) /\ ~h.updsend => Unheard(h.id, R, a, b)
            /\ IsOffered(h) /\ h.updsend =>
                  \/ AddSent(h, a, b)
                  \/ \E j \in Slot : /\ IsReceived(R.cnl_add_htlc[j])
                                     /\ R.cnl_add_htlc[j].id = h.id
                  \/ ReceiverGone(h, R, a, b, tb)
            /\ IsOffered(h) /\ Adding(b, h.id) => AddSent(h, a, b)

\* Two slots with one id are a pair.
PairsFit(O, R, a, b, ta, tb) ==
    \A i, j \in Slot :
        LET h == O.cnl_add_htlc[i]
            g == R.cnl_add_htlc[j]
        IN  IsOffered(h) /\ IsReceived(g) /\ h.id = g.id => Paired(h, g, a, b, ta, tb)

\* Every HTLC of the receiver: held by the offerer, or gone there.
ReceivedFit(O, R, a, b, tb) ==
    \A j \in Slot :
        LET g == R.cnl_add_htlc[j]
        IN  IsReceived(g) =>
              /\ g.id < O.htlc_id_num
              /\ ~Adding(b, g.id)
              /\ \/ \E i \in Slot : /\ IsOffered(O.cnl_add_htlc[i])
                                    /\ O.cnl_add_htlc[i].id = g.id
                 \/ OffererGone(g, O, a, b, tb)

\* Every update under way is about an HTLC.
UpdatesFit(O, R, a, b) ==
    /\ \A n : Adding(b, n) =>
          /\ \E i \in Slot : IsOffered(O.cnl_add_htlc[i]) /\ O.cnl_add_htlc[i].id = n
          /\ \A x \in R.paid_in : x.id # n
    /\ \A n : \A del \in Deletion : Deleting(a, n, del) =>
          /\ n < O.htlc_id_num
          /\ \/ \E j \in Slot : /\ IsReceived(R.cnl_add_htlc[j])
                                /\ R.cnl_add_htlc[j].id = n
             \/ Doomable /\ del = "FAIL"

\* An HTLC is paid at one end only if it is paid at the other, or still
\* there.
PaidFit(O, R) ==
    /\ \A x \in O.paid_out :
          \/ x \in R.paid_in
          \/ \E j \in Slot : /\ IsReceived(R.cnl_add_htlc[j])
                             /\ Ref(R.cnl_add_htlc[j]) = x
    /\ \A x \in R.paid_in :
          /\ x.id < O.htlc_id_num
          /\ \/ x \in O.paid_out
             \/ \E i \in Slot : IsOffered(O.cnl_add_htlc[i]) /\ Ref(O.cnl_add_htlc[i]) = x

\* The HTLCs offered by O, whose peer is R.
Pairing(O, R, a, b, ta, tb) ==
    /\ OffersFit(O, R, a, b, ta, tb)
    /\ PairsFit(O, R, a, b, ta, tb)
    /\ ReceivedFit(O, R, a, b, tb)
    /\ UpdatesFit(O, R, a, b)
    /\ PaidFit(O, R)

\* The receiver marks its slot when it announces the deletion.
Undeleted(R, a) ==
    \A j \in Slot :
        LET g == R.cnl_add_htlc[j]
        IN  IsReceived(g) /\ ~g.updsend => NotDeleting(a, g.id)

\* The inductive invariant: the HTLCs of each end fit the peer and the
\* streams.
PairInv ==
    \A p \in Peer :
       /\ EndOK(self[p]) /\ Tidy(net[p])
       /\ Undeleted(self[Other(p)], net[p])
       /\ ~Running(p) => net[p] = <<>>
       /\ Pairing(self[p], self[Other(p)], net[p], net[Other(p)],
                  thread[p], thread[Other(p)])

----------------------------------------------------------------------------
(* The transaction a commitment_signed under way is about: s is the end    *)
(* that will read it, q the stream to it.                                  *)

\* The acknowledgement of our last signature is here, or will be before the
\* commitment_signed is read.
Arrived(h, q) == h.revrecv \/ AckAhead(q)

\* The reader counts its offered HTLC h when it reads the signature.
SigOffered(h, q) ==
    /\ IsOffered(h) /\ h.delhtlc = "NONE" /\ NotDeleting(q, h.id)
    /\ h.updsend /\ h.comsend /\ Arrived(h, q)
\* It counts the HTLC g it received, unless its deletion was acknowledged.
SigReceived(g, q) ==
    IsReceived(g) /\ ~(g.updsend /\ g.comsend /\ Arrived(g, q))
\* It has paid for h by then.
SigPaidOut(h, q) ==
    IsOffered(h) /\ (h.delhtlc = "FULFILL" \/ Deleting(q, h.id, "FULFILL"))
\* It has been paid for g by then.
SigPaidIn(g, q) ==
    /\ IsReceived(g) /\ g.delhtlc = "FULFILL"
    /\ g.updsend /\ g.comsend /\ Arrived(g, q)

\* The HTLCs whose addition is under way.
AddRefs(q) ==
    {Ref(q[k]) : k \in {j \in DOMAIN q : q[j].type = "update_add_htlc"}}

\* The offered HTLCs of the commitment s will build.
OfferedAt(s, q) ==
    {Ref(s.cnl_add_htlc[i]) : i \in {j \in Slot : SigOffered(s.cnl_add_htlc[j], q)}}
\* Its received HTLCs, with the ones that arrive before the signature.
ReceivedAt(s, q) ==
    {Ref(s.cnl_add_htlc[i]) : i \in {j \in Slot : SigReceived(s.cnl_add_htlc[j], q)}}
      \cup AddRefs(q)
\* What it has paid.
PaidOutAt(s, q) ==
    s.paid_out \cup
    {Ref(s.cnl_add_htlc[i]) : i \in {j \in Slot : SigPaidOut(s.cnl_add_htlc[j], q)}}
\* What it was paid.
PaidInAt(s, q) ==
    s.paid_in \cup
    {Ref(s.cnl_add_htlc[i]) : i \in {j \in Slot : SigPaidIn(s.cnl_add_htlc[j], q)}}

\* tx is the commitment s will build when it reads the signature.
SigOK(s, q, tx) ==
    /\ tx.offered = OfferedAt(s, q) /\ tx.received = ReceivedAt(s, q)
    /\ tx.paid_out = PaidOutAt(s, q) /\ tx.paid_in = PaidInAt(s, q)

\* Every signature under way to s is for the commitment s will build.
SigsFit(s, q) ==
    \A k \in DOMAIN q : q[k].type = "commitment_signed" => SigOK(s, q, q[k].tx)

\* The invariant behind SignatureAgrees.
SigInv == \A p \in Peer : SigsFit(self[p], net[p])

----------------------------------------------------------------------------
(* What a stream carries after a message is read and after some are sent.  *)

\* r is q without its first message m.
ReadView(q, r, m) ==
    /\ Tidy(r)
    /\ \A n : Adding(r, n) <=> Adding(q, n) /\ ~(m.type = "update_add_htlc" /\ m.id = n)
    /\ \A x : AddingRef(r, x) <=>
                  AddingRef(q, x) /\ ~(m.type = "update_add_htlc" /\ m.id = x.id)
    /\ \A n : \A del \in Deletion :
          Deleting(r, n, del) <=>
              Deleting(q, n, del) /\ ~(m.type \in UpdateType /\ m.id = n)
    /\ Signing(r) <=> Signing(q) /\ m.type # "commitment_signed"
    /\ Acking(r) <=> Acking(q) /\ m.type # "revoke_and_ack"
    /\ m.type \notin Exchange => (AckAhead(r) <=> AckAhead(q))
    /\ m.type = "commitment_signed" =>
          /\ Signing(q) /\ ~AckAhead(q)
          /\ \A n : ~Adding(q, n) /\ NotDeleting(q, n)
    /\ m.type = "revoke_and_ack" => Acking(q) /\ AckAhead(q) /\ ~AckAhead(r)
    /\ m.type = "update_add_htlc" =>
          /\ Adding(q, m.id)
          /\ \A x : AddingRef(q, x) /\ x.id = m.id => x.amount_msat = m.amount_msat
    /\ \A del \in Deletion : m.type = DelType(del) =>
          /\ Deleting(q, m.id, del)
          /\ \A d \in Deletion : Deleting(q, m.id, d) => d = del

\* The three deletion messages are told apart.
LEMMA DelTypes ==
    /\ \A del \in Deletion : DelType(del) \in UpdateType
    /\ \A del, d \in Deletion : DelType(del) = DelType(d) => del = d
    /\ \A del \in Deletion : DelType(del) \notin Exchange \cup {"update_add_htlc"}
BY DEF Deletion, DelHtlc, DelType, UpdateType, Exchange

\* The messages of the tail of a stream, and of its head.
LEMMA TailMessages ==
    ASSUME NEW q \in Seq(Message), q # <<>>
    PROVE  /\ 1 \in DOMAIN q /\ Head(q) = q[1]
           /\ \A k \in DOMAIN Tail(q) : k + 1 \in DOMAIN q /\ Tail(q)[k] = q[k + 1] /\ k \in Nat
           /\ \A k \in DOMAIN q : k # 1 => k - 1 \in DOMAIN Tail(q) /\ Tail(q)[k - 1] = q[k]
           /\ \A k \in DOMAIN q : k \in Nat \ {0}
           /\ DOMAIN Tail(q) \subseteq Nat
<1>1. Tail(q) \in Seq(Message) /\ Len(Tail(q)) = Len(q) - 1 /\ Len(q) \in Nat \ {0}
  OBVIOUS
<1>2. DOMAIN Tail(q) = 1 .. Len(q) - 1 /\ DOMAIN q = 1 .. Len(q)
  BY <1>1
<1>3. \A k \in 1 .. Len(q) - 1 : Tail(q)[k] = q[k + 1]
  BY <1>1
<1>4. \A k \in 2 .. Len(q) : k - 1 \in 1 .. Len(q) - 1 /\ Tail(q)[k - 1] = q[(k - 1) + 1]
  BY <1>1, <1>3
<1> QED BY <1>1, <1>2, <1>3, <1>4

\* Reading a message of a tidy stream.
LEMMA ReadViews ==
    ASSUME NEW q \in Seq(Message), q # <<>>, Tidy(q)
    PROVE  ReadView(q, Tail(q), Head(q))
<1> DEFINE r == Tail(q)
           m == Head(q)
<1>1. /\ 1 \in DOMAIN q /\ m = q[1]
      /\ \A k \in DOMAIN r : k + 1 \in DOMAIN q /\ r[k] = q[k + 1] /\ k \in Nat
      /\ \A k \in DOMAIN q : k # 1 => k - 1 \in DOMAIN r /\ r[k - 1] = q[k]
      /\ \A k \in DOMAIN q : k \in Nat \ {0}
      /\ DOMAIN r \subseteq Nat
  BY TailMessages
<1> HIDE DEF r, m
<1>2. \A k \in DOMAIN r : k + 1 # 1
  BY <1>1
<1>3. Tidy(r)
  <2> SUFFICES ASSUME NEW j \in DOMAIN r, NEW k \in DOMAIN r
               PROVE  /\ IsUpdate(r[j]) /\ r[k].type = "commitment_signed" => j < k
                      /\ /\ r[j].type = "update_add_htlc" /\ r[k].type = "update_add_htlc"
                         /\ r[j].id = r[k].id
                         => j = k
                      /\ /\ r[j].type \in UpdateType /\ r[k].type \in UpdateType
                         /\ r[j].id = r[k].id
                         => j = k
                      /\ /\ r[j].type = "commitment_signed"
                         /\ r[k].type = "commitment_signed"
                         => j = k
                      /\ r[j].type = "revoke_and_ack" /\ r[k].type = "revoke_and_ack" => j = k
    BY DEF Tidy
  <2>1. /\ j + 1 \in DOMAIN q /\ r[j] = q[j + 1] /\ k + 1 \in DOMAIN q /\ r[k] = q[k + 1]
        /\ j \in Nat /\ k \in Nat
    BY <1>1
  <2>2. (j + 1 = k + 1 => j = k) /\ (j + 1 < k + 1 => j < k)
    BY <2>1
  <2> QED BY <2>1, <2>2 DEF Tidy
<1>4. \A n : Adding(r, n) <=> Adding(q, n) /\ ~(m.type = "update_add_htlc" /\ m.id = n)
  <2> TAKE n
  <2>1. Adding(r, n) => Adding(q, n) /\ ~(m.type = "update_add_htlc" /\ m.id = n)
    BY <1>1, <1>2 DEF Adding, Tidy
  <2>2. Adding(q, n) /\ ~(m.type = "update_add_htlc" /\ m.id = n) => Adding(r, n)
    BY <1>1 DEF Adding
  <2> QED BY <2>1, <2>2
<1>5. \A x : AddingRef(r, x) <=>
               AddingRef(q, x) /\ ~(m.type = "update_add_htlc" /\ m.id = x.id)
  <2> TAKE x
  <2>1. AddingRef(r, x) =>
          AddingRef(q, x) /\ ~(m.type = "update_add_htlc" /\ m.id = x.id)
    BY <1>1, <1>2 DEF AddingRef, Tidy
  <2>2. AddingRef(q, x) /\ ~(m.type = "update_add_htlc" /\ m.id = x.id) => AddingRef(r, x)
    BY <1>1 DEF AddingRef
  <2> QED BY <2>1, <2>2
<1>6. \A n : \A del \in Deletion :
          Deleting(r, n, del) <=>
              Deleting(q, n, del) /\ ~(m.type \in UpdateType /\ m.id = n)
  <2> TAKE n
  <2> TAKE del \in Deletion
  <2>0. DelType(del) \in UpdateType
    BY DelTypes
  <2>1. Deleting(r, n, del) => Deleting(q, n, del) /\ ~(m.type \in UpdateType /\ m.id = n)
    BY <1>1, <1>2, <2>0 DEF Deleting, Tidy
  <2>2. Deleting(q, n, del) /\ ~(m.type \in UpdateType /\ m.id = n) => Deleting(r, n, del)
    BY <1>1, <2>0 DEF Deleting
  <2> QED BY <2>1, <2>2
<1>7. Signing(r) <=> Signing(q) /\ m.type # "commitment_signed"
  <2>1. Signing(r) => Signing(q) /\ m.type # "commitment_signed"
    BY <1>1, <1>2 DEF Signing, Tidy
  <2>2. Signing(q) /\ m.type # "commitment_signed" => Signing(r)
    BY <1>1 DEF Signing
  <2> QED BY <2>1, <2>2
<1>8. Acking(r) <=> Acking(q) /\ m.type # "revoke_and_ack"
  <2>1. Acking(r) => Acking(q) /\ m.type # "revoke_and_ack"
    BY <1>1, <1>2 DEF Acking, Tidy
  <2>2. Acking(q) /\ m.type # "revoke_and_ack" => Acking(r)
    BY <1>1 DEF Acking
  <2> QED BY <2>1, <2>2
<1>9. m.type \notin Exchange => (AckAhead(r) <=> AckAhead(q))
  <2> SUFFICES ASSUME m.type \notin Exchange
               PROVE  AckAhead(r) <=> AckAhead(q)
    OBVIOUS
  <2>1. ASSUME AckAhead(r) PROVE AckAhead(q)
    <3>1. PICK j \in DOMAIN r : /\ r[j].type = "revoke_and_ack"
                                /\ \A k \in DOMAIN r : r[k].type = "commitment_signed" => j < k
      BY <2>1 DEF AckAhead
    <3>2. j + 1 \in DOMAIN q /\ q[j + 1].type = "revoke_and_ack" /\ j \in Nat
      BY <1>1, <3>1
    <3>3. ASSUME NEW k \in DOMAIN q, q[k].type = "commitment_signed"
          PROVE  j + 1 < k
      <4>1. k # 1 /\ k \in Nat
        BY <1>1, <3>3 DEF Exchange
      <4>2. j < k - 1
        BY <1>1, <3>1, <3>3, <4>1
      <4> QED BY <3>2, <4>1, <4>2
    <3> QED BY <3>2, <3>3 DEF AckAhead
  <2>2. ASSUME AckAhead(q) PROVE AckAhead(r)
    <3>1. PICK j \in DOMAIN q : /\ q[j].type = "revoke_and_ack"
                                /\ \A k \in DOMAIN q : q[k].type = "commitment_signed" => j < k
      BY <2>2 DEF AckAhead
    <3>2. j # 1 /\ j \in Nat \ {0}
      BY <1>1, <3>1 DEF Exchange
    <3>3. j - 1 \in DOMAIN r /\ r[j - 1].type = "revoke_and_ack"
      BY <1>1, <3>1, <3>2
    <3>4. ASSUME NEW k \in DOMAIN r, r[k].type = "commitment_signed"
          PROVE  j - 1 < k
      <4>1. k + 1 \in DOMAIN q /\ q[k + 1].type = "commitment_signed" /\ k \in Nat
        BY <1>1, <3>4
      <4>2. j < k + 1
        BY <3>1, <4>1
      <4> QED BY <3>2, <4>1, <4>2
    <3> QED BY <3>3, <3>4 DEF AckAhead
  <2> QED BY <2>1, <2>2
<1>10. m.type = "commitment_signed" =>
         /\ Signing(q) /\ ~AckAhead(q)
         /\ \A n : ~Adding(q, n) /\ NotDeleting(q, n)
  <2> SUFFICES ASSUME m.type = "commitment_signed"
               PROVE  /\ Signing(q) /\ ~AckAhead(q)
                      /\ \A n : ~Adding(q, n) /\ NotDeleting(q, n)
    OBVIOUS
  <2>1. Signing(q)
    BY <1>1 DEF Signing
  <2>2. \A j \in DOMAIN q : ~(j < 1)
    BY <1>1
  <2>3. ~AckAhead(q)
    BY <1>1, <2>2 DEF AckAhead
  <2>4. \A j \in DOMAIN q : ~IsUpdate(q[j])
    BY <1>1, <2>2 DEF Tidy
  <2>5. \A n : ~Adding(q, n)
    BY <2>4 DEF Adding, IsUpdate
  <2>6. \A n : NotDeleting(q, n)
    BY <2>4, DelTypes DEF NotDeleting, Deleting, IsUpdate
  <2> QED BY <2>1, <2>3, <2>5, <2>6
<1>11. m.type = "revoke_and_ack" => Acking(q) /\ AckAhead(q) /\ ~AckAhead(r)
  <2> SUFFICES ASSUME m.type = "revoke_and_ack"
               PROVE  Acking(q) /\ AckAhead(q) /\ ~AckAhead(r)
    OBVIOUS
  <2>1. Acking(q)
    BY <1>1 DEF Acking
  <2>2. \A k \in DOMAIN q : q[k].type = "commitment_signed" => 1 < k
    BY <1>1
  <2>3. AckAhead(q)
    BY <1>1, <2>2 DEF AckAhead
  <2>4. ~AckAhead(r)
    BY <1>8 DEF AckAhead, Acking
  <2> QED BY <2>1, <2>3, <2>4
<1>12. m.type = "update_add_htlc" =>
          /\ Adding(q, m.id)
          /\ \A x : AddingRef(q, x) /\ x.id = m.id => x.amount_msat = m.amount_msat
  BY <1>1 DEF Adding, AddingRef, Tidy
<1>13. \A del \in Deletion : m.type = DelType(del) =>
          /\ Deleting(q, m.id, del)
          /\ \A d \in Deletion : Deleting(q, m.id, d) => d = del
  BY <1>1, DelTypes DEF Deleting, Tidy
<1> QED
  BY <1>3, <1>4, <1>5, <1>6, <1>7, <1>8, <1>9, <1>10, <1>11, <1>12, <1>13
  DEF ReadView, r, m

\* r is q with the messages ms behind it.
SendView(q, r, ms) ==
    /\ \A n : Adding(r, n) <=> Adding(q, n) \/ Adding(ms, n)
    /\ \A x : AddingRef(r, x) <=> AddingRef(q, x) \/ AddingRef(ms, x)
    /\ \A n, del : Deleting(r, n, del) <=> Deleting(q, n, del) \/ Deleting(ms, n, del)
    /\ Signing(r) <=> Signing(q) \/ Signing(ms)
    /\ Acking(r) <=> Acking(q) \/ Acking(ms)
    /\ ~Signing(ms) /\ ~Acking(ms) => (AckAhead(r) <=> AckAhead(q))
    /\ Signing(ms) /\ ~Acking(ms) /\ ~Signing(q) => (AckAhead(r) <=> Acking(q))
    /\ Acking(ms) /\ ~Signing(ms) /\ ~Acking(q) => (AckAhead(r) <=> ~Signing(q))

\* The messages of a stream with others behind it.
LEMMA SentMessages ==
    ASSUME NEW q \in Seq(Message), NEW ms \in Seq(Message)
    PROVE  /\ \A k \in DOMAIN (q \o ms) :
                \/ k \in DOMAIN q /\ (q \o ms)[k] = q[k]
                \/ k - Len(q) \in DOMAIN ms /\ (q \o ms)[k] = ms[k - Len(q)]
           /\ \A k \in DOMAIN q : k \in DOMAIN (q \o ms) /\ (q \o ms)[k] = q[k]
           /\ \A k \in DOMAIN ms : /\ k + Len(q) \in DOMAIN (q \o ms)
                                   /\ (q \o ms)[k + Len(q)] = ms[k]
           /\ \A k \in DOMAIN q : k \in Nat /\ k <= Len(q)
           /\ \A k \in DOMAIN ms : k \in Nat \ {0}
           /\ \A k \in DOMAIN (q \o ms) : k \in Nat
           /\ Len(q) \in Nat
<1>1. \A k \in DOMAIN (q \o ms) :
                \/ k \in DOMAIN q /\ (q \o ms)[k] = q[k]
                \/ k - Len(q) \in DOMAIN ms /\ (q \o ms)[k] = ms[k - Len(q)]
  BY WhereFrom
<1>2. Len(q \o ms) = Len(q) + Len(ms) /\ Len(q) \in Nat /\ Len(ms) \in Nat
  OBVIOUS
<1>3. /\ DOMAIN (q \o ms) = 1 .. Len(q) + Len(ms)
      /\ DOMAIN q = 1 .. Len(q) /\ DOMAIN ms = 1 .. Len(ms)
  BY <1>2
<1>4. \A k \in DOMAIN q : k \in DOMAIN (q \o ms) /\ (q \o ms)[k] = q[k]
  BY <1>2, <1>3
<1>5. \A k \in DOMAIN ms : k + Len(q) \in DOMAIN (q \o ms)
  BY <1>2, <1>3
<1>6. \A k \in DOMAIN ms : (q \o ms)[k + Len(q)] = ms[k]
  BY <1>2, <1>3
<1> QED BY <1>1, <1>2, <1>3, <1>4, <1>5, <1>6

\* Sending messages.
LEMMA SendViews ==
    ASSUME NEW q \in Seq(Message), NEW ms \in Seq(Message)
    PROVE  SendView(q, q \o ms, ms)
<1> DEFINE r == q \o ms
<1>1. /\ \A k \in DOMAIN r : \/ k \in DOMAIN q /\ r[k] = q[k]
                             \/ k - Len(q) \in DOMAIN ms /\ r[k] = ms[k - Len(q)]
      /\ \A k \in DOMAIN q : k \in DOMAIN r /\ r[k] = q[k]
      /\ \A k \in DOMAIN ms : k + Len(q) \in DOMAIN r /\ r[k + Len(q)] = ms[k]
      /\ \A k \in DOMAIN q : k \in Nat /\ k <= Len(q)
      /\ \A k \in DOMAIN ms : k \in Nat \ {0}
      /\ \A k \in DOMAIN r : k \in Nat
      /\ Len(q) \in Nat
  BY SentMessages
<1> HIDE DEF r
<1>2. \A n : Adding(r, n) <=> Adding(q, n) \/ Adding(ms, n)
  BY <1>1 DEF Adding
<1>3. \A x : AddingRef(r, x) <=> AddingRef(q, x) \/ AddingRef(ms, x)
  BY <1>1 DEF AddingRef
<1>4. \A n, del : Deleting(r, n, del) <=> Deleting(q, n, del) \/ Deleting(ms, n, del)
  BY <1>1 DEF Deleting
<1>5. Signing(r) <=> Signing(q) \/ Signing(ms)
  BY <1>1 DEF Signing
<1>6. Acking(r) <=> Acking(q) \/ Acking(ms)
  BY <1>1 DEF Acking
<1>7. ASSUME ~Signing(ms), ~Acking(ms)
      PROVE  AckAhead(r) <=> AckAhead(q)
  <2>1. AckAhead(r) => AckAhead(q)
    BY <1>1, <1>7 DEF AckAhead, Signing, Acking
  <2>2. ASSUME AckAhead(q) PROVE AckAhead(r)
    <3>1. PICK j \in DOMAIN q : /\ q[j].type = "revoke_and_ack"
                                /\ \A k \in DOMAIN q : q[k].type = "commitment_signed" => j < k
      BY <2>2 DEF AckAhead
    <3>2. j \in DOMAIN r /\ r[j].type = "revoke_and_ack"
      BY <1>1, <3>1
    <3>3. \A k \in DOMAIN r : r[k].type = "commitment_signed" => j < k
      BY <1>1, <1>7, <3>1 DEF Signing
    <3> QED BY <3>2, <3>3 DEF AckAhead
  <2> QED BY <2>1, <2>2
<1>8. ASSUME Signing(ms), ~Acking(ms), ~Signing(q)
      PROVE  AckAhead(r) <=> Acking(q)
  <2>1. AckAhead(r) => Acking(q)
    BY <1>1, <1>8 DEF AckAhead, Acking
  <2>2. ASSUME Acking(q) PROVE AckAhead(r)
    <3>1. PICK j \in DOMAIN q : q[j].type = "revoke_and_ack"
      BY <2>2 DEF Acking
    <3>2. j \in DOMAIN r /\ r[j].type = "revoke_and_ack" /\ j \in Nat /\ j <= Len(q)
      BY <1>1, <3>1
    <3>3. ASSUME NEW k \in DOMAIN r, r[k].type = "commitment_signed"
          PROVE  j < k
      <4>1. k - Len(q) \in DOMAIN ms /\ k \in Nat
        BY <1>1, <1>8, <3>3 DEF Signing
      <4>2. k - Len(q) \in Nat \ {0}
        BY <1>1, <4>1
      <4> QED BY <1>1, <3>2, <4>1, <4>2
    <3> QED BY <3>2, <3>3 DEF AckAhead
  <2> QED BY <2>1, <2>2
<1>9. ASSUME Acking(ms), ~Signing(ms), ~Acking(q)
      PROVE  AckAhead(r) <=> ~Signing(q)
  <2>1. ASSUME AckAhead(r), Signing(q) PROVE FALSE
    <3>1. PICK j \in DOMAIN r : /\ r[j].type = "revoke_and_ack"
                                /\ \A k \in DOMAIN r : r[k].type = "commitment_signed" => j < k
      BY <2>1 DEF AckAhead
    <3>2. j - Len(q) \in DOMAIN ms /\ j \in Nat
      BY <1>1, <1>9, <3>1 DEF Acking
    <3>3. j - Len(q) \in Nat \ {0}
      BY <1>1, <3>2
    <3>4. PICK k \in DOMAIN q : q[k].type = "commitment_signed"
      BY <2>1 DEF Signing
    <3>5. j < k /\ k <= Len(q) /\ k \in Nat
      BY <1>1, <3>1, <3>4
    <3> QED BY <1>1, <3>2, <3>3, <3>5
  <2>2. ASSUME ~Signing(q) PROVE AckAhead(r)
    <3>1. \A k \in DOMAIN r : r[k].type # "commitment_signed"
      BY <1>5, <1>9, <2>2 DEF Signing
    <3>2. \E j \in DOMAIN r : r[j].type = "revoke_and_ack"
      BY <1>6, <1>9 DEF Acking
    <3> QED BY <3>1, <3>2 DEF AckAhead
  <2> QED BY <2>1, <2>2
<1> QED BY <1>2, <1>3, <1>4, <1>5, <1>6, <1>7, <1>8, <1>9 DEF SendView, r

\* A stream stays tidy.
LEMMA SentTidy ==
    ASSUME NEW q \in Seq(Message), NEW ms \in Seq(Message), Tidy(q), Tidy(ms),
           Signing(q) => ~Signing(ms) /\ \A n : ~Adding(ms, n) /\ NotDeleting(ms, n),
           ~(Acking(q) /\ Acking(ms)),
           \A n : ~(Adding(q, n) /\ Adding(ms, n)),
           \A n : NotDeleting(q, n) \/ NotDeleting(ms, n)
    PROVE  Tidy(q \o ms)
<1> DEFINE r == q \o ms
<1>1. /\ \A k \in DOMAIN r : \/ k \in DOMAIN q /\ r[k] = q[k]
                             \/ k - Len(q) \in DOMAIN ms /\ r[k] = ms[k - Len(q)]
      /\ \A k \in DOMAIN q : k \in Nat /\ k <= Len(q)
      /\ \A k \in DOMAIN ms : k \in Nat \ {0}
      /\ \A k \in DOMAIN r : k \in Nat
      /\ Len(q) \in Nat
  BY SentMessages
<1> HIDE DEF r
<1>2. \A t \in UpdateType : \E del \in Deletion : t = DelType(del)
  <2>1. \A del \in {"FULFILL", "FAIL", "MALFORMED"} : del \in Deletion
    BY DEF Deletion, DelHtlc
  <2>2. /\ DelType("FULFILL") = "update_fulfill_htlc"
        /\ DelType("FAIL") = "update_fail_htlc"
        /\ DelType("MALFORMED") = "update_fail_malformed_htlc"
    BY DEF DelType
  <2> QED BY <2>1, <2>2 DEF UpdateType
<1>3. ASSUME NEW j \in DOMAIN q, NEW k \in DOMAIN ms
      PROVE  /\ ~(IsUpdate(ms[k]) /\ q[j].type = "commitment_signed")
             /\ ~(q[j].type = "commitment_signed" /\ ms[k].type = "commitment_signed")
             /\ ~(q[j].type = "revoke_and_ack" /\ ms[k].type = "revoke_and_ack")
             /\ ~(/\ q[j].type = "update_add_htlc" /\ ms[k].type = "update_add_htlc"
                  /\ q[j].id = ms[k].id)
             /\ ~(/\ q[j].type \in UpdateType /\ ms[k].type \in UpdateType
                  /\ q[j].id = ms[k].id)
  <2>1. ~(IsUpdate(ms[k]) /\ q[j].type = "commitment_signed")
    BY <1>2 DEF IsUpdate, Signing, Adding, NotDeleting, Deleting
  <2>2. ~(q[j].type = "commitment_signed" /\ ms[k].type = "commitment_signed")
    BY DEF Signing
  <2>3. ~(q[j].type = "revoke_and_ack" /\ ms[k].type = "revoke_and_ack")
    BY DEF Acking
  <2>4. ~(/\ q[j].type = "update_add_htlc" /\ ms[k].type = "update_add_htlc"
          /\ q[j].id = ms[k].id)
    BY DEF Adding
  <2>5. ~(/\ q[j].type \in UpdateType /\ ms[k].type \in UpdateType
          /\ q[j].id = ms[k].id)
    BY <1>2 DEF NotDeleting, Deleting
  <2> QED BY <2>1, <2>2, <2>3, <2>4, <2>5
<1>4. ASSUME NEW j \in DOMAIN r, NEW k \in DOMAIN r
      PROVE  /\ IsUpdate(r[j]) /\ r[k].type = "commitment_signed" => j < k
             /\ /\ r[j].type = "update_add_htlc" /\ r[k].type = "update_add_htlc"
                /\ r[j].id = r[k].id
                => j = k
             /\ r[j].type \in UpdateType /\ r[k].type \in UpdateType /\ r[j].id = r[k].id
                => j = k
             /\ r[j].type = "commitment_signed" /\ r[k].type = "commitment_signed" => j = k
             /\ r[j].type = "revoke_and_ack" /\ r[k].type = "revoke_and_ack" => j = k
  <2>1. CASE j \in DOMAIN q /\ r[j] = q[j] /\ k \in DOMAIN q /\ r[k] = q[k]
    BY <2>1 DEF Tidy
  <2>2. CASE /\ j \in DOMAIN q /\ r[j] = q[j]
             /\ k - Len(q) \in DOMAIN ms /\ r[k] = ms[k - Len(q)]
    <3>1. j < k
      <4>1. j \in Nat /\ k \in Nat /\ j <= Len(q) /\ k - Len(q) \in Nat \ {0}
        BY <1>1, <2>2
      <4> QED BY <1>1, <4>1
    <3> QED BY <1>3, <2>2, <3>1
  <2>3. CASE /\ k \in DOMAIN q /\ r[k] = q[k]
             /\ j - Len(q) \in DOMAIN ms /\ r[j] = ms[j - Len(q)]
    BY <1>3, <2>3
  <2>4. CASE /\ j - Len(q) \in DOMAIN ms /\ r[j] = ms[j - Len(q)]
             /\ k - Len(q) \in DOMAIN ms /\ r[k] = ms[k - Len(q)]
    <3>1. /\ j - Len(q) = k - Len(q) => j = k
          /\ j - Len(q) < k - Len(q) => j < k
      BY <1>1
    <3> QED BY <2>4, <3>1 DEF Tidy
  <2> QED BY <1>1, <2>1, <2>2, <2>3, <2>4
<1> QED BY <1>4 DEF Tidy, r

\* A stream that has been dropped.
LEMMA EmptyView ==
    /\ Tidy(<<>>) /\ ~Signing(<<>>) /\ ~Acking(<<>>) /\ ~AckAhead(<<>>)
    /\ \A n : ~Adding(<<>>, n) /\ NotDeleting(<<>>, n)
    /\ \A n, del : ~Deleting(<<>>, n, del)
    /\ \A x : ~AddingRef(<<>>, x)
BY DEF Tidy, Signing, Acking, AckAhead, Adding, AddingRef, Deleting, NotDeleting

\* A stream of one message.
LEMMA OneMessage ==
    ASSUME NEW m
    PROVE  /\ Tidy(<<m>>)
           /\ \A n : Adding(<<m>>, n) <=> m.type = "update_add_htlc" /\ m.id = n
           /\ m.type # "update_add_htlc" => \A x : ~AddingRef(<<m>>, x)
           /\ m.type \notin UpdateType =>
                 \A n : /\ NotDeleting(<<m>>, n)
                        /\ \A del \in Deletion : ~Deleting(<<m>>, n, del)
           /\ Signing(<<m>>) <=> m.type = "commitment_signed"
           /\ Acking(<<m>>) <=> m.type = "revoke_and_ack"
<1>1. DOMAIN <<m>> = {1} /\ <<m>>[1] = m
  OBVIOUS
<1> DEFINE q == <<m>>
<1> HIDE DEF q
<1>2. DOMAIN q = {1} /\ q[1] = m
  BY <1>1 DEF q
<1>3. \A j, k \in DOMAIN q : j = k
  BY <1>2
<1>4. \A j \in DOMAIN q : q[j] = m
  BY <1>2
<1>5. Tidy(q)
  BY <1>3, <1>4 DEF Tidy, IsUpdate, UpdateType
<1>6. \A n : Adding(q, n) <=> m.type = "update_add_htlc" /\ m.id = n
  BY <1>2 DEF Adding
<1>7. m.type # "update_add_htlc" => \A x : ~AddingRef(q, x)
  BY <1>2 DEF AddingRef
<1>8. m.type \notin UpdateType =>
         \A n : NotDeleting(q, n) /\ \A del \in Deletion : ~Deleting(q, n, del)
  BY <1>2, DelTypes DEF NotDeleting, Deleting
<1>9. (Signing(q) <=> m.type = "commitment_signed") /\ (Acking(q) <=> m.type = "revoke_and_ack")
  BY <1>2 DEF Signing, Acking
<1> QED BY <1>5, <1>6, <1>7, <1>8, <1>9 DEF q

\* The order in which the updates go out reaches every slot that has one.
LEMMA OrderReaches ==
    ASSUME NEW W, IsFiniteSet(W), W \subseteq Slot,
           NEW order \in [1 .. Cardinality(W) -> W], InSlotOrder(order)
    PROVE  /\ \A i \in W : \E k \in 1 .. Cardinality(W) : order[k] = i
           /\ \A j, k \in 1 .. Cardinality(W) : order[j] = order[k] => j = k
<1> DEFINE N == Cardinality(W)
           I == {order[k] : k \in 1 .. N}
<1>1. N \in Nat
  BY FS_CardinalityType
<1>2. \A k \in 1 .. N : order[k] \in Nat
  BY SlotFinite
<1>3. \A j, k \in 1 .. N : order[j] = order[k] => j = k
  <2> SUFFICES ASSUME NEW j \in 1 .. N, NEW k \in 1 .. N, order[j] = order[k], j # k
               PROVE  FALSE
    OBVIOUS
  <2>1. j < k \/ k < j
    BY <1>1
  <2>2. order[j] < order[k] \/ order[k] < order[j]
    BY <2>1 DEF InSlotOrder
  <2> QED BY <1>2, <2>2
<1>4. order \in Surjection(1 .. N, I) /\ order \in Injection(1 .. N, I)
  BY <1>3 DEF Surjection, Injection, IsInjective
<1>5. IsFiniteSet(1 .. N) /\ Cardinality(1 .. N) = N
  BY <1>1, FS_Interval
<1>6. Cardinality(I) = N
  BY <1>4, <1>5, FS_Surjection
<1>7. I \in SUBSET W
  OBVIOUS
<1>8. W = I
  BY <1>6, <1>7, FS_Subset
<1> QED BY <1>3, <1>8

\* The updates of one pass of recv_idle_proc_nonfinal, as the stream has them.
UpdateView(s, ms) ==
    /\ Tidy(ms) /\ ~Acking(ms)
    /\ \A n : Adding(ms, n) <=>
          \E i \in Slot : LN_HTLC_WILL_ADDHTLC(s.cnl_add_htlc[i]) /\ s.cnl_add_htlc[i].id = n
    /\ \A x : AddingRef(ms, x) <=>
          \E i \in Slot : /\ LN_HTLC_WILL_ADDHTLC(s.cnl_add_htlc[i])
                          /\ s.cnl_add_htlc[i].id = x.id
                          /\ s.cnl_add_htlc[i].amount_msat = x.amount_msat
    /\ \A n : \A del \in Deletion : Deleting(ms, n, del) <=>
          \E i \in Slot : /\ LN_HTLC_WILL_DELHTLC(s.cnl_add_htlc[i])
                          /\ s.cnl_add_htlc[i].id = n
                          /\ s.cnl_add_htlc[i].delhtlc = del

\* What a pass of send_updates announces.
LEMMA UpdateViews ==
    ASSUME NEW s \in SelfType, EndOK(s),
           NEW order \in [1 .. Cardinality(WillUpdate(s)) -> WillUpdate(s)],
           InSlotOrder(order)
    PROVE  /\ UpdateMsgs(s, order) \in Seq(Message)
           /\ UpdateView(s, UpdateMsgs(s, order)) /\ ~Signing(UpdateMsgs(s, order))
<1> DEFINE W == WillUpdate(s)
           N == Cardinality(W)
           ms == UpdateMsgs(s, order)
           h(i) == s.cnl_add_htlc[i]
<1>1. N \in Nat /\ ms \in Seq(Message)
  BY WillUpdateFinite, UpdateMsgsType
<1>2. W \subseteq Slot /\ IsFiniteSet(W)
  BY SlotFinite, FS_Subset DEF WillUpdate, Enabled
<1>3. \A i \in W : \E k \in 1 .. N : order[k] = i
  BY <1>2, OrderReaches
<1>4. \A j, k \in 1 .. N : order[j] = order[k] => j = k
  BY <1>2, OrderReaches
<1>5. DOMAIN ms = 1 .. N /\ \A k \in 1 .. N : ms[k] = UpdateMsg(h(order[k])) /\ order[k] \in W
  BY DEF UpdateMsgs
<1>6. \A i \in Slot : h(i) \in HtlcType /\ SlotOK(h(i))
  BY SlotHolds DEF EndOK
<1>7. \A i \in Slot : /\ LN_HTLC_WILL_ADDHTLC(h(i)) => i \in W
                      /\ LN_HTLC_WILL_DELHTLC(h(i)) => i \in W
  BY <1>6 DEF WillUpdate, Enabled, LN_HTLC_ENABLE, LN_HTLC_EMPTY, SlotOK,
              LN_HTLC_WILL_ADDHTLC, LN_HTLC_WILL_DELHTLC
<1>8. \A i \in W : \/ LN_HTLC_WILL_ADDHTLC(h(i)) /\ ~LN_HTLC_WILL_DELHTLC(h(i))
                   \/ LN_HTLC_WILL_DELHTLC(h(i)) /\ ~LN_HTLC_WILL_ADDHTLC(h(i))
  BY DEF WillUpdate, LN_HTLC_WILL_ADDHTLC, LN_HTLC_WILL_DELHTLC
<1>9. \A i \in W : LN_HTLC_WILL_ADDHTLC(h(i)) =>
        /\ UpdateMsg(h(i)).type = "update_add_htlc"
        /\ UpdateMsg(h(i)).id = h(i).id /\ UpdateMsg(h(i)).amount_msat = h(i).amount_msat
        /\ IsOwn(h(i))
  BY <1>2, <1>6 DEF UpdateMsg, LN_HTLC_WILL_ADDHTLC, IsOwn, SlotOK
<1>10. \A i \in W : LN_HTLC_WILL_DELHTLC(h(i)) =>
        /\ UpdateMsg(h(i)).type = DelType(h(i).delhtlc)
        /\ UpdateMsg(h(i)).id = h(i).id
        /\ h(i).delhtlc \in Deletion
        /\ IsReceived(h(i))
  BY <1>2, <1>6 DEF UpdateMsg, LN_HTLC_WILL_DELHTLC, DelType, Deletion, HtlcType, IsReceived
<1> HIDE DEF W, N, ms, h
<1>11. \A n : Adding(ms, n) <=> \E i \in Slot : LN_HTLC_WILL_ADDHTLC(h(i)) /\ h(i).id = n
  BY <1>2, <1>3, <1>5, <1>7, <1>8, <1>9, <1>10, DelTypes DEF Adding
<1>12. \A x : AddingRef(ms, x) <=>
          \E i \in Slot : /\ LN_HTLC_WILL_ADDHTLC(h(i))
                          /\ h(i).id = x.id /\ h(i).amount_msat = x.amount_msat
  BY <1>2, <1>3, <1>5, <1>7, <1>8, <1>9, <1>10, DelTypes DEF AddingRef
<1>13. \A n : \A del \in Deletion : Deleting(ms, n, del) <=>
          \E i \in Slot : /\ LN_HTLC_WILL_DELHTLC(h(i))
                          /\ h(i).id = n /\ h(i).delhtlc = del
  <2> TAKE n
  <2> TAKE del \in Deletion
  <2>1. ASSUME Deleting(ms, n, del)
        PROVE  \E i \in Slot : LN_HTLC_WILL_DELHTLC(h(i)) /\ h(i).id = n /\ h(i).delhtlc = del
    <3>1. PICK k \in 1 .. N : ms[k].type = DelType(del) /\ ms[k].id = n
      BY <1>5, <2>1 DEF Deleting
    <3>2. LN_HTLC_WILL_DELHTLC(h(order[k])) /\ order[k] \in Slot
      BY <1>2, <1>5, <1>8, <1>9, <3>1, DelTypes
    <3>3. h(order[k]).id = n /\ h(order[k]).delhtlc = del
      BY <1>5, <1>10, <3>1, <3>2, DelTypes
    <3> QED BY <3>2, <3>3
  <2>2. ASSUME NEW i \in Slot, LN_HTLC_WILL_DELHTLC(h(i)), h(i).id = n, h(i).delhtlc = del
        PROVE  Deleting(ms, n, del)
    BY <1>3, <1>5, <1>7, <1>10, <2>2 DEF Deleting
  <2> QED BY <2>1, <2>2
<1>14. \A k \in DOMAIN ms : ms[k].type \in UpdateType \cup {"update_add_htlc"}
  BY <1>5, <1>8, <1>9, <1>10, DelTypes
<1>15. ~Signing(ms) /\ ~Acking(ms)
  BY <1>14 DEF Signing, Acking, UpdateType
<1>16. Tidy(ms)
  <2>1. \A i, j \in W : /\ IsOwn(h(i)) /\ IsOwn(h(j)) /\ h(i).id = h(j).id => i = j
                        /\ IsReceived(h(i)) /\ IsReceived(h(j)) /\ h(i).id = h(j).id => i = j
    BY <1>2 DEF EndOK, h
  <2>2. ASSUME NEW j \in 1 .. N, NEW k \in 1 .. N
        PROVE  /\ /\ ms[j].type = "update_add_htlc" /\ ms[k].type = "update_add_htlc"
                  /\ ms[j].id = ms[k].id
                  => j = k
               /\ /\ ms[j].type \in UpdateType /\ ms[k].type \in UpdateType
                  /\ ms[j].id = ms[k].id
                  => j = k
    <3>1. ASSUME ms[j].type = "update_add_htlc", ms[k].type = "update_add_htlc",
                 ms[j].id = ms[k].id
          PROVE  order[j] = order[k]
      <4>1. LN_HTLC_WILL_ADDHTLC(h(order[j])) /\ LN_HTLC_WILL_ADDHTLC(h(order[k]))
        BY <1>5, <1>8, <1>10, <3>1, DelTypes
      <4> QED BY <1>5, <1>9, <2>1, <3>1, <4>1
    <3>2. ASSUME ms[j].type \in UpdateType, ms[k].type \in UpdateType,
                 ms[j].id = ms[k].id
          PROVE  order[j] = order[k]
      <4>1. LN_HTLC_WILL_DELHTLC(h(order[j])) /\ LN_HTLC_WILL_DELHTLC(h(order[k]))
        BY <1>5, <1>8, <1>9, <3>2 DEF UpdateType
      <4> QED BY <1>5, <1>10, <2>1, <3>2, <4>1
    <3> QED BY <1>4, <3>1, <3>2
  <2>3. \A k \in 1 .. N : ms[k].type \notin Exchange
    BY <1>5, <1>14 DEF UpdateType, Exchange
  <2> QED BY <1>5, <2>2, <2>3 DEF Tidy, Exchange
<1> QED BY <1>1, <1>11, <1>12, <1>13, <1>15, <1>16 DEF UpdateView, ms, h

\* The same with a commitment_signed behind them.
LEMMA UpdateSignViews ==
    ASSUME NEW s \in SelfType, NEW ms \in Seq(Message), UpdateView(s, ms), ~Signing(ms),
           NEW m \in Message, m.type = "commitment_signed"
    PROVE  UpdateView(s, ms \o <<m>>) /\ Signing(ms \o <<m>>)
<1>1. <<m>> \in Seq(Message)
  OBVIOUS
<1>2. SendView(ms, ms \o <<m>>, <<m>>)
  BY <1>1, SendViews
<1>3. m.type \notin UpdateType
  BY DEF UpdateType
<1>4. /\ Tidy(<<m>>) /\ \A n : ~Adding(<<m>>, n) /\ NotDeleting(<<m>>, n)
      /\ \A x : ~AddingRef(<<m>>, x)
      /\ \A n : \A del \in Deletion : ~Deleting(<<m>>, n, del)
      /\ Signing(<<m>>) /\ ~Acking(<<m>>)
  BY <1>3, OneMessage
<1>5. Tidy(ms \o <<m>>)
  BY <1>1, <1>4, SentTidy DEF UpdateView
<1> DEFINE r == ms \o <<m>>
           q == <<m>>
<1> HIDE DEF r, q
<1>6. SendView(ms, r, q)
  BY <1>2 DEF r, q
<1>7. /\ \A n : ~Adding(q, n)
      /\ \A x : ~AddingRef(q, x)
      /\ \A n : \A del \in Deletion : ~Deleting(q, n, del)
      /\ Signing(q) /\ ~Acking(q)
  BY <1>4 DEF q
<1>8. Tidy(r)
  BY <1>5 DEF r
<1>9. UpdateView(s, r) /\ Signing(r)
  BY <1>6, <1>7, <1>8 DEF SendView, UpdateView
<1> QED BY <1>9 DEF r

----------------------------------------------------------------------------
(* Steps that change nothing the pairing of two slots is about.            *)

\* The fields of a slot the pairing reads.
SameHtlc(h, g) ==
    /\ h.id = g.id /\ h.amount_msat = g.amount_msat
    /\ h.addhtlc = g.addhtlc /\ h.delhtlc = g.delhtlc
    /\ h.updsend = g.updsend /\ h.comsend = g.comsend /\ h.revrecv = g.revrecv
    /\ h.comrecv = g.comrecv /\ h.revsend = g.revsend

\* What the pairing reads of the stream to the offerer, to the receiver.
SameToOfferer(q, r) ==
    /\ \A n : \A del \in Deletion : Deleting(r, n, del) <=> Deleting(q, n, del)
    /\ Signing(r) <=> Signing(q)
    /\ Acking(r) <=> Acking(q)
    /\ AckAhead(r) <=> AckAhead(q)

\* Two streams the receiver reads alike.
SameToReceiver(q, r) ==
    /\ \A n : Adding(r, n) <=> Adding(q, n)
    /\ \A x : AddingRef(r, x) <=> AddingRef(q, x)
    /\ Signing(r) <=> Signing(q)
    /\ Acking(r) <=> Acking(q)

\* s and t agree on the HTLCs they offer, on the ones they received.
SameOffers(s, t) ==
    /\ \A i \in Slot :
          IsOwn(s.cnl_add_htlc[i]) \/ IsOwn(t.cnl_add_htlc[i])
            => SameHtlc(s.cnl_add_htlc[i], t.cnl_add_htlc[i])
    /\ t.htlc_id_num = s.htlc_id_num /\ t.paid_out = s.paid_out

\* The received HTLCs of two states are the same.
SameReceived(s, t) ==
    /\ \A i \in Slot :
          IsReceived(s.cnl_add_htlc[i]) \/ IsReceived(t.cnl_add_htlc[i])
            => SameHtlc(s.cnl_add_htlc[i], t.cnl_add_htlc[i])
    /\ t.paid_in = s.paid_in

\* A pair reads nothing else.
LEMMA SamePaired ==
    ASSUME NEW h, NEW h2, NEW g, NEW g2, NEW a, NEW a2, NEW b, NEW b2, NEW ta, NEW tb,
           SameHtlc(h, h2), SameHtlc(g, g2), SameToOfferer(a, a2), SameToReceiver(b, b2),
           Paired(h, g, a, b, ta, tb)
    PROVE  Paired(h2, g2, a2, b2, ta, tb)
<1>1. Ref(h2) = Ref(g2) /\ h2.updsend
  BY DEF SameHtlc, Paired, Ref
<1>2. NotDeleting(a, h.id) => NotDeleting(a2, h2.id)
  BY DEF NotDeleting, SameToOfferer, SameHtlc
<1>3. CASE Added(h, g, a, b, ta, tb)
  BY <1>1, <1>2, <1>3 DEF Added, Paired, SameHtlc, SameToOfferer, SameToReceiver
<1>4. CASE DelDecided(h, g, a)
  BY <1>1, <1>2, <1>4 DEF DelDecided, Paired, SameHtlc, Exchanged
<1>5. CASE DelSent(h, g, a, b)
  BY <1>1, <1>5 DEF DelSent, Paired, SameHtlc, SameToOfferer, SameToReceiver, Exchanged
<1>6. CASE DelKnown(h, g, a, b, ta, tb)
  BY <1>1, <1>2, <1>6 DEF DelKnown, Paired, SameHtlc, SameToOfferer, SameToReceiver
<1>7. CASE DelLost(h, g, a, b, ta)
  BY <1>1, <1>7 DEF DelLost, Paired, SameHtlc, SameToReceiver
<1>8. CASE Doomed(h, g, a)
  BY <1>1, <1>8 DEF Doomed, Paired, SameHtlc, SameToOfferer
<1> QED BY <1>3, <1>4, <1>5, <1>6, <1>7, <1>8 DEF Paired

\* Nor does the pairing.
LEMMA SamePairing ==
    ASSUME NEW O, NEW O2, NEW R, NEW R2, NEW a, NEW a2, NEW b, NEW b2, NEW ta, NEW tb,
           SameOffers(O, O2), SameReceived(R, R2),
           \A i \in Slot : SlotOK(O.cnl_add_htlc[i]) /\ SlotOK(O2.cnl_add_htlc[i]),
           SameToOfferer(a, a2), SameToReceiver(b, b2),
           Pairing(O, R, a, b, ta, tb)
    PROVE  Pairing(O2, R2, a2, b2, ta, tb)
<1> DEFINE h(i) == O.cnl_add_htlc[i]
           h2(i) == O2.cnl_add_htlc[i]
           g(j) == R.cnl_add_htlc[j]
           g2(j) == R2.cnl_add_htlc[j]
<1>1. \A i \in Slot : /\ IsOwn(h(i)) \/ IsOwn(h2(i)) => SameHtlc(h(i), h2(i))
                      /\ IsOffered(h(i)) => IsOwn(h(i))
                      /\ IsOffered(h2(i)) => IsOwn(h2(i))
  BY DEF SameOffers, IsOwn, IsOffered, SlotOK
<1>2. \A j \in Slot : IsReceived(g(j)) \/ IsReceived(g2(j)) => SameHtlc(g(j), g2(j))
  BY DEF SameReceived
<1>3. /\ O2.htlc_id_num = O.htlc_id_num /\ O2.paid_out = O.paid_out
      /\ R2.paid_in = R.paid_in
  BY DEF SameOffers, SameReceived
<1>4. \A n : NotDeleting(a2, n) <=> NotDeleting(a, n)
  BY DEF NotDeleting, SameToOfferer
<1> HIDE DEF h, h2, g, g2
<1>5. \A i \in Slot : IsOffered(h2(i)) => IsOffered(h(i)) /\ SameHtlc(h(i), h2(i)) /\ Ref(h2(i)) = Ref(h(i))
  BY <1>1 DEF SameHtlc, IsOffered, Ref
<1>6. \A i \in Slot : IsOffered(h(i)) => IsOffered(h2(i)) /\ SameHtlc(h(i), h2(i)) /\ Ref(h2(i)) = Ref(h(i))
  BY <1>1 DEF SameHtlc, IsOffered, Ref
<1>7. \A i \in Slot : IsReceived(g2(i)) => IsReceived(g(i)) /\ SameHtlc(g(i), g2(i)) /\ Ref(g2(i)) = Ref(g(i))
  BY <1>2 DEF SameHtlc, IsReceived, Ref
<1>8. \A i \in Slot : IsReceived(g(i)) => IsReceived(g2(i)) /\ SameHtlc(g(i), g2(i)) /\ Ref(g2(i)) = Ref(g(i))
  BY <1>2 DEF SameHtlc, IsReceived, Ref
<1>9. PairsFit(O2, R2, a2, b2, ta, tb)
  <2> SUFFICES ASSUME NEW i \in Slot, NEW j \in Slot,
                      IsOffered(h2(i)), IsReceived(g2(j)), h2(i).id = g2(j).id
               PROVE  Paired(h2(i), g2(j), a2, b2, ta, tb)
    BY DEF PairsFit, h2, g2
  <2>1. /\ IsOffered(h(i)) /\ SameHtlc(h(i), h2(i))
        /\ IsReceived(g(j)) /\ SameHtlc(g(j), g2(j))
    BY <1>5, <1>7
  <2>2. h(i).id = g(j).id
    BY <2>1 DEF SameHtlc
  <2>3. Paired(h(i), g(j), a, b, ta, tb)
    BY <2>1, <2>2 DEF Pairing, PairsFit, h, g
  <2> QED BY <2>1, <2>3, SamePaired
<1>10. OffersFit(O2, R2, a2, b2, ta, tb)
  <2> SUFFICES ASSUME NEW i \in Slot
               PROVE  /\ IsOwn(h2(i)) /\ ~h2(i).updsend => Unheard(h2(i).id, R2, a2, b2)
                      /\ IsOffered(h2(i)) /\ h2(i).updsend =>
                            \/ AddSent(h2(i), a2, b2)
                            \/ \E j \in Slot : IsReceived(g2(j)) /\ g2(j).id = h2(i).id
                            \/ ReceiverGone(h2(i), R2, a2, b2, tb)
                      /\ IsOffered(h2(i)) /\ Adding(b2, h2(i).id) => AddSent(h2(i), a2, b2)
    BY DEF OffersFit, h2, g2
  <2>1. /\ IsOwn(h(i)) /\ ~h(i).updsend => Unheard(h(i).id, R, a, b)
        /\ IsOffered(h(i)) /\ h(i).updsend =>
              \/ AddSent(h(i), a, b)
              \/ \E j \in Slot : IsReceived(g(j)) /\ g(j).id = h(i).id
              \/ ReceiverGone(h(i), R, a, b, tb)
        /\ IsOffered(h(i)) /\ Adding(b, h(i).id) => AddSent(h(i), a, b)
    BY DEF Pairing, OffersFit, h, g
  <2>2. \A n : Unheard(n, R, a, b) => Unheard(n, R2, a2, b2)
    BY <1>3, <1>4, <1>7 DEF Unheard, SameHtlc, SameToReceiver, g, g2
  <2>3. SameHtlc(h(i), h2(i)) /\ AddSent(h(i), a, b) => AddSent(h2(i), a2, b2)
    BY <1>4 DEF AddSent, SameHtlc, SameToReceiver, SameToOfferer, Ref
  <2>4. SameHtlc(h(i), h2(i)) /\ ReceiverGone(h(i), R, a, b, tb) => ReceiverGone(h2(i), R2, a2, b2, tb)
    BY <1>3, <1>4 DEF ReceiverGone, SameHtlc, SameToOfferer, Ref
  <2>5. IsOwn(h2(i)) /\ ~h2(i).updsend => Unheard(h2(i).id, R2, a2, b2)
    BY <1>1, <2>1, <2>2 DEF SameHtlc, IsOwn
  <2>6. IsOffered(h2(i)) /\ h2(i).updsend =>
                            \/ AddSent(h2(i), a2, b2)
                            \/ \E j \in Slot : IsReceived(g2(j)) /\ g2(j).id = h2(i).id
                            \/ ReceiverGone(h2(i), R2, a2, b2, tb)
    BY <1>5, <1>8, <2>1, <2>3, <2>4 DEF SameHtlc
  <2>7. IsOffered(h2(i)) /\ Adding(b2, h2(i).id) => AddSent(h2(i), a2, b2)
    BY <1>5, <2>1, <2>3 DEF SameHtlc, SameToReceiver
  <2> QED BY <2>5, <2>6, <2>7
<1>11. ReceivedFit(O2, R2, a2, b2, tb)
  <2> SUFFICES ASSUME NEW j \in Slot, IsReceived(g2(j))
               PROVE  /\ g2(j).id < O2.htlc_id_num
                      /\ ~Adding(b2, g2(j).id)
                      /\ \/ \E i \in Slot : IsOffered(h2(i)) /\ h2(i).id = g2(j).id
                         \/ OffererGone(g2(j), O2, a2, b2, tb)
    BY DEF ReceivedFit, h2, g2
  <2>1. IsReceived(g(j)) /\ SameHtlc(g(j), g2(j))
    BY <1>7
  <2>2. /\ g(j).id < O.htlc_id_num
        /\ ~Adding(b, g(j).id)
        /\ \/ \E i \in Slot : IsOffered(h(i)) /\ h(i).id = g(j).id
           \/ OffererGone(g(j), O, a, b, tb)
    BY <2>1 DEF Pairing, ReceivedFit, h, g
  <2>3. OffererGone(g(j), O, a, b, tb) => OffererGone(g2(j), O2, a2, b2, tb)
    BY <1>3, <1>4, <2>1 DEF OffererGone, SameHtlc, SameToOfferer, SameToReceiver, Ref
  <2> QED BY <1>3, <1>6, <2>1, <2>2, <2>3 DEF SameHtlc, SameToReceiver
<1>12. UpdatesFit(O2, R2, a2, b2)
  <2>1. \A n : Adding(b2, n) =>
          /\ \E i \in Slot : IsOffered(h2(i)) /\ h2(i).id = n
          /\ \A x \in R2.paid_in : x.id # n
    BY <1>3, <1>6 DEF Pairing, UpdatesFit, SameToReceiver, SameHtlc, h, h2
  <2>2. \A n : \A del \in Deletion : Deleting(a2, n, del) =>
          /\ n < O2.htlc_id_num
          /\ \/ \E j \in Slot : IsReceived(g2(j)) /\ g2(j).id = n
             \/ Doomable /\ del = "FAIL"
    BY <1>3, <1>8 DEF Pairing, UpdatesFit, SameToOfferer, SameHtlc, g, g2
  <2> QED BY <2>1, <2>2 DEF UpdatesFit, h2, g2
<1>13. PaidFit(O2, R2)
  BY <1>3, <1>6, <1>8 DEF Pairing, PaidFit, h, h2, g, g2
<1> QED BY <1>9, <1>10, <1>11, <1>12, <1>13 DEF Pairing

----------------------------------------------------------------------------
(* An end stops: what was under way to it is lost.                         *)

\* The offerer stops and its stream is lost.
LEMMA OffererStops ==
    ASSUME NEW O, NEW R, NEW a, NEW b, NEW ta, NEW tb, NEW t2, t2 # "run",
           Pairing(O, R, a, b, ta, tb)
    PROVE  Pairing(O, R, <<>>, b, t2, tb)
<1> DEFINE e == <<>>
           h(i) == O.cnl_add_htlc[i]
           g(j) == R.cnl_add_htlc[j]
<1>1. /\ ~Signing(e) /\ ~Acking(e) /\ ~AckAhead(e)
      /\ \A n : NotDeleting(e, n)
      /\ \A n, del : ~Deleting(e, n, del)
  BY EmptyView
<1> HIDE DEF e, h, g
<1>2. PairsFit(O, R, e, b, t2, tb)
  <2> SUFFICES ASSUME NEW i \in Slot, NEW j \in Slot,
                      IsOffered(h(i)), IsReceived(g(j)), h(i).id = g(j).id
               PROVE  Paired(h(i), g(j), e, b, t2, tb)
    BY DEF PairsFit, h, g
  <2>1. Paired(h(i), g(j), a, b, ta, tb)
    BY DEF Pairing, PairsFit, h, g
  <2>2. CASE Added(h(i), g(j), a, b, ta, tb)
    BY <1>1, <2>1, <2>2 DEF Added, Paired
  <2>3. CASE DelDecided(h(i), g(j), a)
    BY <1>1, <2>1, <2>3 DEF DelDecided, Paired
  <2>4. CASE DelSent(h(i), g(j), a, b)
    BY <2>1, <2>4 DEF DelSent, DelLost, Paired, Deletion
  <2>5. CASE DelKnown(h(i), g(j), a, b, ta, tb)
    BY <1>1, <2>1, <2>5 DEF DelKnown, Paired
  <2>6. CASE DelLost(h(i), g(j), a, b, ta)
    BY <2>1, <2>6 DEF DelLost, Paired
  <2>7. CASE Doomed(h(i), g(j), a)
    BY <1>1, <2>1, <2>7 DEF Doomed, Paired
  <2> QED BY <2>1, <2>2, <2>3, <2>4, <2>5, <2>6, <2>7 DEF Paired
<1>3. OffersFit(O, R, e, b, t2, tb)
  <2>1. \A n : Unheard(n, R, a, b) => Unheard(n, R, e, b)
    BY <1>1 DEF Unheard
  <2>2. \A i \in Slot : AddSent(h(i), a, b) => AddSent(h(i), e, b)
    BY <1>1 DEF AddSent
  <2>3. \A i \in Slot : ReceiverGone(h(i), R, a, b, tb) => ReceiverGone(h(i), R, e, b, tb)
    BY <1>1 DEF ReceiverGone
  <2> QED BY <2>1, <2>2, <2>3 DEF Pairing, OffersFit, h
<1>4. ReceivedFit(O, R, e, b, tb)
  <2>1. \A j \in Slot : OffererGone(g(j), O, a, b, tb) => OffererGone(g(j), O, e, b, tb)
    BY <1>1 DEF OffererGone
  <2> QED BY <2>1 DEF Pairing, ReceivedFit, g
<1>5. UpdatesFit(O, R, e, b)
  BY <1>1 DEF Pairing, UpdatesFit
<1>6. PaidFit(O, R)
  BY DEF Pairing
<1> QED BY <1>2, <1>3, <1>4, <1>5, <1>6 DEF Pairing, e

\* The receiver stops and its stream is lost.
LEMMA ReceiverStops ==
    ASSUME NEW O, NEW R, NEW a, NEW b, NEW ta, NEW tb, NEW t2, t2 # "run",
           Pairing(O, R, a, b, ta, tb)
    PROVE  Pairing(O, R, a, <<>>, ta, t2)
<1> DEFINE e == <<>>
           h(i) == O.cnl_add_htlc[i]
           g(j) == R.cnl_add_htlc[j]
<1>1. /\ ~Signing(e) /\ ~Acking(e)
      /\ \A n : ~Adding(e, n)
  BY EmptyView
<1> HIDE DEF e, h, g
<1>2. PairsFit(O, R, a, e, ta, t2)
  <2> SUFFICES ASSUME NEW i \in Slot, NEW j \in Slot,
                      IsOffered(h(i)), IsReceived(g(j)), h(i).id = g(j).id
               PROVE  Paired(h(i), g(j), a, e, ta, t2)
    BY DEF PairsFit, h, g
  <2>1. Paired(h(i), g(j), a, b, ta, tb)
    BY DEF Pairing, PairsFit, h, g
  <2>2. CASE Added(h(i), g(j), a, b, ta, tb)
    BY <1>1, <2>1, <2>2 DEF Added, Paired
  <2>3. CASE DelDecided(h(i), g(j), a)
    BY <2>1, <2>3 DEF Paired
  <2>4. CASE DelSent(h(i), g(j), a, b)
    BY <1>1, <2>1, <2>4 DEF DelSent, Paired
  <2>5. CASE DelKnown(h(i), g(j), a, b, ta, tb)
    BY <1>1, <2>1, <2>5 DEF DelKnown, Paired
  <2>6. CASE DelLost(h(i), g(j), a, b, ta)
    BY <1>1, <2>1, <2>6 DEF DelLost, Paired
  <2>7. CASE Doomed(h(i), g(j), a)
    BY <2>1, <2>7 DEF Paired
  <2> QED BY <2>1, <2>2, <2>3, <2>4, <2>5, <2>6, <2>7 DEF Paired
<1>3. OffersFit(O, R, a, e, ta, t2)
  <2>1. \A n : Unheard(n, R, a, b) => Unheard(n, R, a, e)
    BY <1>1 DEF Unheard
  <2>2. \A i \in Slot : AddSent(h(i), a, b) => ReceiverGone(h(i), R, a, e, t2)
    <3> SUFFICES ASSUME NEW i \in Slot, AddSent(h(i), a, b)
                 PROVE  ReceiverGone(h(i), R, a, e, t2)
      OBVIOUS
    <3>1. Adding(b, h(i).id)
      BY DEF AddSent, AddingRef, Adding, Ref
    <3>2. Ref(h(i)) \notin R.paid_in
      BY <3>1 DEF Pairing, UpdatesFit, Ref
    <3> QED BY <3>2 DEF AddSent, ReceiverGone
  <2>3. \A i \in Slot : ReceiverGone(h(i), R, a, b, tb) => ReceiverGone(h(i), R, a, e, t2)
    BY DEF ReceiverGone
  <2> QED BY <1>1, <2>1, <2>2, <2>3 DEF Pairing, OffersFit, h
<1>4. ReceivedFit(O, R, a, e, t2)
  <2>1. \A j \in Slot : OffererGone(g(j), O, a, b, tb) => OffererGone(g(j), O, a, e, t2)
    BY DEF OffererGone
  <2> QED BY <1>1, <2>1 DEF Pairing, ReceivedFit, g
<1>5. UpdatesFit(O, R, a, e)
  BY <1>1 DEF Pairing, UpdatesFit
<1>6. PaidFit(O, R)
  BY DEF Pairing
<1> QED BY <1>2, <1>3, <1>4, <1>5, <1>6 DEF Pairing, e

----------------------------------------------------------------------------
(* The offerer prepares an HTLC: it takes a slot, or is given its direction.*)

\* The offerer has prepared HTLCs that it has not announced.
OffersPrepared(O, O2, R, a, b) ==
    /\ \A i \in Slot :
          LET h == O.cnl_add_htlc[i]
              h2 == O2.cnl_add_htlc[i]
          IN  \/ IsOwn(h) \/ IsOwn(h2) => SameHtlc(h, h2)
              \/ /\ ~IsOffered(h) /\ IsOwn(h2) /\ ~h2.updsend
                 /\ Unheard(h2.id, R, a, b)
    /\ O2.htlc_id_num \in Nat /\ O2.htlc_id_num >= O.htlc_id_num
    /\ O2.paid_out = O.paid_out

\* That keeps the pairing.
LEMMA OffererPrepares ==
    ASSUME NEW O \in SelfType, NEW O2, NEW R \in SelfType, NEW a, NEW b, NEW ta, NEW tb,
           OffersPrepared(O, O2, R, a, b),
           \A i \in Slot : SlotOK(O.cnl_add_htlc[i]) /\ SlotOK(O2.cnl_add_htlc[i]),
           Pairing(O, R, a, b, ta, tb),
           \A n : Adding(b, n) => n \in Nat,
           \A n : \A del \in Deletion : Deleting(a, n, del) => n \in Nat
    PROVE  Pairing(O2, R, a, b, ta, tb)
<1> DEFINE h(i) == O.cnl_add_htlc[i]
           h2(i) == O2.cnl_add_htlc[i]
           g(j) == R.cnl_add_htlc[j]
<1>1. \A i \in Slot : \/ IsOwn(h(i)) \/ IsOwn(h2(i)) => SameHtlc(h(i), h2(i))
                      \/ /\ ~IsOffered(h(i)) /\ IsOwn(h2(i)) /\ ~h2(i).updsend
                         /\ Unheard(h2(i).id, R, a, b)
  BY DEF OffersPrepared
<1>2. \A i \in Slot : /\ IsOffered(h(i)) => IsOwn(h(i))
                      /\ IsOffered(h2(i)) => IsOwn(h2(i))
  BY DEF IsOwn, IsOffered, SlotOK
<1>3. /\ O2.htlc_id_num \in Nat /\ O.htlc_id_num \in Nat
      /\ O2.htlc_id_num >= O.htlc_id_num /\ O2.paid_out = O.paid_out
  BY DEF OffersPrepared, SelfType
<1>4. \A n \in Nat : n < O.htlc_id_num => n < O2.htlc_id_num
  BY <1>3
<1>5. \A j \in Slot : g(j).id \in Nat
  BY SlotHolds DEF HtlcType
<1>6. \A x \in R.paid_in : x.id \in Nat
  BY DEF SelfType, RefType
<1> HIDE DEF h, h2, g
<1>7. \A i \in Slot : IsOffered(h(i)) => IsOffered(h2(i)) /\ SameHtlc(h(i), h2(i)) /\ Ref(h2(i)) = Ref(h(i))
  BY <1>1, <1>2 DEF SameHtlc, IsOffered, Ref
<1>8. \A i \in Slot : IsOffered(h2(i)) =>
         \/ IsOffered(h(i)) /\ SameHtlc(h(i), h2(i)) /\ Ref(h2(i)) = Ref(h(i))
         \/ ~h2(i).updsend /\ Unheard(h2(i).id, R, a, b)
  BY <1>1, <1>2 DEF SameHtlc, IsOffered, Ref
<1>9. \A q : SameToOfferer(q, q) /\ SameToReceiver(q, q)
  BY DEF SameToOfferer, SameToReceiver
<1>10. \A f : SameHtlc(f, f)
  BY DEF SameHtlc
<1>11. PairsFit(O2, R, a, b, ta, tb)
  <2> SUFFICES ASSUME NEW i \in Slot, NEW j \in Slot,
                      IsOffered(h2(i)), IsReceived(g(j)), h2(i).id = g(j).id
               PROVE  Paired(h2(i), g(j), a, b, ta, tb)
    BY DEF PairsFit, h2, g
  <2>1. ~Unheard(h2(i).id, R, a, b)
    BY DEF Unheard, g
  <2>2. IsOffered(h(i)) /\ SameHtlc(h(i), h2(i)) /\ h(i).id = g(j).id
    BY <1>8, <2>1 DEF SameHtlc
  <2>3. Paired(h(i), g(j), a, b, ta, tb)
    BY <2>2 DEF Pairing, PairsFit, h, g
  <2> QED BY <1>9, <1>10, <2>2, <2>3, SamePaired
<1>12. OffersFit(O2, R, a, b, ta, tb)
  <2> SUFFICES ASSUME NEW i \in Slot
               PROVE  /\ IsOwn(h2(i)) /\ ~h2(i).updsend => Unheard(h2(i).id, R, a, b)
                      /\ IsOffered(h2(i)) /\ h2(i).updsend =>
                            \/ AddSent(h2(i), a, b)
                            \/ \E j \in Slot : IsReceived(g(j)) /\ g(j).id = h2(i).id
                            \/ ReceiverGone(h2(i), R, a, b, tb)
                      /\ IsOffered(h2(i)) /\ Adding(b, h2(i).id) => AddSent(h2(i), a, b)
    BY DEF OffersFit, h2, g
  <2>1. /\ IsOwn(h(i)) /\ ~h(i).updsend => Unheard(h(i).id, R, a, b)
        /\ IsOffered(h(i)) /\ h(i).updsend =>
              \/ AddSent(h(i), a, b)
              \/ \E j \in Slot : IsReceived(g(j)) /\ g(j).id = h(i).id
              \/ ReceiverGone(h(i), R, a, b, tb)
        /\ IsOffered(h(i)) /\ Adding(b, h(i).id) => AddSent(h(i), a, b)
    BY DEF Pairing, OffersFit, h, g
  <2>2. CASE ~h2(i).updsend /\ Unheard(h2(i).id, R, a, b)
    BY <2>2 DEF Unheard
  <2>3. CASE IsOwn(h(i)) \/ IsOwn(h2(i)) => SameHtlc(h(i), h2(i))
    <3>1. SameHtlc(h(i), h2(i)) /\ AddSent(h(i), a, b) => AddSent(h2(i), a, b)
      BY DEF AddSent, SameHtlc, Ref
    <3>2. SameHtlc(h(i), h2(i)) /\ ReceiverGone(h(i), R, a, b, tb) => ReceiverGone(h2(i), R, a, b, tb)
      BY DEF ReceiverGone, SameHtlc, Ref
    <3>3. IsOwn(h2(i)) => SameHtlc(h(i), h2(i)) /\ IsOwn(h(i))
      BY <2>3 DEF SameHtlc, IsOwn
    <3>4. IsOffered(h2(i)) => SameHtlc(h(i), h2(i)) /\ IsOffered(h(i))
      BY <1>2, <3>3 DEF SameHtlc, IsOffered
    <3> QED BY <2>1, <3>1, <3>2, <3>3, <3>4 DEF SameHtlc
  <2> QED BY <1>1, <2>2, <2>3
<1>13. ReceivedFit(O2, R, a, b, tb)
  <2> SUFFICES ASSUME NEW j \in Slot, IsReceived(g(j))
               PROVE  /\ g(j).id < O2.htlc_id_num
                      /\ ~Adding(b, g(j).id)
                      /\ \/ \E i \in Slot : IsOffered(h2(i)) /\ h2(i).id = g(j).id
                         \/ OffererGone(g(j), O2, a, b, tb)
    BY DEF ReceivedFit, h2, g
  <2>1. /\ g(j).id < O.htlc_id_num
        /\ ~Adding(b, g(j).id)
        /\ \/ \E i \in Slot : IsOffered(h(i)) /\ h(i).id = g(j).id
           \/ OffererGone(g(j), O, a, b, tb)
    BY DEF Pairing, ReceivedFit, h, g
  <2>2. OffererGone(g(j), O, a, b, tb) => OffererGone(g(j), O2, a, b, tb)
    BY <1>3 DEF OffererGone
  <2> QED BY <1>4, <1>5, <1>7, <2>1, <2>2 DEF SameHtlc
<1>14. UpdatesFit(O2, R, a, b)
  <2>1. \A n : Adding(b, n) =>
          /\ \E i \in Slot : IsOffered(h2(i)) /\ h2(i).id = n
          /\ \A x \in R.paid_in : x.id # n
    BY <1>7 DEF Pairing, UpdatesFit, SameHtlc, h, h2
  <2>2. \A n : \A del \in Deletion : Deleting(a, n, del) =>
          /\ n < O2.htlc_id_num
          /\ \/ \E j \in Slot : IsReceived(g(j)) /\ g(j).id = n
             \/ Doomable /\ del = "FAIL"
    BY <1>4 DEF Pairing, UpdatesFit, g
  <2> QED BY <2>1, <2>2 DEF UpdatesFit, h2, g
<1>15. PaidFit(O2, R)
  BY <1>3, <1>4, <1>6, <1>7 DEF Pairing, PaidFit, h, h2
<1> QED BY <1>11, <1>12, <1>13, <1>14, <1>15 DEF Pairing

----------------------------------------------------------------------------
(* The offerer removes HTLCs whose deletion is exchanged.                  *)

\* D is the set of the slots that are cleared.
OffersSettled(O, O2, D) ==
    /\ D \subseteq Slot
    /\ \A i \in Slot \ D :
          IsOwn(O.cnl_add_htlc[i]) \/ IsOwn(O2.cnl_add_htlc[i])
            => SameHtlc(O.cnl_add_htlc[i], O2.cnl_add_htlc[i])
    /\ \A i \in D : /\ IsOffered(O.cnl_add_htlc[i])
                    /\ O.cnl_add_htlc[i].delhtlc # "NONE" /\ O.cnl_add_htlc[i].comrecv
                    /\ ~IsOwn(O2.cnl_add_htlc[i])
    /\ O2.htlc_id_num = O.htlc_id_num
    /\ O2.paid_out = O.paid_out \cup
          {Ref(O.cnl_add_htlc[i]) : i \in {j \in D : O.cnl_add_htlc[j].delhtlc = "FULFILL"}}

\* The offerer clears HTLCs whose deletion is exchanged.
LEMMA OffererSettles ==
    ASSUME NEW O, NEW O2, NEW R, NEW a, NEW b, NEW ta, NEW tb, NEW D,
           OffersSettled(O, O2, D), EndOK(O), EndOK(R),
           \A i \in Slot : SlotOK(O2.cnl_add_htlc[i]),
           Pairing(O, R, a, b, ta, tb)
    PROVE  Pairing(O2, R, a, b, ta, tb)
<1> DEFINE h(i) == O.cnl_add_htlc[i]
           h2(i) == O2.cnl_add_htlc[i]
           g(j) == R.cnl_add_htlc[j]
<1>1. D \subseteq Slot
  BY DEF OffersSettled
<1>2. \A i \in Slot : /\ IsOffered(h(i)) => IsOwn(h(i))
                      /\ IsOffered(h2(i)) => IsOwn(h2(i))
  BY DEF IsOwn, IsOffered, SlotOK, EndOK
<1>3. \A i \in Slot \ D : IsOwn(h(i)) \/ IsOwn(h2(i)) => SameHtlc(h(i), h2(i))
  BY DEF OffersSettled
<1>4. \A i \in D : /\ IsOffered(h(i)) /\ h(i).delhtlc # "NONE" /\ h(i).comrecv
                   /\ ~IsOwn(h2(i)) /\ h(i).updsend
  BY <1>1 DEF OffersSettled, EndOK, SlotOK
<1>5. /\ O2.htlc_id_num = O.htlc_id_num
      /\ \A x : x \in O2.paid_out <=>
            \/ x \in O.paid_out
            \/ \E i \in D : h(i).delhtlc = "FULFILL" /\ x = Ref(h(i))
  BY DEF OffersSettled
<1>6. \A i, k \in Slot : IsOwn(h(i)) /\ IsOwn(h(k)) /\ h(i).id = h(k).id => i = k
  BY DEF EndOK
<1>7. \A i \in Slot : IsOwn(h(i)) => \A x \in O.paid_out : x.id # h(i).id
  BY DEF EndOK
<1>8. \A j \in Slot : IsReceived(g(j)) => \A x \in R.paid_in : x.id # g(j).id
  BY DEF EndOK
<1>9. \A i \in Slot : Ref(h(i)).id = h(i).id
  BY DEF Ref
<1> HIDE DEF h, h2, g
<1>10. \A i \in Slot \ D : IsOffered(h(i)) =>
          IsOffered(h2(i)) /\ SameHtlc(h(i), h2(i)) /\ Ref(h2(i)) = Ref(h(i))
  BY <1>2, <1>3 DEF SameHtlc, IsOffered, Ref
<1>11. \A i \in Slot : IsOffered(h2(i)) =>
          i \notin D /\ IsOffered(h(i)) /\ SameHtlc(h(i), h2(i)) /\ Ref(h2(i)) = Ref(h(i))
  BY <1>2, <1>3, <1>4 DEF SameHtlc, IsOffered, Ref
<1>12. \A q : SameToOfferer(q, q) /\ SameToReceiver(q, q)
  BY DEF SameToOfferer, SameToReceiver
<1>13. \A f : SameHtlc(f, f)
  BY DEF SameHtlc
\* A removed HTLC that was paid is the only one with its reference.
<1>14. \A i \in D : Ref(h(i)) \in O2.paid_out <=> h(i).delhtlc = "FULFILL"
  BY <1>1, <1>2, <1>4, <1>5, <1>6, <1>7, <1>9
<1>15. ASSUME NEW i \in Slot
       PROVE  /\ IsOwn(h(i)) /\ ~h(i).updsend => Unheard(h(i).id, R, a, b)
              /\ IsOffered(h(i)) /\ h(i).updsend =>
                    \/ AddSent(h(i), a, b)
                    \/ \E j \in Slot : IsReceived(g(j)) /\ g(j).id = h(i).id
                    \/ ReceiverGone(h(i), R, a, b, tb)
              /\ IsOffered(h(i)) /\ Adding(b, h(i).id) => AddSent(h(i), a, b)
  BY DEF Pairing, OffersFit, h, g
<1>16. ASSUME NEW i \in Slot, NEW j \in Slot,
              IsOffered(h(i)), IsReceived(g(j)), h(i).id = g(j).id
       PROVE  Paired(h(i), g(j), a, b, ta, tb)
  BY <1>16 DEF Pairing, PairsFit, h, g
<1>17. PairsFit(O2, R, a, b, ta, tb)
  <2> SUFFICES ASSUME NEW i \in Slot, NEW j \in Slot,
                      IsOffered(h2(i)), IsReceived(g(j)), h2(i).id = g(j).id
               PROVE  Paired(h2(i), g(j), a, b, ta, tb)
    BY DEF PairsFit, h2, g
  <2>1. IsOffered(h(i)) /\ SameHtlc(h(i), h2(i)) /\ h(i).id = g(j).id
    BY <1>11 DEF SameHtlc
  <2> QED BY <1>12, <1>13, <1>16, <2>1, SamePaired
<1>18. OffersFit(O2, R, a, b, ta, tb)
  <2> SUFFICES ASSUME NEW i \in Slot, IsOwn(h2(i))
               PROVE  /\ ~h2(i).updsend => Unheard(h2(i).id, R, a, b)
                      /\ IsOffered(h2(i)) /\ h2(i).updsend =>
                            \/ AddSent(h2(i), a, b)
                            \/ \E j \in Slot : IsReceived(g(j)) /\ g(j).id = h2(i).id
                            \/ ReceiverGone(h2(i), R, a, b, tb)
                      /\ IsOffered(h2(i)) /\ Adding(b, h2(i).id) => AddSent(h2(i), a, b)
    BY <1>2 DEF OffersFit, h2, g
  <2>1. SameHtlc(h(i), h2(i)) /\ IsOwn(h(i))
    BY <1>3, <1>4 DEF SameHtlc, IsOwn
  <2>2. AddSent(h(i), a, b) => AddSent(h2(i), a, b)
    BY <2>1 DEF AddSent, SameHtlc, Ref
  <2>3. ReceiverGone(h(i), R, a, b, tb) => ReceiverGone(h2(i), R, a, b, tb)
    BY <2>1 DEF ReceiverGone, SameHtlc, Ref
  <2>4. IsOffered(h2(i)) => IsOffered(h(i))
    BY <1>11
  <2> QED BY <1>15, <2>1, <2>2, <2>3, <2>4 DEF SameHtlc
<1>19. ReceivedFit(O2, R, a, b, tb)
  <2> SUFFICES ASSUME NEW j \in Slot, IsReceived(g(j))
               PROVE  /\ g(j).id < O2.htlc_id_num
                      /\ ~Adding(b, g(j).id)
                      /\ \/ \E i \in Slot : IsOffered(h2(i)) /\ h2(i).id = g(j).id
                         \/ OffererGone(g(j), O2, a, b, tb)
    BY DEF ReceivedFit, h2, g
  <2>1. /\ g(j).id < O.htlc_id_num
        /\ ~Adding(b, g(j).id)
        /\ \/ \E i \in Slot : IsOffered(h(i)) /\ h(i).id = g(j).id
           \/ OffererGone(g(j), O, a, b, tb)
    BY DEF Pairing, ReceivedFit, h, g
  <2>2. CASE \E i \in Slot \ D : IsOffered(h(i)) /\ h(i).id = g(j).id
    BY <1>5, <1>10, <2>1, <2>2 DEF SameHtlc
  <2>3. ASSUME NEW i \in D, h(i).id = g(j).id
        PROVE  OffererGone(g(j), O2, a, b, tb)
    <3>1. Paired(h(i), g(j), a, b, ta, tb)
      BY <1>1, <1>4, <1>16, <2>3
    <3>2. Ref(g(j)) = Ref(h(i))
      BY <3>1 DEF Paired
    <3>3. DelKnown(h(i), g(j), a, b, ta, tb) \/ Doomed(h(i), g(j), a)
      BY <1>4, <3>1 DEF Paired, Added, DelDecided, DelSent, DelLost
    <3>4. h(i).comrecv /\ h(i).delhtlc # "NONE"
      BY <1>4
    <3>5. CASE DelKnown(h(i), g(j), a, b, ta, tb)
      BY <1>14, <2>3, <3>2, <3>4, <3>5 DEF DelKnown, OffererGone
    <3>6. CASE Doomed(h(i), g(j), a)
      <4>1. h(i).delhtlc # "FULFILL"
        BY <3>6 DEF Doomed
      <4> QED BY <1>14, <2>3, <3>2, <3>6, <4>1 DEF Doomed, OffererGone
    <3> QED BY <3>3, <3>5, <3>6
  <2>4. ASSUME ~\E i \in Slot : IsOffered(h(i)) /\ h(i).id = g(j).id
        PROVE  OffererGone(g(j), O2, a, b, tb)
    <3>1. OffererGone(g(j), O, a, b, tb)
      BY <2>1, <2>4
    <3>2. Ref(g(j)) \in O2.paid_out <=> Ref(g(j)) \in O.paid_out
      <4>1. Ref(g(j)).id = g(j).id
        BY DEF Ref
      <4> QED BY <1>1, <1>4, <1>5, <1>9, <2>4, <4>1
    <3> QED BY <3>1, <3>2 DEF OffererGone
  <2> QED BY <1>1, <1>5, <2>1, <2>2, <2>3, <2>4
<1>20. UpdatesFit(O2, R, a, b)
  <2>1. ASSUME NEW n, Adding(b, n)
        PROVE  /\ \E i \in Slot : IsOffered(h2(i)) /\ h2(i).id = n
               /\ \A x \in R.paid_in : x.id # n
    <3>1. PICK i \in Slot : IsOffered(h(i)) /\ h(i).id = n
      BY <2>1 DEF Pairing, UpdatesFit, h
    <3>2. h(i).delhtlc = "NONE"
      BY <1>15, <2>1, <3>1 DEF AddSent
    <3>3. i \notin D
      BY <1>4, <3>2
    <3>4. \A x \in R.paid_in : x.id # n
      BY <2>1 DEF Pairing, UpdatesFit
    <3> QED BY <1>10, <3>1, <3>3, <3>4 DEF SameHtlc
  <2>2. \A n : \A del \in Deletion : Deleting(a, n, del) =>
          /\ n < O2.htlc_id_num
          /\ \/ \E j \in Slot : IsReceived(g(j)) /\ g(j).id = n
             \/ Doomable /\ del = "FAIL"
    BY <1>5 DEF Pairing, UpdatesFit, g
  <2> QED BY <2>1, <2>2 DEF UpdatesFit, h2, g
<1>21. PaidFit(O2, R)
  <2>1. ASSUME NEW x \in O2.paid_out
        PROVE  x \in R.paid_in \/ \E j \in Slot : IsReceived(g(j)) /\ Ref(g(j)) = x
    <3>1. CASE x \in O.paid_out
      BY <3>1 DEF Pairing, PaidFit, g
    <3>2. ASSUME NEW i \in D, h(i).delhtlc = "FULFILL", x = Ref(h(i))
          PROVE  x \in R.paid_in \/ \E j \in Slot : IsReceived(g(j)) /\ Ref(g(j)) = x
      <4>1. \/ \E j \in Slot : IsReceived(g(j)) /\ g(j).id = h(i).id
            \/ ReceiverGone(h(i), R, a, b, tb)
        BY <1>1, <1>4, <1>15 DEF AddSent
      <4>2. CASE ReceiverGone(h(i), R, a, b, tb)
        BY <3>2, <4>2 DEF ReceiverGone
      <4>3. ASSUME NEW j \in Slot, IsReceived(g(j)), g(j).id = h(i).id
            PROVE  Ref(g(j)) = x
        BY <1>1, <1>4, <1>16, <3>2, <4>3 DEF Paired
      <4> QED BY <4>1, <4>2, <4>3
    <3> QED BY <1>5, <3>1, <3>2
  <2>2. ASSUME NEW x \in R.paid_in
        PROVE  /\ x.id < O2.htlc_id_num
               /\ x \in O2.paid_out \/ \E i \in Slot : IsOffered(h2(i)) /\ Ref(h2(i)) = x
    <3>1. /\ x.id < O2.htlc_id_num
          /\ x \in O.paid_out \/ \E i \in Slot : IsOffered(h(i)) /\ Ref(h(i)) = x
      BY <1>5 DEF Pairing, PaidFit, h
    <3>2. ASSUME NEW i \in D, Ref(h(i)) = x
          PROVE  x \in O2.paid_out
      <4>1. ~\E j \in Slot : IsReceived(g(j)) /\ g(j).id = h(i).id
        BY <1>1, <1>8, <1>9, <3>2
      <4>2. ReceiverGone(h(i), R, a, b, tb)
        BY <1>1, <1>4, <1>15, <4>1 DEF AddSent
      <4>3. h(i).delhtlc = "FULFILL"
        BY <3>2, <4>2, <1>4 DEF ReceiverGone
      <4> QED BY <1>14, <3>2, <4>3
    <3> QED BY <1>1, <1>5, <1>10, <3>1, <3>2
  <2> QED BY <2>1, <2>2 DEF PaidFit, h2, g
<1> QED BY <1>17, <1>18, <1>19, <1>20, <1>21 DEF Pairing

----------------------------------------------------------------------------
(* The receiver decides to delete HTLCs, and removes those whose deletion  *)
(* is exchanged.                                                           *)

\* The deletion starts: clear_htlc_comrevflag.
DeletionStarts(g, g2) ==
    /\ IsReceived(g) /\ IsReceived(g2) /\ Ref(g2) = Ref(g)
    /\ Exchanged(g) /\ g.delhtlc = "NONE" /\ ~g.updsend
    /\ g2.delhtlc # "NONE" /\ ~g2.updsend /\ ~g2.comsend

\* D is the set of the slots that are cleared.
ReceivedSettled(R, R2, D) ==
    /\ D \subseteq Slot
    /\ \A j \in Slot \ D :
          \/ IsReceived(R.cnl_add_htlc[j]) \/ IsReceived(R2.cnl_add_htlc[j])
               => SameHtlc(R.cnl_add_htlc[j], R2.cnl_add_htlc[j])
          \/ DeletionStarts(R.cnl_add_htlc[j], R2.cnl_add_htlc[j])
    /\ \A j \in D : /\ IsReceived(R.cnl_add_htlc[j])
                    /\ R.cnl_add_htlc[j].updsend /\ R.cnl_add_htlc[j].comsend
                    /\ R.cnl_add_htlc[j].revrecv
                    /\ ~IsReceived(R2.cnl_add_htlc[j])
    /\ R2.paid_in = R.paid_in \cup
          {Ref(R.cnl_add_htlc[j]) : j \in {k \in D : R.cnl_add_htlc[k].delhtlc = "FULFILL"}}

\* The receiver clears HTLCs whose deletion is exchanged.
LEMMA ReceiverSettles ==
    ASSUME NEW O, NEW R, NEW R2, NEW a, NEW b, NEW ta, NEW tb, NEW D,
           ReceivedSettled(R, R2, D), EndOK(O), EndOK(R),
           Pairing(O, R, a, b, ta, tb)
    PROVE  Pairing(O, R2, a, b, ta, tb)
<1> DEFINE h(i) == O.cnl_add_htlc[i]
           g(j) == R.cnl_add_htlc[j]
           g2(j) == R2.cnl_add_htlc[j]
<1>1. D \subseteq Slot
  BY DEF ReceivedSettled
<1>2. \A i \in Slot : /\ IsOffered(h(i)) => IsOwn(h(i))
                      /\ h(i).comrecv = h(i).revsend
  BY DEF IsOwn, IsOffered, SlotOK, EndOK
<1>3. \A j \in Slot \ D :
         \/ IsReceived(g(j)) \/ IsReceived(g2(j)) => SameHtlc(g(j), g2(j))
         \/ DeletionStarts(g(j), g2(j))
  BY DEF ReceivedSettled
<1>4. \A j \in D : /\ IsReceived(g(j)) /\ g(j).updsend /\ g(j).comsend /\ g(j).revrecv
                   /\ ~IsReceived(g2(j)) /\ g(j).delhtlc # "NONE"
  BY <1>1 DEF ReceivedSettled, EndOK, SlotOK
<1>5. \A x : x \in R2.paid_in <=>
            \/ x \in R.paid_in
            \/ \E j \in D : g(j).delhtlc = "FULFILL" /\ x = Ref(g(j))
  BY DEF ReceivedSettled
<1>6. \A i, k \in Slot : IsReceived(g(i)) /\ IsReceived(g(k)) /\ g(i).id = g(k).id => i = k
  BY DEF EndOK
<1>7. \A j \in Slot : IsReceived(g(j)) => \A x \in R.paid_in : x.id # g(j).id
  BY DEF EndOK
<1>8. \A i \in Slot : IsOwn(h(i)) => \A x \in O.paid_out : x.id # h(i).id
  BY DEF EndOK
<1>9. \A j \in Slot : Ref(g(j)).id = g(j).id /\ Ref(g2(j)).id = g2(j).id
  BY DEF Ref
<1> HIDE DEF h, g, g2
<1>10. \A j \in Slot \ D : IsReceived(g(j)) =>
          IsReceived(g2(j)) /\ Ref(g2(j)) = Ref(g(j)) /\ g2(j).id = g(j).id
  BY <1>3, <1>9 DEF SameHtlc, IsReceived, Ref, DeletionStarts
<1>11. \A j \in Slot : IsReceived(g2(j)) =>
          /\ j \notin D /\ IsReceived(g(j)) /\ Ref(g2(j)) = Ref(g(j)) /\ g2(j).id = g(j).id
          /\ SameHtlc(g(j), g2(j)) \/ DeletionStarts(g(j), g2(j))
  BY <1>3, <1>4, <1>9 DEF SameHtlc, IsReceived, Ref, DeletionStarts
<1>12. \A q : SameToOfferer(q, q) /\ SameToReceiver(q, q)
  BY DEF SameToOfferer, SameToReceiver
<1>13. \A f : SameHtlc(f, f)
  BY DEF SameHtlc
<1>14. \A j \in D : Ref(g(j)) \in R2.paid_in <=> g(j).delhtlc = "FULFILL"
  BY <1>1, <1>4, <1>5, <1>6, <1>7, <1>9
<1>15. ASSUME NEW i \in Slot
       PROVE  /\ IsOwn(h(i)) /\ ~h(i).updsend => Unheard(h(i).id, R, a, b)
              /\ IsOffered(h(i)) /\ h(i).updsend =>
                    \/ AddSent(h(i), a, b)
                    \/ \E j \in Slot : IsReceived(g(j)) /\ g(j).id = h(i).id
                    \/ ReceiverGone(h(i), R, a, b, tb)
              /\ IsOffered(h(i)) /\ Adding(b, h(i).id) => AddSent(h(i), a, b)
  BY DEF Pairing, OffersFit, h, g
<1>16. ASSUME NEW i \in Slot, NEW j \in Slot,
              IsOffered(h(i)), IsReceived(g(j)), h(i).id = g(j).id
       PROVE  Paired(h(i), g(j), a, b, ta, tb)
  BY <1>16 DEF Pairing, PairsFit, h, g
<1>17. ASSUME NEW j \in Slot, IsReceived(g(j))
       PROVE  /\ g(j).id < O.htlc_id_num
              /\ ~Adding(b, g(j).id)
              /\ \/ \E i \in Slot : IsOffered(h(i)) /\ h(i).id = g(j).id
                 \/ OffererGone(g(j), O, a, b, tb)
  BY <1>17 DEF Pairing, ReceivedFit, h, g
\* What the offerer has of an HTLC that is removed.
<1>18. ASSUME NEW i \in Slot, NEW j \in D, IsOffered(h(i)), h(i).id = g(j).id
       PROVE  /\ Ref(h(i)) = Ref(g(j))
              /\ \/ /\ h(i).delhtlc = g(j).delhtlc /\ h(i).comrecv
                    /\ NotDeleting(a, h(i).id)
                 \/ Doomed(h(i), g(j), a)
  <2>1. Paired(h(i), g(j), a, b, ta, tb)
    BY <1>1, <1>4, <1>16, <1>18
  <2>2. DelKnown(h(i), g(j), a, b, ta, tb) \/ Doomed(h(i), g(j), a)
    BY <1>4, <2>1 DEF Paired, Added, DelDecided, DelSent, DelLost
  <2>3. DelKnown(h(i), g(j), a, b, ta, tb) =>
          h(i).delhtlc = g(j).delhtlc /\ h(i).comrecv /\ NotDeleting(a, h(i).id)
    BY <1>4 DEF DelKnown
  <2> QED BY <2>1, <2>2, <2>3 DEF Paired
<1>19. PairsFit(O, R2, a, b, ta, tb)
  <2> SUFFICES ASSUME NEW i \in Slot, NEW j \in Slot,
                      IsOffered(h(i)), IsReceived(g2(j)), h(i).id = g2(j).id
               PROVE  Paired(h(i), g2(j), a, b, ta, tb)
    BY DEF PairsFit, h, g2
  <2>1. IsReceived(g(j)) /\ h(i).id = g(j).id /\ Ref(g2(j)) = Ref(g(j))
    BY <1>11
  <2>2. Paired(h(i), g(j), a, b, ta, tb)
    BY <1>16, <2>1
  <2>3. CASE SameHtlc(g(j), g2(j))
    BY <1>12, <1>13, <2>2, <2>3, SamePaired
  <2>4. CASE DeletionStarts(g(j), g2(j))
    <3>1. Added(h(i), g(j), a, b, ta, tb)
      BY <2>2, <2>4 DEF DeletionStarts, Paired, DelDecided, DelSent, DelKnown, DelLost,
                        Doomed, Deletion
    <3>2. Exchanged(h(i))
      BY <1>2, <2>4, <3>1 DEF DeletionStarts, Added, Exchanged
    <3>3. DelDecided(h(i), g2(j), a)
      BY <2>4, <3>1, <3>2 DEF DeletionStarts, Added, DelDecided
    <3> QED BY <2>1, <2>2, <3>3 DEF Paired
  <2> QED BY <1>11, <2>3, <2>4
<1>20. OffersFit(O, R2, a, b, ta, tb)
  <2> SUFFICES ASSUME NEW i \in Slot
               PROVE  /\ IsOwn(h(i)) /\ ~h(i).updsend => Unheard(h(i).id, R2, a, b)
                      /\ IsOffered(h(i)) /\ h(i).updsend =>
                            \/ AddSent(h(i), a, b)
                            \/ \E j \in Slot : IsReceived(g2(j)) /\ g2(j).id = h(i).id
                            \/ ReceiverGone(h(i), R2, a, b, tb)
                      /\ IsOffered(h(i)) /\ Adding(b, h(i).id) => AddSent(h(i), a, b)
    BY DEF OffersFit, h, g2
  <2>1. \A n : Unheard(n, R, a, b) => Unheard(n, R2, a, b)
    <3> SUFFICES ASSUME NEW n, Unheard(n, R, a, b)
                 PROVE  Unheard(n, R2, a, b)
      OBVIOUS
    <3>1. \A j \in Slot : IsReceived(g2(j)) => g2(j).id # n
      BY <1>11 DEF Unheard, g
    <3>2. \A x \in R2.paid_in : x.id # n
      BY <1>1, <1>4, <1>5, <1>9 DEF Unheard, g
    <3> QED BY <3>1, <3>2 DEF Unheard, g2
  <2>2. ASSUME NEW j \in Slot, IsReceived(g(j)), g(j).id = h(i).id, IsOffered(h(i))
        PROVE  \/ \E k \in Slot : IsReceived(g2(k)) /\ g2(k).id = h(i).id
               \/ ReceiverGone(h(i), R2, a, b, tb)
    <3>1. CASE j \notin D
      BY <1>10, <2>2, <3>1
    <3>2. CASE j \in D
      <4>1. /\ Ref(h(i)) = Ref(g(j))
            /\ \/ /\ h(i).delhtlc = g(j).delhtlc /\ h(i).comrecv
                  /\ NotDeleting(a, h(i).id)
               \/ Doomed(h(i), g(j), a)
        BY <1>18, <2>2, <3>2
      <4>2. Ref(g(j)) \in R2.paid_in <=> g(j).delhtlc = "FULFILL"
        BY <1>14, <3>2
      <4>3. g(j).delhtlc # "NONE"
        BY <1>4, <3>2
      <4>4. CASE h(i).delhtlc = g(j).delhtlc /\ h(i).comrecv /\ NotDeleting(a, h(i).id)
        BY <4>1, <4>2, <4>3, <4>4 DEF ReceiverGone
      <4>5. CASE Doomed(h(i), g(j), a)
        BY <4>1, <4>2, <4>5 DEF ReceiverGone, Doomed
      <4> QED BY <4>1, <4>4, <4>5
    <3> QED BY <3>1, <3>2
  <2>3. ASSUME ~\E j \in Slot : IsReceived(g(j)) /\ g(j).id = h(i).id,
               ReceiverGone(h(i), R, a, b, tb)
        PROVE  ReceiverGone(h(i), R2, a, b, tb)
    <3>1. Ref(h(i)) \in R2.paid_in <=> Ref(h(i)) \in R.paid_in
      <4>1. Ref(h(i)).id = h(i).id
        BY DEF Ref
      <4> QED BY <1>1, <1>4, <1>5, <1>9, <2>3, <4>1
    <3> QED BY <2>3, <3>1 DEF ReceiverGone
  <2> QED BY <1>15, <2>1, <2>2, <2>3
<1>21. ReceivedFit(O, R2, a, b, tb)
  <2> SUFFICES ASSUME NEW j \in Slot, IsReceived(g2(j))
               PROVE  /\ g2(j).id < O.htlc_id_num
                      /\ ~Adding(b, g2(j).id)
                      /\ \/ \E i \in Slot : IsOffered(h(i)) /\ h(i).id = g2(j).id
                         \/ OffererGone(g2(j), O, a, b, tb)
    BY DEF ReceivedFit, h, g2
  <2>1. /\ IsReceived(g(j)) /\ g2(j).id = g(j).id /\ Ref(g2(j)) = Ref(g(j))
        /\ SameHtlc(g(j), g2(j)) \/ DeletionStarts(g(j), g2(j))
    BY <1>11
  <2>2. SameHtlc(g(j), g2(j)) /\ OffererGone(g(j), O, a, b, tb)
          => OffererGone(g2(j), O, a, b, tb)
    BY <2>1 DEF SameHtlc, OffererGone
  <2>3. ~(DeletionStarts(g(j), g2(j)) /\ OffererGone(g(j), O, a, b, tb))
    BY DEF DeletionStarts, OffererGone
  <2> QED BY <1>17, <2>1, <2>2, <2>3
<1>22. UpdatesFit(O, R2, a, b)
  <2>1. ASSUME NEW n, Adding(b, n)
        PROVE  /\ \E i \in Slot : IsOffered(h(i)) /\ h(i).id = n
               /\ \A x \in R2.paid_in : x.id # n
    <3>1. /\ \E i \in Slot : IsOffered(h(i)) /\ h(i).id = n
          /\ \A x \in R.paid_in : x.id # n
      BY <2>1 DEF Pairing, UpdatesFit, h
    <3>2. \A j \in D : g(j).id # n
      BY <1>1, <1>4, <1>17, <2>1
    <3> QED BY <1>1, <1>5, <1>9, <3>1, <3>2
  <2>2. ASSUME NEW n, NEW del \in Deletion, Deleting(a, n, del)
        PROVE  /\ n < O.htlc_id_num
               /\ \/ \E j \in Slot : IsReceived(g2(j)) /\ g2(j).id = n
                  \/ Doomable /\ del = "FAIL"
    <3>1. /\ n < O.htlc_id_num
          /\ \/ \E j \in Slot : IsReceived(g(j)) /\ g(j).id = n
             \/ Doomable /\ del = "FAIL"
      BY <2>2 DEF Pairing, UpdatesFit, g
    <3>2. ASSUME NEW j \in D, g(j).id = n
          PROVE  Doomable /\ del = "FAIL"
      <4>1. ASSUME NEW i \in Slot, IsOffered(h(i)), h(i).id = g(j).id
            PROVE  Doomable /\ del = "FAIL"
        BY <1>18, <2>2, <3>2, <4>1 DEF NotDeleting, Doomed
      <4>2. CASE OffererGone(g(j), O, a, b, tb)
        BY <2>2, <3>2, <4>2 DEF OffererGone, NotDeleting
      <4> QED BY <1>1, <1>4, <1>17, <4>1, <4>2
    <3> QED BY <1>10, <3>1, <3>2
  <2> QED BY <2>1, <2>2 DEF UpdatesFit, h, g2
<1>23. PaidFit(O, R2)
  <2>1. ASSUME NEW x \in O.paid_out
        PROVE  x \in R2.paid_in \/ \E j \in Slot : IsReceived(g2(j)) /\ Ref(g2(j)) = x
    <3>1. x \in R.paid_in \/ \E j \in Slot : IsReceived(g(j)) /\ Ref(g(j)) = x
      BY DEF Pairing, PaidFit, g
    <3>2. ASSUME NEW j \in D, Ref(g(j)) = x
          PROVE  x \in R2.paid_in
      <4>1. ~\E i \in Slot : IsOffered(h(i)) /\ h(i).id = g(j).id
        BY <1>1, <1>2, <1>8, <1>9, <3>2
      <4>2. OffererGone(g(j), O, a, b, tb)
        BY <1>1, <1>4, <1>17, <4>1
      <4>3. g(j).delhtlc = "FULFILL"
        BY <3>2, <4>2 DEF OffererGone
      <4> QED BY <1>14, <3>2, <4>3
    <3> QED BY <1>5, <1>10, <3>1, <3>2
  <2>2. ASSUME NEW x \in R2.paid_in
        PROVE  /\ x.id < O.htlc_id_num
               /\ x \in O.paid_out \/ \E i \in Slot : IsOffered(h(i)) /\ Ref(h(i)) = x
    <3>1. CASE x \in R.paid_in
      BY <3>1 DEF Pairing, PaidFit, h
    <3>2. ASSUME NEW j \in D, g(j).delhtlc = "FULFILL", x = Ref(g(j))
          PROVE  /\ x.id < O.htlc_id_num
                 /\ x \in O.paid_out \/ \E i \in Slot : IsOffered(h(i)) /\ Ref(h(i)) = x
      <4>1. x.id < O.htlc_id_num
        BY <1>1, <1>4, <1>9, <1>17, <3>2
      <4>2. ASSUME NEW i \in Slot, IsOffered(h(i)), h(i).id = g(j).id
            PROVE  Ref(h(i)) = x
        BY <1>18, <3>2, <4>2
      <4>3. OffererGone(g(j), O, a, b, tb) => x \in O.paid_out
        BY <3>2 DEF OffererGone
      <4> QED BY <1>1, <1>4, <1>17, <4>1, <4>2, <4>3
    <3> QED BY <1>5, <3>1, <3>2
  <2> QED BY <2>1, <2>2 DEF PaidFit, h, g2
<1> QED BY <1>19, <1>20, <1>21, <1>22, <1>23 DEF Pairing

----------------------------------------------------------------------------
(* Steps that change the flags of the HTLCs of the two ends and the        *)
(* messages between them, and no HTLC comes or goes.                       *)

\* The slots hold the same HTLCs, their flags aside.
SameSlots(s, t) ==
    \A i \in Slot : /\ t.cnl_add_htlc[i].id = s.cnl_add_htlc[i].id
                    /\ t.cnl_add_htlc[i].amount_msat = s.cnl_add_htlc[i].amount_msat
                    /\ t.cnl_add_htlc[i].addhtlc = s.cnl_add_htlc[i].addhtlc

\* The HTLCs of O that are announced in the step.
Announced(O, O2, i) ==
    /\ IsOffered(O.cnl_add_htlc[i]) /\ ~O.cnl_add_htlc[i].updsend
    /\ O2.cnl_add_htlc[i].updsend

\* What such a step has to keep, part by part of Pairing.
PairsMove(O, O2, R, R2, a, a2, b, b2, ta, tb) ==
    \A i, j \in Slot :
        LET h == O.cnl_add_htlc[i]
            g == R.cnl_add_htlc[j]
        IN  /\ IsOffered(h) /\ IsReceived(g) /\ h.id = g.id
            /\ Paired(h, g, a, b, ta, tb)
            => Paired(O2.cnl_add_htlc[i], R2.cnl_add_htlc[j], a2, b2, ta, tb)

\* The HTLCs the receiver does not hold stay on their way, or gone.
OffersMove(O, O2, R, R2, a, a2, b, b2, tb) ==
    /\ \A i \in Slot : O.cnl_add_htlc[i].updsend => O2.cnl_add_htlc[i].updsend
    /\ \A i \in Slot :
          LET h == O.cnl_add_htlc[i]
              h2 == O2.cnl_add_htlc[i]
          IN  /\ IsOffered(h)
              /\ \A j \in Slot : IsReceived(R.cnl_add_htlc[j]) => R.cnl_add_htlc[j].id # h.id
              => /\ AddSent(h, a, b) => AddSent(h2, a2, b2)
                 /\ h.updsend /\ ReceiverGone(h, R, a, b, tb)
                      => ReceiverGone(h2, R2, a2, b2, tb)
                 /\ Announced(O, O2, i) /\ Unheard(h.id, R, a, b)
                      => \/ AddSent(h2, a2, b2)
                         \/ ReceiverGone(h2, R2, a2, b2, tb) /\ ~Adding(b2, h.id)

\* The HTLCs the offerer does not hold stay gone.
ReceivedMove(O, O2, R, R2, a, a2, b, b2, tb) ==
    \A j \in Slot :
        /\ IsReceived(R.cnl_add_htlc[j])
        /\ OffererGone(R.cnl_add_htlc[j], O, a, b, tb)
        => OffererGone(R2.cnl_add_htlc[j], O2, a2, b2, tb)

\* The updates under way are old ones or announced by a slot.
UpdatesMove(O, O2, R, a, a2, b, b2) ==
    /\ \A n : Adding(b2, n) =>
          \/ Adding(b, n)
          \/ \E i \in Slot : Announced(O, O2, i) /\ O.cnl_add_htlc[i].id = n
    /\ \A n : \A del \in Deletion : Deleting(a2, n, del) =>
          \/ Deleting(a, n, del)
          \/ \E j \in Slot : IsReceived(R.cnl_add_htlc[j]) /\ R.cnl_add_htlc[j].id = n

\* A step that changes flags and streams so keeps the pairing.
LEMMA SlotsMove ==
    ASSUME NEW O, NEW O2, NEW R, NEW R2, NEW a, NEW a2, NEW b, NEW b2, NEW ta, NEW tb,
           SameSlots(O, O2), SameSlots(R, R2),
           O2.htlc_id_num = O.htlc_id_num, O2.paid_out = O.paid_out, R2.paid_in = R.paid_in,
           EndOK(O),
           PairsMove(O, O2, R, R2, a, a2, b, b2, ta, tb),
           OffersMove(O, O2, R, R2, a, a2, b, b2, tb),
           ReceivedMove(O, O2, R, R2, a, a2, b, b2, tb),
           UpdatesMove(O, O2, R, a, a2, b, b2),
           Pairing(O, R, a, b, ta, tb)
    PROVE  Pairing(O2, R2, a2, b2, ta, tb)
<1> DEFINE h(i) == O.cnl_add_htlc[i]
           h2(i) == O2.cnl_add_htlc[i]
           g(j) == R.cnl_add_htlc[j]
           g2(j) == R2.cnl_add_htlc[j]
           New(i) == Announced(O, O2, i)
<1>1. \A i \in Slot : /\ IsOffered(h(i)) <=> IsOffered(h2(i))
                      /\ IsOwn(h(i)) <=> IsOwn(h2(i))
                      /\ h2(i).id = h(i).id /\ Ref(h2(i)) = Ref(h(i))
                      /\ IsReceived(g(i)) <=> IsReceived(g2(i))
                      /\ g2(i).id = g(i).id /\ Ref(g2(i)) = Ref(g(i))
  BY DEF SameSlots, IsOffered, IsOwn, IsReceived, Ref
<1>2. \A i \in Slot : IsOffered(h(i)) => IsOwn(h(i))
  BY DEF EndOK, SlotOK, IsOffered, IsOwn
<1>3. \A i, k \in Slot : IsOwn(h(i)) /\ IsOwn(h(k)) /\ h(i).id = h(k).id => i = k
  BY DEF EndOK
<1>4. /\ \A i \in Slot : h(i).updsend => h2(i).updsend
      /\ \A i \in Slot : New(i) => IsOffered(h(i)) /\ ~h(i).updsend /\ h2(i).updsend
      /\ \A i \in Slot : IsOffered(h(i)) /\ ~h(i).updsend /\ h2(i).updsend => New(i)
  BY DEF OffersMove, Announced
<1>5. ASSUME NEW i \in Slot, IsOffered(h(i)),
             \A j \in Slot : IsReceived(g(j)) => g(j).id # h(i).id
      PROVE  /\ AddSent(h(i), a, b) => AddSent(h2(i), a2, b2)
             /\ h(i).updsend /\ ReceiverGone(h(i), R, a, b, tb)
                  => ReceiverGone(h2(i), R2, a2, b2, tb)
             /\ New(i) /\ Unheard(h(i).id, R, a, b)
                  => \/ AddSent(h2(i), a2, b2)
                     \/ ReceiverGone(h2(i), R2, a2, b2, tb) /\ ~Adding(b2, h(i).id)
  BY <1>5 DEF OffersMove
<1>6. \A n : Adding(b2, n) =>
          \/ Adding(b, n)
          \/ \E i \in Slot : New(i) /\ h(i).id = n
  BY DEF UpdatesMove
<1>7. \A n : \A del \in Deletion : Deleting(a2, n, del) =>
          \/ Deleting(a, n, del)
          \/ \E j \in Slot : IsReceived(g(j)) /\ g(j).id = n
  BY DEF UpdatesMove
<1> HIDE DEF h, h2, g, g2, New
<1>8. ASSUME NEW i \in Slot
      PROVE  /\ IsOwn(h(i)) /\ ~h(i).updsend => Unheard(h(i).id, R, a, b)
             /\ IsOffered(h(i)) /\ h(i).updsend =>
                   \/ AddSent(h(i), a, b)
                   \/ \E j \in Slot : IsReceived(g(j)) /\ g(j).id = h(i).id
                   \/ ReceiverGone(h(i), R, a, b, tb)
             /\ IsOffered(h(i)) /\ Adding(b, h(i).id) => AddSent(h(i), a, b)
  BY DEF Pairing, OffersFit, h, g
<1>9. ASSUME NEW j \in Slot, IsReceived(g(j))
      PROVE  /\ g(j).id < O.htlc_id_num
             /\ ~Adding(b, g(j).id)
             /\ \/ \E i \in Slot : IsOffered(h(i)) /\ h(i).id = g(j).id
                \/ OffererGone(g(j), O, a, b, tb)
  BY <1>9 DEF Pairing, ReceivedFit, h, g
<1>10. ASSUME NEW i \in Slot, New(i)
       PROVE  Unheard(h(i).id, R, a, b)
  BY <1>2, <1>4, <1>8, <1>10
<1>11. \A n : Unheard(n, R, a, b) =>
          /\ \A j \in Slot : IsReceived(g(j)) => g(j).id # n
          /\ ~Adding(b, n) /\ NotDeleting(a, n)
          /\ \A x \in R.paid_in : x.id # n
  BY DEF Unheard, g
<1>12. PairsFit(O2, R2, a2, b2, ta, tb)
  <2> SUFFICES ASSUME NEW i \in Slot, NEW j \in Slot,
                      IsOffered(h2(i)), IsReceived(g2(j)), h2(i).id = g2(j).id
               PROVE  Paired(h2(i), g2(j), a2, b2, ta, tb)
    BY DEF PairsFit, h2, g2
  <2>1. IsOffered(h(i)) /\ IsReceived(g(j)) /\ h(i).id = g(j).id
    BY <1>1
  <2>2. Paired(h(i), g(j), a, b, ta, tb)
    BY <2>1 DEF Pairing, PairsFit, h, g
  <2> QED BY <2>1, <2>2 DEF PairsMove, h, g, h2, g2
<1>13. OffersFit(O2, R2, a2, b2, ta, tb)
  <2> SUFFICES ASSUME NEW i \in Slot
               PROVE  /\ IsOwn(h2(i)) /\ ~h2(i).updsend => Unheard(h2(i).id, R2, a2, b2)
                      /\ IsOffered(h2(i)) /\ h2(i).updsend =>
                            \/ AddSent(h2(i), a2, b2)
                            \/ \E j \in Slot : IsReceived(g2(j)) /\ g2(j).id = h2(i).id
                            \/ ReceiverGone(h2(i), R2, a2, b2, tb)
                      /\ IsOffered(h2(i)) /\ Adding(b2, h2(i).id) => AddSent(h2(i), a2, b2)
    BY DEF OffersFit, h2, g2
  <2>1. ASSUME IsOwn(h2(i)), ~h2(i).updsend PROVE Unheard(h2(i).id, R2, a2, b2)
    <3>1. IsOwn(h(i)) /\ ~h(i).updsend /\ h2(i).id = h(i).id
      BY <1>1, <1>4, <2>1
    <3>2. Unheard(h(i).id, R, a, b)
      BY <1>8, <3>1
    <3>3. \A j \in Slot : IsReceived(g2(j)) => g2(j).id # h2(i).id
      BY <1>1, <1>11, <3>1, <3>2
    <3>4. ~Adding(b2, h2(i).id)
      BY <1>2, <1>3, <1>4, <1>6, <1>11, <2>1, <3>1, <3>2
    <3>5. NotDeleting(a2, h2(i).id)
      BY <1>7, <1>11, <3>1, <3>2 DEF NotDeleting
    <3> QED BY <1>11, <3>1, <3>2, <3>3, <3>4, <3>5 DEF Unheard, g2
  <2>2. ASSUME IsOffered(h2(i)), h2(i).updsend
        PROVE  \/ AddSent(h2(i), a2, b2)
               \/ \E j \in Slot : IsReceived(g2(j)) /\ g2(j).id = h2(i).id
               \/ ReceiverGone(h2(i), R2, a2, b2, tb)
    <3>1. IsOffered(h(i)) /\ h2(i).id = h(i).id
      BY <1>1, <2>2
    <3>2. CASE \E j \in Slot : IsReceived(g(j)) /\ g(j).id = h(i).id
      BY <1>1, <3>1, <3>2
    <3>3. CASE ~\E j \in Slot : IsReceived(g(j)) /\ g(j).id = h(i).id
      <4>1. CASE h(i).updsend
        BY <1>5, <1>8, <3>1, <3>3, <4>1
      <4>2. CASE ~h(i).updsend
        BY <1>4, <1>5, <1>10, <2>2, <3>1, <3>3, <4>2
      <4> QED BY <4>1, <4>2
    <3> QED BY <3>2, <3>3
  <2>3. ASSUME IsOffered(h2(i)), Adding(b2, h2(i).id) PROVE AddSent(h2(i), a2, b2)
    <3>1. IsOffered(h(i)) /\ h2(i).id = h(i).id /\ IsOwn(h(i))
      BY <1>1, <1>2, <2>3
    <3>2. CASE Adding(b, h(i).id)
      BY <1>5, <1>8, <1>9, <3>1, <3>2
    <3>3. CASE New(i)
      BY <1>5, <1>10, <1>11, <2>3, <3>1, <3>3
    <3> QED BY <1>2, <1>3, <1>4, <1>6, <2>3, <3>1, <3>2, <3>3
  <2> QED BY <2>1, <2>2, <2>3
<1>14. ReceivedFit(O2, R2, a2, b2, tb)
  <2> SUFFICES ASSUME NEW j \in Slot, IsReceived(g2(j))
               PROVE  /\ g2(j).id < O2.htlc_id_num
                      /\ ~Adding(b2, g2(j).id)
                      /\ \/ \E i \in Slot : IsOffered(h2(i)) /\ h2(i).id = g2(j).id
                         \/ OffererGone(g2(j), O2, a2, b2, tb)
    BY DEF ReceivedFit, h2, g2
  <2>1. IsReceived(g(j)) /\ g2(j).id = g(j).id
    BY <1>1
  <2>2. ~Adding(b2, g2(j).id)
    BY <1>6, <1>9, <1>10, <1>11, <2>1
  <2>3. OffererGone(g(j), O, a, b, tb) => OffererGone(g2(j), O2, a2, b2, tb)
    BY <2>1 DEF ReceivedMove, g, g2
  <2> QED BY <1>1, <1>9, <2>1, <2>2, <2>3
<1>15. UpdatesFit(O2, R2, a2, b2)
  <2>1. ASSUME NEW n, Adding(b2, n)
        PROVE  /\ \E i \in Slot : IsOffered(h2(i)) /\ h2(i).id = n
               /\ \A x \in R2.paid_in : x.id # n
    <3>1. CASE Adding(b, n)
      <4>1. /\ \E i \in Slot : IsOffered(h(i)) /\ h(i).id = n
            /\ \A x \in R.paid_in : x.id # n
        BY <3>1 DEF Pairing, UpdatesFit, h
      <4> QED BY <1>1, <4>1
    <3>2. ASSUME NEW i \in Slot, New(i), h(i).id = n
          PROVE  /\ IsOffered(h2(i)) /\ h2(i).id = n
                 /\ \A x \in R2.paid_in : x.id # n
      BY <1>1, <1>4, <1>10, <1>11, <3>2
    <3> QED BY <1>6, <2>1, <3>1, <3>2
  <2>2. ASSUME NEW n, NEW del \in Deletion, Deleting(a2, n, del)
        PROVE  /\ n < O2.htlc_id_num
               /\ \/ \E j \in Slot : IsReceived(g2(j)) /\ g2(j).id = n
                  \/ Doomable /\ del = "FAIL"
    <3>1. CASE Deleting(a, n, del)
      <4>1. /\ n < O.htlc_id_num
            /\ \/ \E j \in Slot : IsReceived(g(j)) /\ g(j).id = n
               \/ Doomable /\ del = "FAIL"
        BY <3>1 DEF Pairing, UpdatesFit, g
      <4> QED BY <1>1, <4>1
    <3>2. ASSUME NEW j \in Slot, IsReceived(g(j)), g(j).id = n
          PROVE  n < O2.htlc_id_num /\ IsReceived(g2(j)) /\ g2(j).id = n
      BY <1>1, <1>9, <3>2
    <3> QED BY <1>7, <2>2, <3>1, <3>2
  <2> QED BY <2>1, <2>2 DEF UpdatesFit, h2, g2
<1>16. PaidFit(O2, R2)
  BY <1>1 DEF Pairing, PaidFit, h, h2, g, g2
<1> QED BY <1>12, <1>13, <1>14, <1>15, <1>16 DEF Pairing

----------------------------------------------------------------------------
(* recv_idle_proc_nonfinal: the updates that wait go out, and perhaps a    *)
(* commitment_signed (cs) behind them.                                     *)

\* What a pass of the send loop does to an offered HTLC; cs says whether it
\* signed.
OfferedSent(h, h2, cs) ==
    /\ h2.delhtlc = h.delhtlc
    /\ h2.revrecv = h.revrecv /\ h2.comrecv = h.comrecv /\ h2.revsend = h.revsend
    /\ h2.updsend
    /\ h2.comsend <=> h.comsend \/ cs

\* r is the stream q to the peer after the pass; t is the peer's thread.
PassSent(s, q, r, ms, t, cs) ==
    /\ t = "run" => SendView(q, r, ms) /\ UpdateView(s, ms) /\ (Signing(ms) <=> cs)
    /\ t # "run" => r = q /\ \A n : ~Adding(q, n) /\ NotDeleting(q, n)

\* A pass of the send loop at the offerer.
LEMMA OffererSends ==
    ASSUME NEW O, NEW O2, NEW R, NEW a, NEW b, NEW b2, NEW ta, NEW tb,
           NEW ms, NEW cs \in BOOLEAN,
           SameSlots(O, O2), O2.htlc_id_num = O.htlc_id_num, O2.paid_out = O.paid_out,
           EndOK(O),
           \A i \in Slot : O.cnl_add_htlc[i].updsend => O2.cnl_add_htlc[i].updsend,
           \A i \in Slot : IsOffered(O.cnl_add_htlc[i]) =>
              /\ OfferedSent(O.cnl_add_htlc[i], O2.cnl_add_htlc[i], cs)
              /\ O.cnl_add_htlc[i].comsend <=> O.cnl_add_htlc[i].revrecv,
           ~Signing(b), ~Acking(a), PassSent(O, b, b2, ms, tb, cs),
           Pairing(O, R, a, b, ta, tb)
    PROVE  Pairing(O2, R, a, b2, ta, tb)
<1> DEFINE h(i) == O.cnl_add_htlc[i]
           h2(i) == O2.cnl_add_htlc[i]
           g(j) == R.cnl_add_htlc[j]
<1>1. \A i \in Slot : IsOffered(h(i)) =>
         /\ h2(i).id = h(i).id /\ Ref(h2(i)) = Ref(h(i))
         /\ OfferedSent(h(i), h2(i), cs)
         /\ h(i).comsend <=> h(i).revrecv
         /\ ~h(i).updsend => /\ h(i).delhtlc = "NONE"
                             /\ ~h(i).comsend /\ ~h(i).revrecv /\ ~h(i).comrecv
  BY DEF SameSlots, Ref, EndOK, SlotOK
<1>2. \A i \in Slot : LN_HTLC_WILL_ADDHTLC(h(i)) <=> IsOffered(h(i)) /\ ~h(i).updsend
  BY <1>1 DEF LN_HTLC_WILL_ADDHTLC, IsOffered
<1>3. \A i \in Slot : IsOffered(h(i)) /\ ~h(i).updsend <=> Announced(O, O2, i)
  BY <1>1 DEF Announced, OfferedSent
<1> HIDE DEF h, h2, g
<1>4. /\ Signing(b2) => cs
      /\ cs => Signing(b2) \/ tb # "run"
      /\ Acking(b2) <=> Acking(b)
  BY DEF PassSent, SendView, UpdateView
<1>5. \A n : Adding(b2, n) =>
         \/ Adding(b, n)
         \/ \E i \in Slot : Announced(O, O2, i) /\ h(i).id = n
  BY <1>2, <1>3 DEF PassSent, SendView, UpdateView, h
<1>6. \A x : AddingRef(b, x) => AddingRef(b2, x)
  BY DEF PassSent, SendView
<1>7. \A x : AddingRef(b, x) => tb = "run"
  BY DEF PassSent, AddingRef, Adding
<1>8. ASSUME NEW i \in Slot, Announced(O, O2, i), tb = "run"
      PROVE  AddingRef(b2, Ref(h(i)))
  <2>1. LN_HTLC_WILL_ADDHTLC(h(i))
    BY <1>2, <1>3, <1>8
  <2>2. Ref(h(i)).id = h(i).id /\ Ref(h(i)).amount_msat = h(i).amount_msat
    BY DEF Ref
  <2>3. \A x : h(i).id = x.id /\ h(i).amount_msat = x.amount_msat => AddingRef(ms, x)
    BY <1>8, <2>1 DEF PassSent, UpdateView, h
  <2>4. AddingRef(ms, Ref(h(i)))
    BY <2>2, <2>3
  <2> QED BY <1>8, <2>4 DEF PassSent, SendView
<1>9. PairsMove(O, O2, R, R, a, a, b, b2, ta, tb)
  <2> SUFFICES ASSUME NEW i \in Slot, NEW j \in Slot, IsOffered(h(i)), IsReceived(g(j)),
                      h(i).id = g(j).id, Paired(h(i), g(j), a, b, ta, tb)
               PROVE  Paired(h2(i), g(j), a, b2, ta, tb)
    BY DEF PairsMove, h, g, h2
  <2>1. /\ Ref(h2(i)) = Ref(g(j)) /\ h2(i).updsend /\ h2(i).id = h(i).id
        /\ OfferedSent(h(i), h2(i), cs) /\ (h(i).comsend <=> h(i).revrecv)
    BY <1>1 DEF Paired, OfferedSent
  <2>2. CASE Added(h(i), g(j), a, b, ta, tb)
    <3>1. Added(h2(i), g(j), a, b2, ta, tb)
      BY <1>4, <2>1, <2>2 DEF Added, OfferedSent
    <3> QED BY <2>1, <3>1 DEF Paired
  <2>3. CASE DelDecided(h(i), g(j), a)
    BY <2>1, <2>3 DEF DelDecided, Paired, OfferedSent, Exchanged
  <2>4. CASE DelSent(h(i), g(j), a, b)
    BY <1>4, <2>1, <2>4 DEF DelSent, Paired, OfferedSent, Exchanged
  <2>5. CASE DelKnown(h(i), g(j), a, b, ta, tb)
    BY <1>4, <2>1, <2>5 DEF DelKnown, Paired, OfferedSent
  <2>6. CASE DelLost(h(i), g(j), a, b, ta)
    BY <1>4, <2>1, <2>6 DEF DelLost, Paired, OfferedSent
  <2>7. CASE Doomed(h(i), g(j), a)
    BY <2>1, <2>7 DEF Doomed, Paired, OfferedSent
  <2> QED BY <2>2, <2>3, <2>4, <2>5, <2>6, <2>7 DEF Paired
<1>10. OffersMove(O, O2, R, R, a, a, b, b2, tb)
  <2> SUFFICES ASSUME NEW i \in Slot, IsOffered(h(i))
               PROVE  /\ AddSent(h(i), a, b) => AddSent(h2(i), a, b2)
                      /\ h(i).updsend /\ ReceiverGone(h(i), R, a, b, tb)
                           => ReceiverGone(h2(i), R, a, b2, tb)
                      /\ Announced(O, O2, i) /\ Unheard(h(i).id, R, a, b)
                           => \/ AddSent(h2(i), a, b2)
                              \/ ReceiverGone(h2(i), R, a, b2, tb) /\ ~Adding(b2, h(i).id)
    BY DEF OffersMove, h, h2
  <2>1. /\ Ref(h2(i)) = Ref(h(i)) /\ h2(i).id = h(i).id
        /\ OfferedSent(h(i), h2(i), cs) /\ (h(i).comsend <=> h(i).revrecv)
    BY <1>1
  <2>2. AddSent(h(i), a, b) => AddSent(h2(i), a, b2)
    BY <1>4, <1>6, <1>7, <2>1 DEF AddSent, OfferedSent
  <2>3. ReceiverGone(h(i), R, a, b, tb) => ReceiverGone(h2(i), R, a, b2, tb)
    BY <2>1 DEF ReceiverGone, OfferedSent
  <2>4. ASSUME Announced(O, O2, i), Unheard(h(i).id, R, a, b)
        PROVE  \/ AddSent(h2(i), a, b2)
               \/ ReceiverGone(h2(i), R, a, b2, tb) /\ ~Adding(b2, h(i).id)
    <3>1. /\ h(i).delhtlc = "NONE" /\ ~h(i).comsend /\ ~h(i).revrecv /\ ~h(i).comrecv
      BY <1>1, <1>3, <2>4
    <3>2. NotDeleting(a, h(i).id) /\ ~Adding(b, h(i).id) /\ Ref(h(i)) \notin R.paid_in
      BY <2>4 DEF Unheard, Ref
    <3>3. CASE tb = "run"
      BY <1>4, <1>8, <2>1, <2>4, <3>1, <3>2, <3>3 DEF AddSent, OfferedSent
    <3>4. CASE tb # "run"
      BY <2>1, <3>1, <3>2, <3>4 DEF ReceiverGone, OfferedSent, PassSent
    <3> QED BY <3>3, <3>4
  <2> QED BY <2>2, <2>3, <2>4
<1>11. ReceivedMove(O, O2, R, R, a, a, b, b2, tb)
  BY <1>4 DEF ReceivedMove, OffererGone
<1>12. UpdatesMove(O, O2, R, a, a, b, b2)
  BY <1>5 DEF UpdatesMove, h
<1>13. SameSlots(R, R)
  BY DEF SameSlots
<1> QED BY <1>9, <1>10, <1>11, <1>12, <1>13, SlotsMove

\* What a pass of the send loop does to a received HTLC.
ReceivedSent(g, g2, cs) ==
    /\ g2.delhtlc = g.delhtlc
    /\ g2.revrecv = g.revrecv /\ g2.comrecv = g.comrecv /\ g2.revsend = g.revsend
    /\ g2.updsend <=> g.delhtlc # "NONE"
    /\ g2.comsend <=> g.comsend \/ (cs /\ (g2.updsend \/ g.comrecv))

\* A pass of the send loop at the receiver.
LEMMA ReceiverSends ==
    ASSUME NEW O, NEW R, NEW R2, NEW a, NEW a2, NEW b, NEW ta, NEW tb,
           NEW ms, NEW cs \in BOOLEAN,
           SameSlots(R, R2), R2.paid_in = R.paid_in,
           EndOK(O), EndOK(R), \A j \in Slot : R.cnl_add_htlc[j] \in HtlcType,
           \A j \in Slot : IsReceived(R.cnl_add_htlc[j]) =>
              /\ ReceivedSent(R.cnl_add_htlc[j], R2.cnl_add_htlc[j], cs)
              /\ R.cnl_add_htlc[j].comsend <=> R.cnl_add_htlc[j].revrecv,
           ~Signing(a), ~Acking(b), PassSent(R, a, a2, ms, ta, cs),
           Pairing(O, R, a, b, ta, tb)
    PROVE  Pairing(O, R2, a2, b, ta, tb)
<1> DEFINE h(i) == O.cnl_add_htlc[i]
           g(j) == R.cnl_add_htlc[j]
           g2(j) == R2.cnl_add_htlc[j]
<1>1. \A j \in Slot : IsReceived(g(j)) =>
         /\ g2(j).id = g(j).id /\ Ref(g2(j)) = Ref(g(j))
         /\ ReceivedSent(g(j), g2(j), cs)
         /\ g(j).comsend <=> g(j).revrecv
         /\ g(j).updsend => g(j).delhtlc # "NONE"
         /\ g(j).delhtlc # "NONE" => g(j).delhtlc \in Deletion
  BY DEF SameSlots, Ref, EndOK, SlotOK, Deletion, HtlcType
<1>2. \A j \in Slot : LN_HTLC_WILL_DELHTLC(g(j)) <=>
         IsReceived(g(j)) /\ g(j).delhtlc # "NONE" /\ ~g(j).updsend
  BY DEF LN_HTLC_WILL_DELHTLC, IsReceived
<1>3. \A i, k \in Slot : IsReceived(g(i)) /\ IsReceived(g(k)) /\ g(i).id = g(k).id => i = k
  BY DEF EndOK
<1> HIDE DEF h, g, g2
<1>4. /\ Signing(a2) => cs /\ ta = "run"
      /\ cs => Signing(a2) \/ ta # "run"
      /\ Acking(a2) <=> Acking(a)
      /\ Signing(a2) => (AckAhead(a2) <=> Acking(a))
  BY DEF PassSent, SendView, UpdateView
<1>5. \A n : \A del \in Deletion :
         Deleting(a2, n, del) =>
            \/ Deleting(a, n, del)
            \/ \E j \in Slot : /\ IsReceived(g(j)) /\ ~g(j).updsend
                               /\ g(j).id = n /\ g(j).delhtlc = del
  BY <1>2 DEF PassSent, SendView, UpdateView, g
<1>6. \A n : \A del \in Deletion : Deleting(a, n, del) => Deleting(a2, n, del) /\ ta = "run"
  BY DEF PassSent, SendView, NotDeleting
<1>7. ASSUME NEW j \in Slot, IsReceived(g(j)), g(j).delhtlc # "NONE", ~g(j).updsend, ta = "run"
      PROVE  Deleting(a2, g(j).id, g(j).delhtlc)
  <2>1. LN_HTLC_WILL_DELHTLC(g(j)) /\ g(j).delhtlc \in Deletion
    BY <1>1, <1>2, <1>7
  <2>2. Deleting(ms, g(j).id, g(j).delhtlc)
    BY <1>7, <2>1 DEF PassSent, UpdateView, g
  <2> QED BY <1>7, <2>2 DEF PassSent, SendView
\* What the pass says of an HTLC: nothing new, or its deletion.
<1>8. ASSUME NEW j \in Slot, IsReceived(g(j)), g(j).updsend \/ g(j).delhtlc = "NONE"
      PROVE  \A del \in Deletion : Deleting(a2, g(j).id, del) => Deleting(a, g(j).id, del)
  <2>1. "NONE" \notin Deletion
    BY DEF Deletion
  <2> QED BY <1>3, <1>5, <1>8, <2>1
<1>9. ASSUME NEW j \in Slot, IsReceived(g(j))
      PROVE  \A del \in Deletion : Deleting(a2, g(j).id, del) =>
                Deleting(a, g(j).id, del) \/ del = g(j).delhtlc
  BY <1>3, <1>5, <1>9
<1>10. ASSUME NEW n, \A j \in Slot : IsReceived(g(j)) => g(j).id # n, NotDeleting(a, n)
       PROVE  NotDeleting(a2, n)
  BY <1>5, <1>10 DEF NotDeleting
<1>11. PairsMove(O, O, R, R2, a, a2, b, b, ta, tb)
  <2> SUFFICES ASSUME NEW i \in Slot, NEW j \in Slot, IsOffered(h(i)), IsReceived(g(j)),
                      h(i).id = g(j).id, Paired(h(i), g(j), a, b, ta, tb)
               PROVE  Paired(h(i), g2(j), a2, b, ta, tb)
    BY DEF PairsMove, h, g, g2
  <2>1. /\ Ref(h(i)) = Ref(g2(j)) /\ h(i).updsend
        /\ ReceivedSent(g(j), g2(j), cs) /\ (g(j).comsend <=> g(j).revrecv)
        /\ g(j).delhtlc # "NONE" => g(j).delhtlc \in Deletion
    BY <1>1 DEF Paired
  <2>2. CASE Added(h(i), g(j), a, b, ta, tb)
    <3>1. NotDeleting(a2, h(i).id)
      BY <1>8, <2>2 DEF Added, NotDeleting
    <3>2. Added(h(i), g2(j), a2, b, ta, tb)
      BY <1>4, <2>1, <2>2, <3>1 DEF Added, ReceivedSent
    <3> QED BY <2>1, <3>2 DEF Paired
  <2>3. CASE DelDecided(h(i), g(j), a)
    <3>1. CASE ta = "run"
      <4>1. Deleting(a2, h(i).id, g(j).delhtlc)
        BY <1>7, <2>3, <3>1 DEF DelDecided
      <4>2. \A del \in Deletion : Deleting(a2, h(i).id, del) => del = g(j).delhtlc
        BY <1>9, <2>3 DEF DelDecided, NotDeleting
      <4>3. DelSent(h(i), g2(j), a2, b)
        BY <1>4, <2>1, <2>3, <3>1, <4>1, <4>2 DEF DelDecided, DelSent, ReceivedSent
      <4> QED BY <2>1, <4>3 DEF Paired
    <3>2. CASE ta # "run"
      BY <2>1, <2>3, <3>2 DEF DelDecided, DelLost, ReceivedSent, Paired
    <3> QED BY <3>1, <3>2
  <2>4. CASE DelSent(h(i), g(j), a, b)
    <3>1. Deleting(a2, h(i).id, g(j).delhtlc) /\ ta = "run"
      BY <1>6, <2>4 DEF DelSent
    <3>2. \A del \in Deletion : Deleting(a2, h(i).id, del) => del = g(j).delhtlc
      BY <1>8, <2>4 DEF DelSent
    <3>3. DelSent(h(i), g2(j), a2, b)
      BY <1>4, <2>1, <2>4, <3>1, <3>2 DEF DelSent, ReceivedSent, Deletion
    <3> QED BY <2>1, <3>3 DEF Paired
  <2>5. CASE DelKnown(h(i), g(j), a, b, ta, tb)
    <3>1. NotDeleting(a2, h(i).id)
      BY <1>8, <2>5 DEF DelKnown, NotDeleting
    <3>2. DelKnown(h(i), g2(j), a2, b, ta, tb)
      BY <1>4, <2>1, <2>5, <3>1 DEF DelKnown, ReceivedSent
    <3> QED BY <2>1, <3>2 DEF Paired
  <2>6. CASE DelLost(h(i), g(j), a, b, ta)
    BY <2>1, <2>6 DEF DelLost, Paired, ReceivedSent
  <2>7. CASE Doomed(h(i), g(j), a)
    <3>1. \A del \in Deletion : Deleting(a2, h(i).id, del) => del = "FAIL"
      BY <1>9, <2>7 DEF Doomed
    <3> QED BY <2>1, <2>7, <3>1 DEF Doomed, Paired, ReceivedSent
  <2> QED BY <2>2, <2>3, <2>4, <2>5, <2>6, <2>7 DEF Paired
<1>12. OffersMove(O, O, R, R2, a, a2, b, b, tb)
  <2> SUFFICES ASSUME NEW i \in Slot, IsOffered(h(i)),
                      \A j \in Slot : IsReceived(g(j)) => g(j).id # h(i).id
               PROVE  /\ AddSent(h(i), a, b) => AddSent(h(i), a2, b)
                      /\ ReceiverGone(h(i), R, a, b, tb) => ReceiverGone(h(i), R2, a2, b, tb)
    BY DEF OffersMove, Announced, h, g
  <2>1. \A del \in Deletion : Deleting(a2, h(i).id, del) => Deleting(a, h(i).id, del)
    BY <1>5
  <2>2. NotDeleting(a, h(i).id) => NotDeleting(a2, h(i).id)
    BY <2>1 DEF NotDeleting
  <2>3. AddSent(h(i), a, b) => AddSent(h(i), a2, b)
    BY <1>4, <2>2 DEF AddSent
  <2>4. ReceiverGone(h(i), R, a, b, tb) => ReceiverGone(h(i), R2, a2, b, tb)
    BY <1>4, <2>1, <2>2 DEF ReceiverGone
  <2> QED BY <2>3, <2>4
<1>13. ReceivedMove(O, O, R, R2, a, a2, b, b, tb)
  <2> SUFFICES ASSUME NEW j \in Slot, IsReceived(g(j)), OffererGone(g(j), O, a, b, tb)
               PROVE  OffererGone(g2(j), O, a2, b, tb)
    BY DEF ReceivedMove, g, g2
  <2>1. /\ Ref(g2(j)) = Ref(g(j)) /\ g2(j).id = g(j).id
        /\ ReceivedSent(g(j), g2(j), cs)
    BY <1>1
  <2>2. g(j).updsend => (NotDeleting(a, g(j).id) => NotDeleting(a2, g(j).id))
    BY <1>8 DEF NotDeleting
  <2>3. g(j).delhtlc = "FAIL" /\ (\A del \in Deletion : Deleting(a, g(j).id, del) => del = "FAIL")
          => \A del \in Deletion : Deleting(a2, g(j).id, del) => del = "FAIL"
    BY <1>9
  <2> QED BY <2>1, <2>2, <2>3 DEF OffererGone, ReceivedSent
<1>14. UpdatesMove(O, O, R, a, a2, b, b)
  BY <1>5 DEF UpdatesMove, g
<1>15. SameSlots(O, O)
  BY DEF SameSlots
<1> QED BY <1>11, <1>12, <1>13, <1>14, <1>15, SlotsMove

----------------------------------------------------------------------------
(* recv_commitment_signed: the exchange advances on one side, and a        *)
(* revoke_and_ack goes back.                                               *)

\* r is the stream q to the peer with a revoke_and_ack behind it.
AckSent(q, r, t) ==
    /\ t = "run" =>
          /\ \A n : Adding(r, n) <=> Adding(q, n)
          /\ \A x : AddingRef(r, x) <=> AddingRef(q, x)
          /\ \A n : \A del \in Deletion : Deleting(r, n, del) <=> Deleting(q, n, del)
          /\ Signing(r) <=> Signing(q)
          /\ Acking(r) /\ (AckAhead(r) <=> ~Signing(q))
    /\ t # "run" => r = q

\* What an accepted commitment_signed does to an offered HTLC.
OfferedAccepted(h, h2) ==
    /\ h2.delhtlc = h.delhtlc /\ h2.updsend = h.updsend
    /\ h2.comsend = h.comsend /\ h2.revrecv = h.revrecv
    /\ h2.comrecv <=> \/ h.comrecv \/ h.delhtlc # "NONE"
                      \/ h.updsend /\ h.comsend /\ h.revrecv
    /\ h2.revsend <=> h2.comrecv

\* The offerer accepts a commitment_signed and acknowledges it.
LEMMA OffererAccepts ==
    ASSUME NEW O, NEW O2, NEW R, NEW a, NEW a2, NEW b, NEW b2, NEW ta, NEW tb, NEW m,
           ta = "run",
           SameSlots(O, O2), O2.htlc_id_num = O.htlc_id_num, O2.paid_out = O.paid_out,
           EndOK(O),
           \A i \in Slot : O.cnl_add_htlc[i].updsend = O2.cnl_add_htlc[i].updsend,
           \A i \in Slot : IsOffered(O.cnl_add_htlc[i]) =>
              OfferedAccepted(O.cnl_add_htlc[i], O2.cnl_add_htlc[i]),
           m.type = "commitment_signed", ReadView(a, a2, m), AckSent(b, b2, tb),
           ~Acking(b),
           Pairing(O, R, a, b, ta, tb)
    PROVE  Pairing(O2, R, a2, b2, ta, tb)
<1> DEFINE h(i) == O.cnl_add_htlc[i]
           h2(i) == O2.cnl_add_htlc[i]
           g(j) == R.cnl_add_htlc[j]
<1>1. \A i \in Slot : IsOffered(h(i)) =>
         /\ h2(i).id = h(i).id /\ Ref(h2(i)) = Ref(h(i))
         /\ OfferedAccepted(h(i), h2(i))
  BY DEF SameSlots, Ref
<1>2. /\ Signing(a) /\ ~AckAhead(a) /\ ~Signing(a2) /\ (Acking(a2) <=> Acking(a))
      /\ \A n : NotDeleting(a, n) /\ NotDeleting(a2, n)
      /\ \A n : \A del \in Deletion : ~Deleting(a2, n, del) /\ ~Deleting(a, n, del)
  BY DEF ReadView, NotDeleting
<1>3. /\ Signing(b2) <=> Signing(b)
      /\ Acking(b2) \/ tb # "run"
      /\ \A n : Adding(b2, n) <=> Adding(b, n)
      /\ \A x : AddingRef(b2, x) <=> AddingRef(b, x)
  BY DEF AckSent
<1> HIDE DEF h, h2, g
<1>4. PairsMove(O, O2, R, R, a, a2, b, b2, ta, tb)
  <2> SUFFICES ASSUME NEW i \in Slot, NEW j \in Slot, IsOffered(h(i)), IsReceived(g(j)),
                      h(i).id = g(j).id, Paired(h(i), g(j), a, b, ta, tb)
               PROVE  Paired(h2(i), g(j), a2, b2, ta, tb)
    BY DEF PairsMove, h, g, h2
  <2>1. /\ Ref(h2(i)) = Ref(g(j)) /\ h2(i).updsend /\ h(i).updsend
        /\ OfferedAccepted(h(i), h2(i))
    BY <1>1 DEF Paired, OfferedAccepted
  <2>2. CASE Added(h(i), g(j), a, b, ta, tb)
    <3>1. h(i).revrecv <=> g(j).comsend
      BY <1>2, <2>2 DEF Added
    <3>2. Added(h2(i), g(j), a2, b2, ta, tb)
      BY <1>2, <1>3, <2>1, <2>2, <3>1 DEF Added, OfferedAccepted
    <3> QED BY <2>1, <3>2 DEF Paired
  <2>3. CASE DelDecided(h(i), g(j), a)
    BY <1>2, <2>1, <2>3 DEF DelDecided, Paired, OfferedAccepted, Exchanged
  <2>4. CASE DelSent(h(i), g(j), a, b)
    BY <1>2, <2>4 DEF DelSent
  <2>5. CASE DelKnown(h(i), g(j), a, b, ta, tb)
    <3>1. DelKnown(h2(i), g(j), a2, b2, ta, tb)
      BY <1>2, <1>3, <2>1, <2>5 DEF DelKnown, OfferedAccepted
    <3> QED BY <2>1, <3>1 DEF Paired
  <2>6. CASE DelLost(h(i), g(j), a, b, ta)
    BY <2>6 DEF DelLost
  <2>7. CASE Doomed(h(i), g(j), a)
    BY <1>2, <2>1, <2>7 DEF Doomed, Paired, OfferedAccepted
  <2> QED BY <2>2, <2>3, <2>4, <2>5, <2>6, <2>7 DEF Paired
<1>5. OffersMove(O, O2, R, R, a, a2, b, b2, tb)
  <2> SUFFICES ASSUME NEW i \in Slot, IsOffered(h(i))
               PROVE  /\ AddSent(h(i), a, b) => AddSent(h2(i), a2, b2)
                      /\ ReceiverGone(h(i), R, a, b, tb) => ReceiverGone(h2(i), R, a2, b2, tb)
    BY DEF OffersMove, Announced, h, h2
  <2>1. /\ Ref(h2(i)) = Ref(h(i)) /\ h2(i).id = h(i).id
        /\ OfferedAccepted(h(i), h2(i))
    BY <1>1
  <2>2. AddSent(h(i), a, b) => AddSent(h2(i), a2, b2)
    BY <1>2, <1>3, <2>1 DEF AddSent, OfferedAccepted
  <2>3. ReceiverGone(h(i), R, a, b, tb) => ReceiverGone(h2(i), R, a2, b2, tb)
    BY <1>2, <2>1 DEF ReceiverGone, OfferedAccepted
  <2> QED BY <2>2, <2>3
<1>6. ReceivedMove(O, O2, R, R, a, a2, b, b2, tb)
  BY <1>2, <1>3 DEF ReceivedMove, OffererGone
<1>7. UpdatesMove(O, O2, R, a, a2, b, b2)
  BY <1>2, <1>3 DEF UpdatesMove
<1>8. SameSlots(R, R)
  BY DEF SameSlots
<1> QED BY <1>4, <1>5, <1>6, <1>7, <1>8, SlotsMove

\* What an accepted commitment_signed does to a received HTLC.
ReceivedAccepted(g, g2) ==
    /\ g2.delhtlc = g.delhtlc /\ g2.updsend = g.updsend
    /\ g2.comsend = g.comsend /\ g2.revrecv = g.revrecv
    /\ g2.comrecv /\ g2.revsend

\* The receiver accepts a commitment_signed and acknowledges it.
LEMMA ReceiverAccepts ==
    ASSUME NEW O, NEW R, NEW R2, NEW a, NEW a2, NEW b, NEW b2, NEW ta, NEW tb, NEW m,
           tb = "run",
           SameSlots(R, R2), R2.paid_in = R.paid_in, EndOK(O),
           \A j \in Slot : IsReceived(R.cnl_add_htlc[j]) =>
              ReceivedAccepted(R.cnl_add_htlc[j], R2.cnl_add_htlc[j]),
           m.type = "commitment_signed", ReadView(b, b2, m), AckSent(a, a2, ta),
           ~Acking(a),
           Pairing(O, R, a, b, ta, tb)
    PROVE  Pairing(O, R2, a2, b2, ta, tb)
<1> DEFINE h(i) == O.cnl_add_htlc[i]
           g(j) == R.cnl_add_htlc[j]
           g2(j) == R2.cnl_add_htlc[j]
<1>1. \A j \in Slot : IsReceived(g(j)) =>
         /\ g2(j).id = g(j).id /\ Ref(g2(j)) = Ref(g(j))
         /\ ReceivedAccepted(g(j), g2(j))
  BY DEF SameSlots, Ref
<1>2. /\ Signing(b) /\ ~Signing(b2) /\ (Acking(b2) <=> Acking(b))
      /\ \A n : ~Adding(b, n) /\ ~Adding(b2, n)
  BY DEF ReadView
<1>3. /\ Signing(a2) <=> Signing(a)
      /\ Acking(a2) \/ ta # "run"
      /\ Signing(a) => (AckAhead(a2) => AckAhead(a))
      /\ \A n : \A del \in Deletion : Deleting(a2, n, del) <=> Deleting(a, n, del)
      /\ \A n : NotDeleting(a2, n) <=> NotDeleting(a, n)
  BY DEF AckSent, NotDeleting
<1> HIDE DEF h, g, g2
<1>4. PairsMove(O, O, R, R2, a, a2, b, b2, ta, tb)
  <2> SUFFICES ASSUME NEW i \in Slot, NEW j \in Slot, IsOffered(h(i)), IsReceived(g(j)),
                      h(i).id = g(j).id, Paired(h(i), g(j), a, b, ta, tb)
               PROVE  Paired(h(i), g2(j), a2, b2, ta, tb)
    BY DEF PairsMove, h, g, g2
  <2>1. /\ Ref(h(i)) = Ref(g2(j)) /\ h(i).updsend
        /\ ReceivedAccepted(g(j), g2(j))
    BY <1>1 DEF Paired
  <2>2. CASE Added(h(i), g(j), a, b, ta, tb)
    <3>1. Added(h(i), g2(j), a2, b2, ta, tb)
      BY <1>2, <1>3, <2>1, <2>2 DEF Added, ReceivedAccepted
    <3> QED BY <2>1, <3>1 DEF Paired
  <2>3. CASE DelDecided(h(i), g(j), a)
    BY <1>3, <2>1, <2>3 DEF DelDecided, Paired, ReceivedAccepted
  <2>4. CASE DelSent(h(i), g(j), a, b)
    BY <1>2, <1>3, <2>1, <2>4 DEF DelSent, Paired, ReceivedAccepted
  <2>5. CASE DelKnown(h(i), g(j), a, b, ta, tb)
    BY <1>2, <1>3, <2>1, <2>5 DEF DelKnown, Paired, ReceivedAccepted
  <2>6. CASE DelLost(h(i), g(j), a, b, ta)
    BY <1>2, <2>1, <2>6 DEF DelLost, Paired, ReceivedAccepted
  <2>7. CASE Doomed(h(i), g(j), a)
    BY <1>3, <2>1, <2>7 DEF Doomed, Paired, ReceivedAccepted
  <2> QED BY <2>2, <2>3, <2>4, <2>5, <2>6, <2>7 DEF Paired
<1>5. OffersMove(O, O, R, R2, a, a2, b, b2, tb)
  <2> SUFFICES ASSUME NEW i \in Slot, IsOffered(h(i))
               PROVE  /\ AddSent(h(i), a, b) => AddSent(h(i), a2, b2)
                      /\ ReceiverGone(h(i), R, a, b, tb) => ReceiverGone(h(i), R2, a2, b2, tb)
    BY DEF OffersMove, Announced, h
  <2>1. ~AddSent(h(i), a, b)
    BY <1>2 DEF AddSent, AddingRef, Adding, Ref
  <2>2. ReceiverGone(h(i), R, a, b, tb) => ReceiverGone(h(i), R2, a2, b2, tb)
    BY <1>3 DEF ReceiverGone
  <2> QED BY <2>1, <2>2
<1>6. ReceivedMove(O, O, R, R2, a, a2, b, b2, tb)
  <2> SUFFICES ASSUME NEW j \in Slot, IsReceived(g(j)), OffererGone(g(j), O, a, b, tb)
               PROVE  OffererGone(g2(j), O, a2, b2, tb)
    BY DEF ReceivedMove, g, g2
  <2> QED BY <1>1, <1>2, <1>3 DEF OffererGone, ReceivedAccepted
<1>7. UpdatesMove(O, O, R, a, a2, b, b2)
  BY <1>2, <1>3 DEF UpdatesMove
<1>8. SameSlots(O, O)
  BY DEF SameSlots
<1> QED BY <1>4, <1>5, <1>6, <1>7, <1>8, SlotsMove

----------------------------------------------------------------------------
(* recv_revoke_and_ack.                                                    *)

\* What a revoke_and_ack does to an offered HTLC.
OfferedAcked(h, h2) ==
    /\ h2.delhtlc = h.delhtlc /\ h2.updsend = h.updsend
    /\ h2.comsend = h.comsend /\ h2.comrecv = h.comrecv /\ h2.revsend = h.revsend
    /\ h2.revrecv <=> h.revrecv \/ h.updsend

\* The offerer reads a revoke_and_ack.
LEMMA OffererAcked ==
    ASSUME NEW O, NEW O2, NEW R, NEW a, NEW a2, NEW b, NEW ta, NEW tb, NEW m,
           SameSlots(O, O2), O2.htlc_id_num = O.htlc_id_num, O2.paid_out = O.paid_out,
           EndOK(O),
           \A i \in Slot : O.cnl_add_htlc[i].updsend = O2.cnl_add_htlc[i].updsend,
           \A i \in Slot : IsOffered(O.cnl_add_htlc[i]) =>
              OfferedAcked(O.cnl_add_htlc[i], O2.cnl_add_htlc[i]),
           m.type = "revoke_and_ack", ReadView(a, a2, m),
           Pairing(O, R, a, b, ta, tb)
    PROVE  Pairing(O2, R, a2, b, ta, tb)
<1> DEFINE h(i) == O.cnl_add_htlc[i]
           h2(i) == O2.cnl_add_htlc[i]
           g(j) == R.cnl_add_htlc[j]
<1>1. \A i \in Slot : IsOffered(h(i)) =>
         /\ h2(i).id = h(i).id /\ Ref(h2(i)) = Ref(h(i))
         /\ OfferedAcked(h(i), h2(i))
  BY DEF SameSlots, Ref
<1>2. m.type \notin UpdateType
  BY DEF UpdateType
<1>3. /\ Acking(a) /\ AckAhead(a) /\ ~AckAhead(a2) /\ ~Acking(a2)
      /\ Signing(a2) <=> Signing(a)
      /\ \A n : \A del \in Deletion : Deleting(a2, n, del) <=> Deleting(a, n, del)
      /\ \A n : NotDeleting(a2, n) <=> NotDeleting(a, n)
  BY <1>2 DEF ReadView, NotDeleting
<1> HIDE DEF h, h2, g
<1>4. PairsMove(O, O2, R, R, a, a2, b, b, ta, tb)
  <2> SUFFICES ASSUME NEW i \in Slot, NEW j \in Slot, IsOffered(h(i)), IsReceived(g(j)),
                      h(i).id = g(j).id, Paired(h(i), g(j), a, b, ta, tb)
               PROVE  Paired(h2(i), g(j), a2, b, ta, tb)
    BY DEF PairsMove, h, g, h2
  <2>1. /\ Ref(h2(i)) = Ref(g(j)) /\ h2(i).updsend /\ h(i).updsend /\ h2(i).id = h(i).id
        /\ OfferedAcked(h(i), h2(i))
    BY <1>1 DEF Paired, OfferedAcked
  <2>2. CASE Added(h(i), g(j), a, b, ta, tb)
    <3>1. Added(h2(i), g(j), a2, b, ta, tb)
      BY <1>3, <2>1, <2>2 DEF Added, OfferedAcked
    <3> QED BY <2>1, <3>1 DEF Paired
  <2>3. CASE DelDecided(h(i), g(j), a)
    BY <1>3, <2>1, <2>3 DEF DelDecided, Paired, OfferedAcked, Exchanged
  <2>4. CASE DelSent(h(i), g(j), a, b)
    BY <1>3, <2>1, <2>4 DEF DelSent, Paired, OfferedAcked, Exchanged
  <2>5. CASE DelKnown(h(i), g(j), a, b, ta, tb)
    BY <1>3, <2>1, <2>5 DEF DelKnown, Paired, OfferedAcked
  <2>6. CASE DelLost(h(i), g(j), a, b, ta)
    BY <2>1, <2>6 DEF DelLost, Paired, OfferedAcked
  <2>7. CASE Doomed(h(i), g(j), a)
    BY <1>3, <2>1, <2>7 DEF Doomed, Paired, OfferedAcked
  <2> QED BY <2>2, <2>3, <2>4, <2>5, <2>6, <2>7 DEF Paired
<1>5. OffersMove(O, O2, R, R, a, a2, b, b, tb)
  <2> SUFFICES ASSUME NEW i \in Slot, IsOffered(h(i))
               PROVE  /\ AddSent(h(i), a, b) => AddSent(h2(i), a2, b)
                      /\ ReceiverGone(h(i), R, a, b, tb) => ReceiverGone(h2(i), R, a2, b, tb)
    BY DEF OffersMove, Announced, h, h2
  <2>1. /\ Ref(h2(i)) = Ref(h(i)) /\ h2(i).id = h(i).id
        /\ OfferedAcked(h(i), h2(i))
    BY <1>1
  <2>2. ~AddSent(h(i), a, b)
    BY <1>3 DEF AddSent
  <2>3. ReceiverGone(h(i), R, a, b, tb) => ReceiverGone(h2(i), R, a2, b, tb)
    BY <1>3, <2>1 DEF ReceiverGone, OfferedAcked
  <2> QED BY <2>2, <2>3
<1>6. ReceivedMove(O, O2, R, R, a, a2, b, b, tb)
  BY <1>3 DEF ReceivedMove, OffererGone
<1>7. UpdatesMove(O, O2, R, a, a2, b, b)
  BY <1>3 DEF UpdatesMove
<1>8. SameSlots(R, R)
  BY DEF SameSlots
<1> QED BY <1>4, <1>5, <1>6, <1>7, <1>8, SlotsMove

\* What a revoke_and_ack does to a received HTLC.
ReceivedAcked(g, g2) ==
    /\ g2.delhtlc = g.delhtlc /\ g2.updsend = g.updsend
    /\ g2.comsend = g.comsend /\ g2.comrecv = g.comrecv /\ g2.revsend = g.revsend
    /\ g2.revrecv <=> g.revrecv \/ g.updsend \/ g.comrecv

\* The receiver reads a revoke_and_ack.
LEMMA ReceiverAcked ==
    ASSUME NEW O, NEW R, NEW R2, NEW a, NEW b, NEW b2, NEW ta, NEW tb, NEW m,
           SameSlots(R, R2), R2.paid_in = R.paid_in, EndOK(O),
           \A j \in Slot : IsReceived(R.cnl_add_htlc[j]) =>
              ReceivedAcked(R.cnl_add_htlc[j], R2.cnl_add_htlc[j]),
           m.type = "revoke_and_ack", ReadView(b, b2, m),
           Pairing(O, R, a, b, ta, tb)
    PROVE  Pairing(O, R2, a, b2, ta, tb)
<1> DEFINE h(i) == O.cnl_add_htlc[i]
           g(j) == R.cnl_add_htlc[j]
           g2(j) == R2.cnl_add_htlc[j]
<1>1. \A j \in Slot : IsReceived(g(j)) =>
         /\ g2(j).id = g(j).id /\ Ref(g2(j)) = Ref(g(j))
         /\ ReceivedAcked(g(j), g2(j))
  BY DEF SameSlots, Ref
<1>2. /\ Acking(b) /\ ~Acking(b2) /\ (Signing(b2) <=> Signing(b))
      /\ \A n : Adding(b2, n) <=> Adding(b, n)
      /\ \A x : AddingRef(b2, x) <=> AddingRef(b, x)
  BY DEF ReadView
<1> HIDE DEF h, g, g2
<1>3. PairsMove(O, O, R, R2, a, a, b, b2, ta, tb)
  <2> SUFFICES ASSUME NEW i \in Slot, NEW j \in Slot, IsOffered(h(i)), IsReceived(g(j)),
                      h(i).id = g(j).id, Paired(h(i), g(j), a, b, ta, tb)
               PROVE  Paired(h(i), g2(j), a, b2, ta, tb)
    BY DEF PairsMove, h, g, g2
  <2>1. /\ Ref(h(i)) = Ref(g2(j)) /\ h(i).updsend
        /\ ReceivedAcked(g(j), g2(j))
    BY <1>1 DEF Paired
  <2>2. CASE Added(h(i), g(j), a, b, ta, tb)
    <3>1. Added(h(i), g2(j), a, b2, ta, tb)
      BY <1>2, <2>1, <2>2 DEF Added, ReceivedAcked
    <3> QED BY <2>1, <3>1 DEF Paired
  <2>3. CASE DelDecided(h(i), g(j), a)
    BY <2>1, <2>3 DEF DelDecided, Paired, ReceivedAcked
  <2>4. CASE DelSent(h(i), g(j), a, b)
    BY <1>2, <2>4 DEF DelSent
  <2>5. CASE DelKnown(h(i), g(j), a, b, ta, tb)
    BY <1>2, <2>1, <2>5 DEF DelKnown, Paired, ReceivedAcked
  <2>6. CASE DelLost(h(i), g(j), a, b, ta)
    BY <1>2, <2>6 DEF DelLost
  <2>7. CASE Doomed(h(i), g(j), a)
    BY <2>1, <2>7 DEF Doomed, Paired, ReceivedAcked
  <2> QED BY <2>2, <2>3, <2>4, <2>5, <2>6, <2>7 DEF Paired
<1>4. OffersMove(O, O, R, R2, a, a, b, b2, tb)
  <2> SUFFICES ASSUME NEW i \in Slot, IsOffered(h(i))
               PROVE  /\ AddSent(h(i), a, b) => AddSent(h(i), a, b2)
                      /\ ReceiverGone(h(i), R, a, b, tb) => ReceiverGone(h(i), R2, a, b2, tb)
    BY DEF OffersMove, Announced, h
  <2>1. AddSent(h(i), a, b) => AddSent(h(i), a, b2)
    BY <1>2 DEF AddSent
  <2>2. ReceiverGone(h(i), R, a, b, tb) => ReceiverGone(h(i), R2, a, b2, tb)
    BY DEF ReceiverGone
  <2> QED BY <2>1, <2>2
<1>5. ReceivedMove(O, O, R, R2, a, a, b, b2, tb)
  <2> SUFFICES ASSUME NEW j \in Slot, IsReceived(g(j)), OffererGone(g(j), O, a, b, tb)
               PROVE  OffererGone(g2(j), O, a, b2, tb)
    BY DEF ReceivedMove, g, g2
  <2> QED BY <1>1 DEF OffererGone, ReceivedAcked
<1>6. UpdatesMove(O, O, R, a, a, b, b2)
  BY <1>2 DEF UpdatesMove
<1>7. SameSlots(O, O)
  BY DEF SameSlots
<1> QED BY <1>3, <1>4, <1>5, <1>6, <1>7, SlotsMove

----------------------------------------------------------------------------
(* A deletion reaches the offerer.                                         *)

\* What a deletion does to an offered HTLC.
DelArrived(h, h2, n, del) ==
    IF h.id = n /\ Exchanged(h)
    THEN /\ h2.id = h.id /\ h2.amount_msat = h.amount_msat /\ h2.addhtlc = h.addhtlc
         /\ h2.delhtlc = del /\ h2.updsend = h.updsend
         /\ ~h2.comsend /\ ~h2.revrecv /\ ~h2.comrecv /\ ~h2.revsend
    ELSE SameHtlc(h, h2)

\* The offerer reads a deletion.
LEMMA OffererDeletes ==
    ASSUME NEW O, NEW O2, NEW R, NEW a, NEW a2, NEW b, NEW ta, NEW tb, NEW m,
           NEW del \in Deletion, ta = "run",
           O2.htlc_id_num = O.htlc_id_num, O2.paid_out = O.paid_out, EndOK(O),
           SameSlots(O, O2),
           \A i \in Slot : O.cnl_add_htlc[i].updsend = O2.cnl_add_htlc[i].updsend,
           \A i \in Slot : IsOffered(O.cnl_add_htlc[i]) =>
              DelArrived(O.cnl_add_htlc[i], O2.cnl_add_htlc[i], m.id, del),
           m.type = DelType(del), ReadView(a, a2, m),
           Pairing(O, R, a, b, ta, tb)
    PROVE  Pairing(O2, R, a2, b, ta, tb)
<1> DEFINE h(i) == O.cnl_add_htlc[i]
           h2(i) == O2.cnl_add_htlc[i]
           g(j) == R.cnl_add_htlc[j]
<1>1. \A i \in Slot : IsOffered(h(i)) =>
         /\ h2(i).id = h(i).id /\ Ref(h2(i)) = Ref(h(i))
         /\ DelArrived(h(i), h2(i), m.id, del)
  BY DEF SameSlots, Ref
<1>2. m.type \in UpdateType /\ m.type \notin Exchange
      /\ m.type # "revoke_and_ack" /\ m.type # "commitment_signed"
  BY DelTypes DEF Exchange
<1>3. /\ Acking(a2) <=> Acking(a)
      /\ Signing(a2) <=> Signing(a)
      /\ AckAhead(a2) <=> AckAhead(a)
  BY <1>2 DEF ReadView
<1>4. /\ Deleting(a, m.id, del)
      /\ \A d \in Deletion : Deleting(a, m.id, d) => d = del
      /\ ~NotDeleting(a, m.id) /\ NotDeleting(a2, m.id)
  BY <1>2 DEF ReadView, NotDeleting
<1>5. \A n : /\ n # m.id => \A d \in Deletion : Deleting(a2, n, d) <=> Deleting(a, n, d)
             /\ \A d \in Deletion : Deleting(a2, n, d) => Deleting(a, n, d)
             /\ NotDeleting(a, n) => NotDeleting(a2, n)
  BY <1>2 DEF ReadView, NotDeleting
<1>6. \A q : SameToReceiver(q, q)
  BY DEF SameToReceiver
<1>7. \A f : SameHtlc(f, f)
  BY DEF SameHtlc
<1>8. \A f : SameHtlc(h(f), h2(f)) => SameHtlc(h(f), h2(f)) /\ (Exchanged(h2(f)) <=> Exchanged(h(f)))
  BY DEF SameHtlc, Exchanged
<1> HIDE DEF h, h2, g
<1>9. PairsMove(O, O2, R, R, a, a2, b, b, ta, tb)
  <2> SUFFICES ASSUME NEW i \in Slot, NEW j \in Slot, IsOffered(h(i)), IsReceived(g(j)),
                      h(i).id = g(j).id, Paired(h(i), g(j), a, b, ta, tb)
               PROVE  Paired(h2(i), g(j), a2, b, ta, tb)
    BY DEF PairsMove, h, g, h2
  <2>1. /\ Ref(h2(i)) = Ref(g(j)) /\ h(i).updsend /\ h2(i).id = h(i).id
        /\ DelArrived(h(i), h2(i), m.id, del)
    BY <1>1 DEF Paired
  <2>2. h2(i).updsend
    BY <2>1 DEF DelArrived, SameHtlc
  <2>3. CASE h(i).id = m.id
    <3>1. DelSent(h(i), g(j), a, b) \/ Doomed(h(i), g(j), a)
      BY <1>4, <2>3 DEF Paired, Added, DelDecided, DelKnown, DelLost
    <3>2. CASE DelSent(h(i), g(j), a, b)
      <4>1. /\ h2(i).delhtlc = del /\ ~h2(i).comrecv /\ g(j).delhtlc = del
        BY <1>4, <2>1, <2>3, <3>2 DEF DelSent, DelArrived
      <4>2. DelKnown(h2(i), g(j), a2, b, ta, tb)
        BY <1>3, <1>4, <2>1, <2>3, <3>2, <4>1 DEF DelSent, DelKnown, Deletion
      <4> QED BY <2>1, <2>2, <4>2 DEF Paired
    <3>3. CASE Doomed(h(i), g(j), a)
      <4>1. del = "FAIL"
        BY <1>4, <2>3, <3>3 DEF Doomed
      <4>2. h2(i).delhtlc \in {"NONE", "FAIL"}
        BY <2>1, <3>3, <4>1 DEF Doomed, DelArrived, SameHtlc
      <4>3. Doomed(h2(i), g(j), a2)
        BY <1>5, <2>1, <3>3, <4>2 DEF Doomed
      <4> QED BY <2>1, <2>2, <4>3 DEF Paired
    <3> QED BY <3>1, <3>2, <3>3
  <2>4. CASE h(i).id # m.id
    <3>1. SameHtlc(h(i), h2(i))
      BY <2>1, <2>4 DEF DelArrived
    <3>2. /\ \A d \in Deletion : Deleting(a2, h(i).id, d) <=> Deleting(a, h(i).id, d)
          /\ NotDeleting(a, h(i).id) => NotDeleting(a2, h(i).id)
      BY <1>5, <2>4
    <3>3. CASE Added(h(i), g(j), a, b, ta, tb)
      BY <1>3, <2>1, <2>2, <3>1, <3>2, <3>3 DEF Added, Paired, SameHtlc
    <3>4. CASE DelDecided(h(i), g(j), a)
      BY <2>1, <2>2, <3>1, <3>2, <3>4 DEF DelDecided, Paired, SameHtlc, Exchanged
    <3>5. CASE DelSent(h(i), g(j), a, b)
      BY <1>3, <2>1, <2>2, <3>1, <3>2, <3>5 DEF DelSent, Paired, SameHtlc, Exchanged
    <3>6. CASE DelKnown(h(i), g(j), a, b, ta, tb)
      BY <1>3, <2>1, <2>2, <3>1, <3>2, <3>6 DEF DelKnown, Paired, SameHtlc
    <3>7. CASE DelLost(h(i), g(j), a, b, ta)
      BY <3>7 DEF DelLost
    <3>8. CASE Doomed(h(i), g(j), a)
      BY <2>1, <2>2, <3>1, <3>2, <3>8 DEF Doomed, Paired, SameHtlc
    <3> QED BY <3>3, <3>4, <3>5, <3>6, <3>7, <3>8 DEF Paired
  <2> QED BY <2>3, <2>4
<1>10. OffersMove(O, O2, R, R, a, a2, b, b, tb)
  <2> SUFFICES ASSUME NEW i \in Slot, IsOffered(h(i))
               PROVE  /\ AddSent(h(i), a, b) => AddSent(h2(i), a2, b)
                      /\ ReceiverGone(h(i), R, a, b, tb) => ReceiverGone(h2(i), R, a2, b, tb)
    BY DEF OffersMove, Announced, h, h2
  <2>1. /\ Ref(h2(i)) = Ref(h(i)) /\ h2(i).id = h(i).id
        /\ DelArrived(h(i), h2(i), m.id, del)
    BY <1>1
  <2>2. NotDeleting(a, h(i).id) => SameHtlc(h(i), h2(i)) /\ NotDeleting(a2, h(i).id)
    BY <1>4, <1>5, <2>1 DEF DelArrived
  <2>3. AddSent(h(i), a, b) => AddSent(h2(i), a2, b)
    BY <1>3, <2>1, <2>2 DEF AddSent, SameHtlc
  <2>4. ASSUME ReceiverGone(h(i), R, a, b, tb) PROVE ReceiverGone(h2(i), R, a2, b, tb)
    <3>1. CASE NotDeleting(a, h(i).id)
      <4>1. /\ SameHtlc(h(i), h2(i)) /\ NotDeleting(a2, h2(i).id)
            /\ \A d \in Deletion : Deleting(a2, h2(i).id, d) => Deleting(a, h(i).id, d)
        BY <1>5, <2>1, <2>2, <3>1
      <4> QED BY <1>3, <2>1, <2>4, <4>1 DEF ReceiverGone, SameHtlc
    <3>2. CASE ~NotDeleting(a, h(i).id)
      <4>1. /\ Doomable /\ h(i).delhtlc \in {"NONE", "FAIL"}
            /\ Ref(h(i)) \notin R.paid_in
            /\ \A d \in Deletion : Deleting(a, h(i).id, d) => d = "FAIL"
        BY <2>4, <3>2 DEF ReceiverGone
      <4>2. h(i).id = m.id => del = "FAIL"
        BY <1>4, <4>1
      <4>3. h2(i).delhtlc \in {"NONE", "FAIL"}
        BY <2>1, <4>1, <4>2 DEF DelArrived, SameHtlc
      <4> QED BY <1>5, <2>1, <4>1, <4>3 DEF ReceiverGone
    <3> QED BY <3>1, <3>2
  <2> QED BY <2>3, <2>4
<1>11. ReceivedMove(O, O2, R, R, a, a2, b, b, tb)
  BY <1>5 DEF ReceivedMove, OffererGone
<1>12. UpdatesMove(O, O2, R, a, a2, b, b)
  BY <1>5 DEF UpdatesMove
<1>13. SameSlots(R, R)
  BY DEF SameSlots
<1> QED BY <1>9, <1>10, <1>11, <1>12, <1>13, SlotsMove

----------------------------------------------------------------------------
(* The receiver takes a new HTLC into the free slot k.                     *)

\* The receiver has put a new HTLC in slot k.
ReceivedAdded(R, R2, m, k) ==
    /\ \A j \in Slot \ {k} : SameHtlc(R.cnl_add_htlc[j], R2.cnl_add_htlc[j])
    /\ ~IsReceived(R.cnl_add_htlc[k])
    /\ LET g2 == R2.cnl_add_htlc[k]
       IN  /\ IsReceived(g2) /\ g2.id = m.id /\ g2.amount_msat = m.amount_msat
           /\ ~g2.updsend /\ ~g2.comsend /\ ~g2.revrecv /\ ~g2.comrecv
           /\ g2.delhtlc = "NONE" \/ (Doomable /\ g2.delhtlc = "FAIL")
    /\ R2.paid_in = R.paid_in

\* The receiver reads an update_add_htlc.
LEMMA ReceiverAdds ==
    ASSUME NEW O, NEW R, NEW R2, NEW a, NEW b, NEW b2, NEW ta, NEW tb, NEW m,
           NEW k \in Slot, EndOK(O), ReceivedAdded(R, R2, m, k),
           m.type = "update_add_htlc", ReadView(b, b2, m),
           Pairing(O, R, a, b, ta, tb)
    PROVE  Pairing(O, R2, a, b2, ta, tb)
<1> DEFINE h(i) == O.cnl_add_htlc[i]
           g(j) == R.cnl_add_htlc[j]
           g2(j) == R2.cnl_add_htlc[j]
           n == m.id
<1>1. \A j \in Slot \ {k} :
         /\ SameHtlc(g(j), g2(j)) /\ (IsReceived(g(j)) <=> IsReceived(g2(j)))
         /\ g2(j).id = g(j).id /\ Ref(g2(j)) = Ref(g(j))
  BY DEF ReceivedAdded, SameHtlc, IsReceived, Ref
<1>2. /\ ~IsReceived(g(k)) /\ IsReceived(g2(k))
      /\ g2(k).id = n /\ g2(k).amount_msat = m.amount_msat
      /\ ~g2(k).updsend /\ ~g2(k).comsend /\ ~g2(k).revrecv /\ ~g2(k).comrecv
      /\ g2(k).delhtlc = "NONE" \/ (Doomable /\ g2(k).delhtlc = "FAIL")
      /\ R2.paid_in = R.paid_in
  BY DEF ReceivedAdded
<1>3. m.type \notin UpdateType /\ m.type \notin Exchange
  BY DEF UpdateType, Exchange
<1>4. /\ Signing(b2) <=> Signing(b)
      /\ Acking(b2) <=> Acking(b)
  BY <1>3 DEF ReadView
<1>5. /\ Adding(b, n)
      /\ \A x : AddingRef(b, x) /\ x.id = n => x.amount_msat = m.amount_msat
      /\ \A x : Adding(b2, x) <=> Adding(b, x) /\ x # n
      /\ \A x : AddingRef(b2, x) <=> AddingRef(b, x) /\ x.id # n
  BY DEF ReadView
<1>6. \A i \in Slot : /\ IsOffered(h(i)) => IsOwn(h(i))
                      /\ IsOwn(h(i)) => h(i).id < O.htlc_id_num
  BY DEF EndOK, SlotOK, IsOffered, IsOwn
<1> HIDE DEF h, g, g2, n
<1>7. ASSUME NEW i \in Slot
      PROVE  /\ IsOwn(h(i)) /\ ~h(i).updsend => Unheard(h(i).id, R, a, b)
             /\ IsOffered(h(i)) /\ h(i).updsend =>
                   \/ AddSent(h(i), a, b)
                   \/ \E j \in Slot : IsReceived(g(j)) /\ g(j).id = h(i).id
                   \/ ReceiverGone(h(i), R, a, b, tb)
             /\ IsOffered(h(i)) /\ Adding(b, h(i).id) => AddSent(h(i), a, b)
  BY DEF Pairing, OffersFit, h, g
<1>8. \A i \in Slot : Ref(h(i)).id = h(i).id /\ Ref(h(i)).amount_msat = h(i).amount_msat
  BY DEF Ref
<1>9. ASSUME NEW i \in Slot, NEW j \in Slot,
             IsOffered(h(i)), IsReceived(g2(j)), h(i).id = g2(j).id
      PROVE  Paired(h(i), g2(j), a, b2, ta, tb)
  <2>1. CASE j # k
    <3>1. IsReceived(g(j)) /\ h(i).id = g(j).id /\ SameHtlc(g(j), g2(j))
      BY <1>1, <1>9, <2>1
    <3>2. Paired(h(i), g(j), a, b, ta, tb)
      BY <1>9, <3>1 DEF Pairing, PairsFit, h, g
    <3>3. Paired(h(i), g(j), a, b2, ta, tb)
      <4>1. Added(h(i), g(j), a, b, ta, tb) => Added(h(i), g(j), a, b2, ta, tb)
        BY <1>4 DEF Added
      <4>2. DelSent(h(i), g(j), a, b) => DelSent(h(i), g(j), a, b2)
        BY <1>4 DEF DelSent
      <4>3. DelKnown(h(i), g(j), a, b, ta, tb) => DelKnown(h(i), g(j), a, b2, ta, tb)
        BY <1>4 DEF DelKnown
      <4>4. DelLost(h(i), g(j), a, b, ta) => DelLost(h(i), g(j), a, b2, ta)
        BY <1>4 DEF DelLost
      <4> QED BY <3>2, <4>1, <4>2, <4>3, <4>4 DEF Paired
    <3>4. /\ \A q : SameToOfferer(q, q) /\ SameToReceiver(q, q)
          /\ \A f : SameHtlc(f, f)
      BY DEF SameToOfferer, SameToReceiver, SameHtlc
    <3> QED BY <3>1, <3>3, <3>4, SamePaired
  <2>2. CASE j = k
    <3>1. AddSent(h(i), a, b)
      BY <1>2, <1>5, <1>7, <1>9, <2>2
    <3>2. h(i).amount_msat = m.amount_msat /\ h(i).updsend
      BY <1>2, <1>5, <1>8, <1>9, <2>2, <3>1 DEF AddSent
    <3>3. Ref(h(i)) = Ref(g2(k))
      BY <1>2, <1>9, <2>2, <3>2 DEF Ref
    <3>4. ~AckAhead(a)
      BY <3>1 DEF AddSent, AckAhead, Acking
    <3>5. CASE g2(k).delhtlc = "NONE"
      <4>1. Added(h(i), g2(k), a, b2, ta, tb)
        BY <1>2, <1>4, <3>1, <3>4, <3>5 DEF AddSent, Added
      <4> QED BY <2>2, <3>2, <3>3, <4>1 DEF Paired
    <3>6. CASE Doomable /\ g2(k).delhtlc = "FAIL"
      <4>1. Doomed(h(i), g2(k), a)
        BY <3>1, <3>6 DEF AddSent, Doomed, NotDeleting
      <4> QED BY <2>2, <3>2, <3>3, <4>1 DEF Paired
    <3> QED BY <1>2, <3>5, <3>6
  <2> QED BY <2>1, <2>2
<1>10. PairsFit(O, R2, a, b2, ta, tb)
  BY <1>9 DEF PairsFit, h, g2
<1>11. \A j \in Slot : IsReceived(g(j)) => IsReceived(g2(j)) /\ g2(j).id = g(j).id
                                           /\ Ref(g2(j)) = Ref(g(j))
  BY <1>1, <1>2
<1>12. OffersFit(O, R2, a, b2, ta, tb)
  <2> SUFFICES ASSUME NEW i \in Slot
               PROVE  /\ IsOwn(h(i)) /\ ~h(i).updsend => Unheard(h(i).id, R2, a, b2)
                      /\ IsOffered(h(i)) /\ h(i).updsend =>
                            \/ AddSent(h(i), a, b2)
                            \/ \E j \in Slot : IsReceived(g2(j)) /\ g2(j).id = h(i).id
                            \/ ReceiverGone(h(i), R2, a, b2, tb)
                      /\ IsOffered(h(i)) /\ Adding(b2, h(i).id) => AddSent(h(i), a, b2)
    BY DEF OffersFit, h, g2
  <2>1. ASSUME Unheard(h(i).id, R, a, b) PROVE Unheard(h(i).id, R2, a, b2)
    <3>1. h(i).id # n
      BY <1>5, <2>1 DEF Unheard
    <3>2. \A j \in Slot : IsReceived(g2(j)) => g2(j).id # h(i).id
      BY <1>1, <1>2, <2>1, <3>1 DEF Unheard, g
    <3> QED BY <1>2, <1>5, <2>1, <3>2 DEF Unheard, g2
  <2>2. AddSent(h(i), a, b) /\ h(i).id # n => AddSent(h(i), a, b2)
    BY <1>4, <1>5, <1>8 DEF AddSent
  <2>3. ReceiverGone(h(i), R, a, b, tb) => ReceiverGone(h(i), R2, a, b2, tb)
    BY <1>2 DEF ReceiverGone
  <2> QED BY <1>2, <1>5, <1>7, <1>11, <2>1, <2>2, <2>3
<1>13. ReceivedFit(O, R2, a, b2, tb)
  <2> SUFFICES ASSUME NEW j \in Slot, IsReceived(g2(j))
               PROVE  /\ g2(j).id < O.htlc_id_num
                      /\ ~Adding(b2, g2(j).id)
                      /\ \/ \E i \in Slot : IsOffered(h(i)) /\ h(i).id = g2(j).id
                         \/ OffererGone(g2(j), O, a, b2, tb)
    BY DEF ReceivedFit, h, g2
  <2>1. CASE j # k
    <3>1. IsReceived(g(j)) /\ SameHtlc(g(j), g2(j)) /\ g2(j).id = g(j).id /\ Ref(g2(j)) = Ref(g(j))
      BY <1>1, <2>1
    <3>2. /\ g(j).id < O.htlc_id_num
          /\ ~Adding(b, g(j).id)
          /\ \/ \E i \in Slot : IsOffered(h(i)) /\ h(i).id = g(j).id
             \/ OffererGone(g(j), O, a, b, tb)
      BY <3>1 DEF Pairing, ReceivedFit, h, g
    <3>3. OffererGone(g(j), O, a, b, tb) => OffererGone(g2(j), O, a, b2, tb)
      BY <1>4, <3>1 DEF OffererGone, SameHtlc
    <3> QED BY <1>5, <3>1, <3>2, <3>3
  <2>2. CASE j = k
    <3>1. PICK i \in Slot : IsOffered(h(i)) /\ h(i).id = n
      BY <1>5 DEF Pairing, UpdatesFit, h
    <3> QED BY <1>2, <1>5, <1>6, <2>2, <3>1
  <2> QED BY <2>1, <2>2
<1>14. UpdatesFit(O, R2, a, b2)
  <2>1. \A x : Adding(b2, x) =>
          /\ \E i \in Slot : IsOffered(h(i)) /\ h(i).id = x
          /\ \A y \in R2.paid_in : y.id # x
    BY <1>2, <1>5 DEF Pairing, UpdatesFit, h
  <2>2. \A x : \A del \in Deletion : Deleting(a, x, del) =>
          /\ x < O.htlc_id_num
          /\ \/ \E j \in Slot : IsReceived(g2(j)) /\ g2(j).id = x
             \/ Doomable /\ del = "FAIL"
    BY <1>11 DEF Pairing, UpdatesFit, g
  <2> QED BY <2>1, <2>2 DEF UpdatesFit, h, g2
<1>15. PaidFit(O, R2)
  BY <1>2, <1>11 DEF Pairing, PaidFit, g, g2
<1> QED BY <1>10, <1>12, <1>13, <1>14, <1>15 DEF Pairing

----------------------------------------------------------------------------
(* What each operation does to the slots.                                  *)

\* t is s with h in slot i.
SlotPut(s, t, i, h) ==
    /\ t.cnl_add_htlc[i] = h
    /\ \A j \in Slot \ {i} : t.cnl_add_htlc[j] = s.cnl_add_htlc[j]
    /\ t.paid_out = s.paid_out /\ t.paid_in = s.paid_in

\* Two assignments to one slot.
LEMMA PutTwice ==
    ASSUME NEW s, NEW t, NEW u, NEW i, NEW h, NEW g,
           SlotPut(s, t, i, h), SlotPut(t, u, i, g)
    PROVE  SlotPut(s, u, i, g)
BY DEF SlotPut

\* The slot of an HTLC this end is to offer, before and after it gets a direction.
WaitingHtlc(n, amt) == [EmptyHtlc EXCEPT !.id = n, !.amount_msat = amt]
\* The slot of an HTLC that is offered at once.
NewOffer(n, amt) == [WaitingHtlc(n, amt) EXCEPT !.addhtlc = "OFFER"]

\* Offering an HTLC puts it in a free slot, under the next id.
LEMMA OfferPut ==
    ASSUME NEW s \in SelfType, EndOK(s), NEW i \in Slot, FreeSlot(s, i), NEW amt \in Nat
    PROVE  /\ SlotPut(s, ln_add_htlc_set(s, i, amt), i, NewOffer(s.htlc_id_num, amt))
           /\ ln_add_htlc_set(s, i, amt).htlc_id_num = s.htlc_id_num + 1
           /\ SlotPut(s, ln_add_htlc_set_fwd(s, i, amt), i,
                      WaitingHtlc(s.htlc_id_num, amt))
           /\ ln_add_htlc_set_fwd(s, i, amt).htlc_id_num = s.htlc_id_num + 1
<1> DEFINE n == s.htlc_id_num
           h == WaitingHtlc(n, amt)
           g == NewOffer(n, amt)
           t == set_add_htlc(s, i, amt)
<1>1. s.cnl_add_htlc[i] = EmptyHtlc
  BY DEF EndOK, SlotOK, FreeSlot
<1>2. [EmptyHtlc EXCEPT !.id = n, !.amount_msat = amt] = h
  BY DEF NewOffer, WaitingHtlc
<1>3. [h EXCEPT !.addhtlc = "OFFER"] = g
  BY DEF NewOffer, WaitingHtlc
<1>4. t = [s EXCEPT !.cnl_add_htlc[i] = [s.cnl_add_htlc[i] EXCEPT !.id = n, !.amount_msat = amt],
                    !.htlc_id_num = n + 1]
  BY DEF set_add_htlc
<1>5. t \in SelfType
  BY OfferType DEF ln_add_htlc_set_fwd
<1>6. ln_add_htlc_set(s, i, amt) =
        [t EXCEPT !.cnl_add_htlc[i] = [t.cnl_add_htlc[i] EXCEPT !.addhtlc = "OFFER"]]
  BY DEF ln_add_htlc_set
<1> HIDE DEF n, h, g, t
<1>7. t = [s EXCEPT !.cnl_add_htlc[i] = h, !.htlc_id_num = n + 1]
  BY <1>1, <1>2, <1>4
<1>8. SlotPut(s, t, i, h) /\ t.htlc_id_num = n + 1
  BY <1>7 DEF SelfType, SlotPut
<1>9. ln_add_htlc_set(s, i, amt) = [t EXCEPT !.cnl_add_htlc[i] = g]
  BY <1>3, <1>6, <1>8 DEF SlotPut
<1>10. /\ SlotPut(t, ln_add_htlc_set(s, i, amt), i, g)
       /\ ln_add_htlc_set(s, i, amt).htlc_id_num = n + 1
  BY <1>5, <1>8, <1>9 DEF SelfType, SlotPut
<1>11. SlotPut(s, ln_add_htlc_set(s, i, amt), i, g)
  BY <1>8, <1>10, PutTwice
<1> QED BY <1>8, <1>10, <1>11 DEF ln_add_htlc_set_fwd, n, h, g, t

\* The other operations on one slot.
LEMMA OtherPut ==
    ASSUME NEW s \in SelfType, NEW i \in Slot
    PROVE  /\ SlotPut(s, ln_add_htlc_start_fwd(s, i), i,
                      [s.cnl_add_htlc[i] EXCEPT !.addhtlc = "OFFER"])
           /\ ln_add_htlc_start_fwd(s, i).htlc_id_num = s.htlc_id_num
           /\ SlotPut(s, ln_fulfill_htlc_set(s, i), i,
                      clear_htlc_comrevflag(s.cnl_add_htlc[i], "FULFILL"))
           /\ ln_fulfill_htlc_set(s, i).htlc_id_num = s.htlc_id_num
<1> DEFINE o == [s.cnl_add_htlc[i] EXCEPT !.addhtlc = "OFFER"]
           f == clear_htlc_comrevflag(s.cnl_add_htlc[i], "FULFILL")
<1>1. ln_add_htlc_start_fwd(s, i) = [s EXCEPT !.cnl_add_htlc[i] = o]
  BY DEF ln_add_htlc_start_fwd
<1>2. ln_fulfill_htlc_set(s, i) = [s EXCEPT !.cnl_add_htlc[i] = f]
  BY DEF ln_fulfill_htlc_set, DelHtlcIn
<1> HIDE DEF o, f
<1>4. /\ SlotPut(s, ln_add_htlc_start_fwd(s, i), i, o)
      /\ ln_add_htlc_start_fwd(s, i).htlc_id_num = s.htlc_id_num
  BY <1>1 DEF SelfType, SlotPut
<1>5. /\ SlotPut(s, ln_fulfill_htlc_set(s, i), i, f)
      /\ ln_fulfill_htlc_set(s, i).htlc_id_num = s.htlc_id_num
  BY <1>2 DEF SelfType, SlotPut
<1> QED BY <1>4, <1>5 DEF o, f

\* Failing an exchanged HTLC marks its slot.
LEMMA FailPut ==
    ASSUME NEW s \in SelfType, NEW i \in Slot, Exchanged(s.cnl_add_htlc[i])
    PROVE  /\ SlotPut(s, ln_fail_htlc_set(s, i), i,
                      clear_htlc_comrevflag(s.cnl_add_htlc[i], "FAIL"))
           /\ ln_fail_htlc_set(s, i).htlc_id_num = s.htlc_id_num
<1> DEFINE h == clear_htlc_comrevflag(s.cnl_add_htlc[i], "FAIL")
           t == [s EXCEPT !.cnl_add_htlc[i] = h]
<1>1. h \in HtlcType
  BY SlotHolds, ClearFlagType DEF DelHtlc
<1>2. [h EXCEPT !.delhtlc = "FAIL"] = h
  BY SlotHolds DEF clear_htlc_comrevflag, HtlcType
<1>3. ln_fail_htlc_set(s, i) =
        [t EXCEPT !.cnl_add_htlc[i] = [t.cnl_add_htlc[i] EXCEPT !.delhtlc = "FAIL"]]
  BY DEF ln_fail_htlc_set, DelHtlcIn
<1>4. t \in SelfType
  BY <1>1, SlotType
<1>5. t = [s EXCEPT !.cnl_add_htlc[i] = h]
  OBVIOUS
<1> HIDE DEF h, t
<1>6. SlotPut(s, t, i, h) /\ t.htlc_id_num = s.htlc_id_num
  BY <1>5 DEF SelfType, SlotPut
<1>7. ln_fail_htlc_set(s, i) = [t EXCEPT !.cnl_add_htlc[i] = h]
  BY <1>2, <1>3, <1>6 DEF SlotPut
<1>8. /\ SlotPut(t, ln_fail_htlc_set(s, i), i, h)
      /\ ln_fail_htlc_set(s, i).htlc_id_num = s.htlc_id_num
  BY <1>4, <1>6, <1>7 DEF SelfType, SlotPut
<1> QED BY <1>6, <1>8, PutTwice DEF h

\* One end stays in order when one of its slots changes.
LEMMA EndPut ==
    ASSUME NEW s \in SelfType, NEW t, NEW i \in Slot, NEW h, EndOK(s),
           SlotPut(s, t, i, h), SlotOK(h),
           t.htlc_id_num \in Nat, t.htlc_id_num >= s.htlc_id_num,
           IsOwn(h) =>
              /\ h.id < t.htlc_id_num
              /\ \A x \in s.paid_out : x.id # h.id
              /\ \A j \in Slot \ {i} : IsOwn(s.cnl_add_htlc[j]) => s.cnl_add_htlc[j].id # h.id,
           IsReceived(h) =>
              /\ \A x \in s.paid_in : x.id # h.id
              /\ \A j \in Slot \ {i} :
                    IsReceived(s.cnl_add_htlc[j]) => s.cnl_add_htlc[j].id # h.id
    PROVE  EndOK(t)
<1>0. /\ s.htlc_id_num \in Nat
      /\ \A x \in s.paid_out : x.id \in Nat
      /\ \A j \in Slot : s.cnl_add_htlc[j].id \in Nat
  BY SlotHolds DEF SelfType, RefType, HtlcType
<1>1. \A j \in Slot : t.cnl_add_htlc[j] = IF j = i THEN h ELSE s.cnl_add_htlc[j]
  BY DEF SlotPut
<1>2. \A j \in Slot : SlotOK(t.cnl_add_htlc[j])
  BY <1>1 DEF EndOK
<1>3. ASSUME NEW j \in Slot, NEW k \in Slot
      PROVE  LET e == t.cnl_add_htlc[j]
                 g == t.cnl_add_htlc[k]
             IN  /\ IsOwn(e) /\ IsOwn(g) /\ e.id = g.id => j = k
                 /\ IsReceived(e) /\ IsReceived(g) /\ e.id = g.id => j = k
  BY <1>1 DEF EndOK
<1>4. \A n \in Nat : n < s.htlc_id_num => n < t.htlc_id_num
  BY <1>0
<1>5. ASSUME NEW j \in Slot
      PROVE  LET e == t.cnl_add_htlc[j]
             IN  /\ IsOwn(e) => /\ e.id < t.htlc_id_num
                                /\ \A x \in t.paid_out : x.id # e.id
                 /\ IsReceived(e) => \A x \in t.paid_in : x.id # e.id
  BY <1>0, <1>1, <1>4 DEF EndOK, SlotPut
<1>6. \A x \in t.paid_out : x.id < t.htlc_id_num
  BY <1>0, <1>4 DEF EndOK, SlotPut
<1> QED BY <1>2, <1>3, <1>5, <1>6 DEF EndOK

\* One end stays in order when only the flags of its slots change.
LEMMA EndMap ==
    ASSUME NEW s, NEW t, EndOK(s), SameSlots(s, t),
           t.paid_out = s.paid_out, t.paid_in = s.paid_in,
           t.htlc_id_num = s.htlc_id_num,
           \A i \in Slot : SlotOK(t.cnl_add_htlc[i])
    PROVE  EndOK(t)
<1>1. \A i \in Slot : /\ IsOwn(t.cnl_add_htlc[i]) <=> IsOwn(s.cnl_add_htlc[i])
                      /\ IsReceived(t.cnl_add_htlc[i]) <=> IsReceived(s.cnl_add_htlc[i])
                      /\ t.cnl_add_htlc[i].id = s.cnl_add_htlc[i].id
  BY DEF SameSlots, IsOwn, IsReceived
<1> QED BY <1>1 DEF EndOK

----------------------------------------------------------------------------
(* Both ends and both streams; s is the end that takes the step.           *)

\* The pairing of both directions, seen from an end s with the peer t: a is
\* the stream to s, b the one to t.
EndsFit(s, t, a, b, ta, tb) ==
    /\ EndOK(s) /\ EndOK(t) /\ Tidy(a) /\ Tidy(b)
    /\ ta # "run" => a = <<>>
    /\ tb # "run" => b = <<>>
    /\ Pairing(s, t, a, b, ta, tb)
    /\ Pairing(t, s, b, a, tb, ta)
    /\ Undeleted(s, b) /\ Undeleted(t, a)

\* No deletion is announced, and no slot loses the mark.
LEMMA UndeletedKept ==
    ASSUME NEW R, NEW R2, NEW q, NEW r, Undeleted(R, q),
           \A j \in Slot :
              IsReceived(R2.cnl_add_htlc[j]) /\ ~R2.cnl_add_htlc[j].updsend =>
                 /\ IsReceived(R.cnl_add_htlc[j]) /\ ~R.cnl_add_htlc[j].updsend
                 /\ R2.cnl_add_htlc[j].id = R.cnl_add_htlc[j].id,
           \A n : NotDeleting(q, n) => NotDeleting(r, n)
    PROVE  Undeleted(R2, r)
BY DEF Undeleted

\* What is left alone.
LEMMA NothingNew ==
    ASSUME NEW s, NEW q
    PROVE  /\ SameOffers(s, s) /\ SameReceived(s, s)
           /\ SameToOfferer(q, q) /\ SameToReceiver(q, q)
BY DEF SameOffers, SameReceived, SameHtlc, SameToOfferer, SameToReceiver

\* A step that does not touch the HTLCs this end received.
LEMMA AsReceiverSame ==
    ASSUME NEW s, NEW u, NEW t, NEW a, NEW b, NEW ta, NEW tb,
           EndsFit(s, t, a, b, ta, tb), SameReceived(s, u)
    PROVE  Pairing(t, u, b, a, tb, ta) /\ Undeleted(u, b)
<1>1. SameOffers(t, t) /\ SameToOfferer(b, b) /\ SameToReceiver(a, a)
  BY NothingNew
<1>2. \A i \in Slot : SlotOK(t.cnl_add_htlc[i]) /\ SlotOK(t.cnl_add_htlc[i])
  BY DEF EndsFit, EndOK
<1>3. Pairing(t, s, b, a, tb, ta) /\ Undeleted(s, b)
  BY DEF EndsFit
<1>4. \A j \in Slot :
         IsReceived(u.cnl_add_htlc[j]) /\ ~u.cnl_add_htlc[j].updsend =>
            /\ IsReceived(s.cnl_add_htlc[j]) /\ ~s.cnl_add_htlc[j].updsend
            /\ u.cnl_add_htlc[j].id = s.cnl_add_htlc[j].id
  BY DEF SameReceived, SameHtlc, IsReceived
<1>5. Undeleted(u, b)
  BY <1>3, <1>4, UndeletedKept
<1> QED BY <1>1, <1>2, <1>3, <1>5, SamePairing

\* A step that does not touch the HTLCs this end offered.
LEMMA AsOffererSame ==
    ASSUME NEW s, NEW u, NEW t, NEW a, NEW b, NEW ta, NEW tb,
           EndsFit(s, t, a, b, ta, tb), EndOK(u), SameOffers(s, u)
    PROVE  Pairing(u, t, a, b, ta, tb)
<1>1. SameReceived(t, t) /\ SameToOfferer(a, a) /\ SameToReceiver(b, b)
  BY NothingNew
<1>2. \A i \in Slot : SlotOK(s.cnl_add_htlc[i]) /\ SlotOK(u.cnl_add_htlc[i])
  BY DEF EndsFit, EndOK
<1>3. Pairing(s, t, a, b, ta, tb)
  BY DEF EndsFit
<1> QED BY <1>1, <1>2, <1>3, SamePairing

\* The ids in a stream are numbers.
LEMMA StreamIds ==
    ASSUME NEW q \in Seq(Message)
    PROVE  /\ \A n : Adding(q, n) => n \in Nat
           /\ \A n : \A del \in Deletion : Deleting(q, n, del) => n \in Nat
<1>1. \A m \in Message : m.type = "update_add_htlc" \/ m.type \in UpdateType => m.id \in Nat
  BY DEF Message, UpdateType
<1>2. \A k \in DOMAIN q : q[k] \in Message
  OBVIOUS
<1>3. \A n : Adding(q, n) => n \in Nat
  BY <1>1, <1>2 DEF Adding
<1>4. \A n : \A del \in Deletion : Deleting(q, n, del) => n \in Nat
  BY <1>1, <1>2, DelTypes DEF Deleting
<1> QED BY <1>3, <1>4

\* One slot that is not a received HTLC before or after.
LEMMA PutNotReceived ==
    ASSUME NEW s, NEW u, NEW i \in Slot, NEW h, SlotPut(s, u, i, h),
           ~IsReceived(s.cnl_add_htlc[i]), ~IsReceived(h)
    PROVE  SameReceived(s, u)
BY DEF SlotPut, SameReceived, SameHtlc

\* One slot that is not an HTLC to offer before or after.
LEMMA PutNotOwn ==
    ASSUME NEW s, NEW u, NEW i \in Slot, NEW h, SlotPut(s, u, i, h),
           ~IsOwn(s.cnl_add_htlc[i]), ~IsOwn(h), u.htlc_id_num = s.htlc_id_num
    PROVE  SameOffers(s, u)
BY DEF SlotPut, SameOffers, SameHtlc

\* A free slot takes an HTLC to offer: the next id is new to the peer.
LEMMA OfferFits ==
    ASSUME NEW s \in SelfType, NEW t \in SelfType,
           NEW a \in Seq(Message), NEW b \in Seq(Message), NEW ta, NEW tb,
           EndsFit(s, t, a, b, ta, tb),
           NEW i \in Slot, FreeSlot(s, i), NEW amt \in Nat, amt # 0,
           NEW u, u = ln_add_htlc_set(s, i, amt) \/ u = ln_add_htlc_set_fwd(s, i, amt)
    PROVE  EndsFit(u, t, a, b, ta, tb)
<1> DEFINE n == s.htlc_id_num
<1>1. EndOK(s) /\ EndOK(t) /\ Pairing(s, t, a, b, ta, tb)
  BY DEF EndsFit
<1>2. s.cnl_add_htlc[i] = EmptyHtlc
  BY <1>1 DEF EndOK, SlotOK, FreeSlot
<1>3. n \in Nat /\ n + 1 \in Nat /\ n < n + 1 /\ ~(n < n)
  BY DEF SelfType
<1> HIDE DEF n
<1>4. PICK h : /\ SlotPut(s, u, i, h) /\ u.htlc_id_num = n + 1
               /\ h = WaitingHtlc(n, amt) \/ h = NewOffer(n, amt)
  BY <1>1, OfferPut DEF n
<1>5. /\ h.id = n /\ h.amount_msat = amt /\ h.addhtlc # "RECV" /\ h.delhtlc = "NONE"
      /\ ~h.updsend /\ ~h.comsend /\ ~h.revrecv /\ ~h.comrecv /\ h.comrecv = h.revsend
  BY <1>4 DEF WaitingHtlc, NewOffer, EmptyHtlc
<1>6. IsOwn(h) /\ ~IsReceived(h) /\ SlotOK(h)
  <2>1. IsOwn(h) /\ ~IsReceived(h)
    BY <1>5 DEF IsOwn, IsReceived
  <2>2. SlotOK(h)
    BY <1>5 DEF SlotOK, LN_HTLC_EMPTY, IsReceived, IsOffered
  <2> QED BY <2>1, <2>2
<1>7. ~IsOwn(s.cnl_add_htlc[i]) /\ ~IsReceived(s.cnl_add_htlc[i]) /\ ~IsOffered(s.cnl_add_htlc[i])
  BY <1>2 DEF EmptyHtlc, IsOwn, IsReceived, IsOffered
<1>8. \A j \in Slot : /\ IsOwn(s.cnl_add_htlc[j]) => s.cnl_add_htlc[j].id # n
                      /\ IsOffered(s.cnl_add_htlc[j]) => s.cnl_add_htlc[j].id # n
  <2>1. \A j \in Slot : IsOffered(s.cnl_add_htlc[j]) => IsOwn(s.cnl_add_htlc[j])
    BY <1>1 DEF EndOK, SlotOK, IsOffered, IsOwn
  <2> QED BY <1>1, <1>3, <2>1 DEF EndOK, n
<1>9. Unheard(n, t, a, b)
  <2>1. \A j \in Slot : IsReceived(t.cnl_add_htlc[j]) => t.cnl_add_htlc[j].id # n
    BY <1>1, <1>3 DEF Pairing, ReceivedFit, n
  <2>2. ~Adding(b, n)
    BY <1>1, <1>8 DEF Pairing, UpdatesFit
  <2>3. NotDeleting(a, n)
    BY <1>1, <1>3 DEF Pairing, UpdatesFit, NotDeleting, n
  <2>4. \A x \in t.paid_in : x.id # n
    BY <1>1, <1>3 DEF Pairing, PaidFit, n
  <2> QED BY <2>1, <2>2, <2>3, <2>4 DEF Unheard
<1>10. EndOK(u)
  <2>1. \A x \in s.paid_out : x.id # n
    BY <1>1, <1>3 DEF EndOK, n
  <2>2. u.htlc_id_num \in Nat /\ u.htlc_id_num >= s.htlc_id_num
    BY <1>3, <1>4 DEF n
  <2>3. h.id < u.htlc_id_num
    BY <1>3, <1>4, <1>5
  <2> QED BY <1>1, <1>4, <1>5, <1>6, <1>8, <2>1, <2>2, <2>3, EndPut
<1>11. OffersPrepared(s, u, t, a, b)
  <2>1. u.htlc_id_num \in Nat /\ u.htlc_id_num >= s.htlc_id_num
    BY <1>3, <1>4 DEF n
  <2>2. \A j \in Slot \ {i} : SameHtlc(s.cnl_add_htlc[j], u.cnl_add_htlc[j])
    BY <1>4 DEF SlotPut, SameHtlc
  <2>3. u.cnl_add_htlc[i] = h /\ u.paid_out = s.paid_out
    BY <1>4 DEF SlotPut
  <2> QED BY <1>5, <1>6, <1>7, <1>9, <2>1, <2>2, <2>3 DEF OffersPrepared
<1>12. Pairing(u, t, a, b, ta, tb)
  <2>1. \A j \in Slot : SlotOK(s.cnl_add_htlc[j]) /\ SlotOK(u.cnl_add_htlc[j])
    BY <1>1, <1>10 DEF EndOK
  <2>2. \A k : Adding(b, k) => k \in Nat
    BY StreamIds
  <2>3. \A k : \A del \in Deletion : Deleting(a, k, del) => k \in Nat
    BY StreamIds
  <2> QED BY <1>1, <1>11, <2>1, <2>2, <2>3, OffererPrepares
<1>13. SameReceived(s, u)
  BY <1>4, <1>6, <1>7, PutNotReceived
<1>14. Pairing(t, u, b, a, tb, ta) /\ Undeleted(u, b)
  BY <1>13, AsReceiverSame
<1> QED BY <1>10, <1>12, <1>14 DEF EndsFit

\* A forwarded HTLC gets its direction.
LEMMA StartFits ==
    ASSUME NEW s \in SelfType, NEW t \in SelfType,
           NEW a \in Seq(Message), NEW b \in Seq(Message), NEW ta, NEW tb,
           EndsFit(s, t, a, b, ta, tb),
           NEW i \in Slot, LN_HTLC_ENABLE(s.cnl_add_htlc[i]),
           s.cnl_add_htlc[i].addhtlc = "NONE"
    PROVE  EndsFit(ln_add_htlc_start_fwd(s, i), t, a, b, ta, tb)
<1> DEFINE u == ln_add_htlc_start_fwd(s, i)
           g == s.cnl_add_htlc[i]
           h == [g EXCEPT !.addhtlc = "OFFER"]
<1>1. EndOK(s) /\ EndOK(t) /\ Pairing(s, t, a, b, ta, tb)
  BY DEF EndsFit
<1>2. SlotPut(s, u, i, h) /\ u.htlc_id_num = s.htlc_id_num
  BY OtherPut
<1>3. g \in HtlcType
  BY SlotHolds
<1>4. SlotOK(g) /\ g.amount_msat # 0 /\ g.addhtlc = "NONE"
  BY <1>1 DEF EndOK, LN_HTLC_ENABLE, LN_HTLC_EMPTY
<1> HIDE DEF g
<1>5. /\ h.id = g.id /\ h.amount_msat = g.amount_msat /\ h.addhtlc = "OFFER"
      /\ h.delhtlc = g.delhtlc /\ h.updsend = g.updsend /\ h.comsend = g.comsend
      /\ h.revrecv = g.revrecv /\ h.comrecv = g.comrecv /\ h.revsend = g.revsend
  BY <1>3 DEF HtlcType
<1> HIDE DEF h, u
<1>6. IsOwn(h) /\ ~IsReceived(h) /\ SlotOK(h) /\ ~h.updsend
  <2>1. IsOwn(h) /\ ~IsReceived(h)
    BY <1>4, <1>5 DEF IsOwn, IsReceived
  <2>2. SlotOK(h) /\ ~h.updsend
    BY <1>4, <1>5 DEF SlotOK, LN_HTLC_EMPTY, IsReceived
  <2> QED BY <2>1, <2>2
<1>7. IsOwn(g) /\ ~IsReceived(g) /\ ~IsOffered(g) /\ ~g.updsend
  BY <1>4 DEF IsOwn, IsReceived, IsOffered, SlotOK
<1>8. Unheard(g.id, t, a, b)
  BY <1>1, <1>7 DEF Pairing, OffersFit, g
<1>9. s.htlc_id_num \in Nat /\ u.htlc_id_num >= s.htlc_id_num
  BY <1>2 DEF SelfType
<1>10. EndOK(u)
  <2>1. /\ h.id < u.htlc_id_num
        /\ \A x \in s.paid_out : x.id # h.id
        /\ \A j \in Slot \ {i} : IsOwn(s.cnl_add_htlc[j]) => s.cnl_add_htlc[j].id # h.id
    BY <1>1, <1>2, <1>5, <1>7 DEF EndOK, g
  <2> QED BY <1>1, <1>2, <1>6, <1>9, <2>1, EndPut
<1>11. OffersPrepared(s, u, t, a, b)
  <2>2. \A j \in Slot \ {i} : SameHtlc(s.cnl_add_htlc[j], u.cnl_add_htlc[j])
    BY <1>2 DEF SlotPut, SameHtlc
  <2>3. u.cnl_add_htlc[i] = h /\ u.paid_out = s.paid_out
    BY <1>2 DEF SlotPut
  <2> QED BY <1>2, <1>5, <1>6, <1>7, <1>8, <1>9, <2>2, <2>3 DEF OffersPrepared, g
<1>12. Pairing(u, t, a, b, ta, tb)
  <2>1. \A j \in Slot : SlotOK(s.cnl_add_htlc[j]) /\ SlotOK(u.cnl_add_htlc[j])
    BY <1>1, <1>10 DEF EndOK
  <2>2. \A k : Adding(b, k) => k \in Nat
    BY StreamIds
  <2>3. \A k : \A del \in Deletion : Deleting(a, k, del) => k \in Nat
    BY StreamIds
  <2> QED BY <1>1, <1>11, <2>1, <2>2, <2>3, OffererPrepares
<1>13. SameReceived(s, u)
  BY <1>2, <1>6, <1>7, PutNotReceived DEF g
<1>14. Pairing(t, u, b, a, tb, ta) /\ Undeleted(u, b)
  BY <1>13, AsReceiverSame
<1> QED BY <1>10, <1>12, <1>14 DEF EndsFit, u

\* The next channel resolves a forwarded HTLC.
LEMMA BackwindFits ==
    ASSUME NEW s \in SelfType, NEW t \in SelfType,
           NEW a, NEW b, NEW ta, NEW tb,
           EndsFit(s, t, a, b, ta, tb),
           NEW i \in Slot, Forwarded(s.cnl_add_htlc[i]), NEW del \in Deletion,
           NEW u, SlotPut(s, u, i, clear_htlc_comrevflag(s.cnl_add_htlc[i], del)),
           u.htlc_id_num = s.htlc_id_num
    PROVE  EndsFit(u, t, a, b, ta, tb)
<1> DEFINE g == s.cnl_add_htlc[i]
           h == clear_htlc_comrevflag(g, del)
<1>1. EndOK(s) /\ EndOK(t) /\ Pairing(s, t, a, b, ta, tb) /\ Pairing(t, s, b, a, tb, ta)
  BY DEF EndsFit
<1>2. SlotPut(s, u, i, h) /\ u.htlc_id_num = s.htlc_id_num
  OBVIOUS
<1>3. g \in HtlcType /\ Forwarded(g)
  BY SlotHolds
<1>4. SlotOK(g)
  BY <1>1 DEF EndOK
<1> HIDE DEF g
<1>5. /\ h.id = g.id /\ h.amount_msat = g.amount_msat /\ h.addhtlc = "RECV"
      /\ h.delhtlc = del /\ h.updsend = g.updsend
      /\ ~h.comsend /\ ~h.revrecv /\ ~h.comrecv /\ h.comrecv = h.revsend
  BY <1>3 DEF HtlcType, Forwarded, clear_htlc_comrevflag
<1> HIDE DEF h
<1>6. IsReceived(g) /\ Exchanged(g) /\ g.delhtlc = "NONE" /\ ~g.updsend /\ g.amount_msat # 0
  BY <1>3, <1>4 DEF Forwarded, SlotOK, IsReceived
<1>7. IsReceived(h) /\ SlotOK(h) /\ ~IsOwn(h) /\ ~IsOwn(g)
  <2>1. IsReceived(h) /\ ~IsOwn(h) /\ ~IsOwn(g)
    BY <1>5, <1>6 DEF IsReceived, IsOwn
  <2>2. SlotOK(h)
    BY <1>5, <1>6 DEF SlotOK, LN_HTLC_EMPTY, IsOffered, IsReceived
  <2> QED BY <2>1, <2>2
<1>8. DeletionStarts(g, h)
  BY <1>5, <1>6, <1>7 DEF DeletionStarts, Ref, Deletion
<1>9. EndOK(u)
  <2>1. /\ \A x \in s.paid_in : x.id # h.id
        /\ \A j \in Slot \ {i} :
              IsReceived(s.cnl_add_htlc[j]) => s.cnl_add_htlc[j].id # h.id
    BY <1>1, <1>5, <1>6 DEF EndOK, g
  <2>2. s.htlc_id_num \in Nat /\ s.htlc_id_num >= s.htlc_id_num
    BY DEF SelfType
  <2> QED BY <1>1, <1>2, <1>7, <2>1, <2>2, EndPut
<1>10. ReceivedSettled(s, u, {})
  <2>1. \A j \in Slot \ {i} : SameHtlc(s.cnl_add_htlc[j], u.cnl_add_htlc[j])
    BY <1>2 DEF SlotPut, SameHtlc
  <2>2. DeletionStarts(s.cnl_add_htlc[i], u.cnl_add_htlc[i])
    BY <1>2, <1>8 DEF SlotPut, g
  <2>3. u.paid_in = s.paid_in
    BY <1>2 DEF SlotPut
  <2> QED BY <2>1, <2>2, <2>3 DEF ReceivedSettled
<1>11. Pairing(t, u, b, a, tb, ta)
  BY <1>1, <1>10, ReceiverSettles
<1>12. SameOffers(s, u)
  BY <1>2, <1>7, PutNotOwn DEF g
<1>13. Pairing(u, t, a, b, ta, tb)
  BY <1>9, <1>12, AsOffererSame
<1>14. Undeleted(u, b)
  <2>1. \A j \in Slot \ {i} : u.cnl_add_htlc[j] = s.cnl_add_htlc[j]
    BY <1>2 DEF SlotPut
  <2>2. u.cnl_add_htlc[i].id = s.cnl_add_htlc[i].id
    BY <1>2, <1>5 DEF SlotPut, g
  <2>3. IsReceived(s.cnl_add_htlc[i]) /\ ~s.cnl_add_htlc[i].updsend
    BY <1>6 DEF g
  <2>4. Undeleted(s, b)
    BY DEF EndsFit
  <2> QED BY <2>1, <2>2, <2>3, <2>4, UndeletedKept
<1> QED BY <1>9, <1>11, <1>13, <1>14 DEF EndsFit

\* What recv_idle_proc_final does to a slot: it clears it, it starts the
\* deletion of a received HTLC, or it leaves it alone.
FinalSlot(s, h, g, i) ==
    \/ /\ i \in Removable(s) /\ g = EmptyHtlc
       /\ \/ IsOffered(h) /\ h.delhtlc # "NONE" /\ h.comrecv
          \/ IsReceived(h) /\ h.updsend /\ h.comsend /\ h.revrecv
    \/ i \notin Removable(s) /\ SlotOK(g) /\ (SameHtlc(h, g) \/ DeletionStarts(h, g))

\* What recv_idle_proc_final does to the slots and to what is paid.
LEMMA FinalSlots ==
    ASSUME NEW s \in SelfType, EndOK(s), Final(s)
    PROVE  /\ \A i \in Slot :
                 FinalSlot(s, s.cnl_add_htlc[i], AfterFinal(s).cnl_add_htlc[i], i)
           /\ AfterFinal(s).paid_out = s.paid_out \cup FulfilledRefs(s, "OFFER")
           /\ AfterFinal(s).paid_in = s.paid_in \cup FulfilledRefs(s, "RECV")
           /\ AfterFinal(s).htlc_id_num = s.htlc_id_num
<1> DEFINE f == [i \in Slot |->
                   CASE i \in Removable(s) -> clear_htlc(s.cnl_add_htlc[i])
                     [] i \in Startable(s) -> StartHtlc(s.cnl_add_htlc[i])
                     [] OTHER -> s.cnl_add_htlc[i]]
           o == s.paid_out \cup FulfilledRefs(s, "OFFER")
           n == s.paid_in \cup FulfilledRefs(s, "RECV")
<1>1. AfterFinal(s) = [s EXCEPT !.cnl_add_htlc = f, !.paid_out = o, !.paid_in = n]
  BY DEF AfterFinal
<1>2. ASSUME NEW i \in Slot
      PROVE  FinalSlot(s, s.cnl_add_htlc[i], f[i], i)
  <2> DEFINE h == s.cnl_add_htlc[i]
             g == f[i]
  <2>1. h \in HtlcType /\ SlotOK(h)
    BY SlotHolds DEF EndOK
  <2>2. /\ i \in Removable(s) => g = EmptyHtlc
        /\ i \notin Removable(s) /\ i \in Startable(s) => g = StartHtlc(h)
        /\ i \notin Removable(s) /\ i \notin Startable(s) => g = h
    <3>1. ~(i \in Removable(s) /\ i \in Startable(s))
      BY DEF Removable, Startable
    <3> QED BY <3>1 DEF clear_htlc
  <2>3. /\ i \in Removable(s) =>
             /\ Exchanged(h)
             /\ ~LN_HTLC_ENABLE_LOCAL_ADDHTLC_OFFER(h) /\ ~LN_HTLC_ENABLE_LOCAL_ADDHTLC_RECV(h)
        /\ i \in Startable(s) =>
             /\ Exchanged(h) /\ LN_HTLC_ENABLE_LOCAL_ADDHTLC_RECV(h)
    BY DEF Final, Removable, Startable
  <2> HIDE DEF h, g, f
  <2>4. CASE i \in Removable(s)
    <3>1. h.addhtlc \in {"NONE", "OFFER", "RECV"}
      BY <2>1 DEF HtlcType, AddHtlc
    <3>2. \/ IsOffered(h) /\ h.delhtlc # "NONE" /\ h.comrecv
          \/ IsReceived(h) /\ h.updsend /\ h.comsend /\ h.revrecv
      BY <2>1, <2>3, <2>4, <3>1 DEF SlotOK, Exchanged, IsOffered, IsReceived,
           LN_HTLC_ENABLE_LOCAL_ADDHTLC_OFFER, LN_HTLC_ENABLE_LOCAL_ADDHTLC_RECV
    <3> QED BY <2>2, <2>4, <3>2 DEF FinalSlot, h, g
  <2>5. CASE i \notin Removable(s) /\ i \in Startable(s)
    <3>1. /\ IsReceived(h) /\ ~h.updsend /\ h.delhtlc = "NONE" /\ Exchanged(h)
          /\ h.amount_msat # 0
      BY <2>1, <2>3, <2>5 DEF SlotOK, Exchanged, IsReceived,
           LN_HTLC_ENABLE_LOCAL_ADDHTLC_RECV
    <3> DEFINE e == [h EXCEPT !.next = FALSE]
               d == h.fin_delhtlc
               c == [e EXCEPT !.delhtlc = d, !.comsend = FALSE, !.revrecv = FALSE,
                              !.comrecv = FALSE, !.revsend = FALSE]
    <3>2. e \in HtlcType /\ SameHtlc(h, e) /\ Exchanged(e)
      BY <2>1, <3>1 DEF HtlcType, SameHtlc, Exchanged
    <3>3. g = IF d # "NONE" THEN clear_htlc_comrevflag(e, d) ELSE e
      BY <2>2, <2>5 DEF StartHtlc
    <3>4. clear_htlc_comrevflag(e, d) = c
      BY <3>2 DEF clear_htlc_comrevflag
    <3> HIDE DEF d, e
    <3>5. /\ c.id = e.id /\ c.amount_msat = e.amount_msat /\ c.addhtlc = e.addhtlc
          /\ c.delhtlc = d /\ c.updsend = e.updsend
          /\ ~c.comsend /\ ~c.revrecv /\ ~c.comrecv /\ c.comrecv = c.revsend
      BY <3>2 DEF HtlcType
    <3> HIDE DEF c
    <3>6. SlotOK(e)
      BY <2>1, <3>1, <3>2 DEF SlotOK, SameHtlc, LN_HTLC_EMPTY, IsReceived, IsOffered
    <3>7. d # "NONE" => SlotOK(c) /\ DeletionStarts(h, c)
      <4>1. c.addhtlc = "RECV" /\ ~c.updsend /\ c.amount_msat # 0 /\ Ref(c) = Ref(h)
        BY <3>1, <3>2, <3>5 DEF SameHtlc, IsReceived, Ref
      <4>2. SlotOK(c)
        BY <3>5, <4>1 DEF SlotOK, LN_HTLC_EMPTY, IsReceived, IsOffered
      <4> QED BY <3>1, <3>5, <4>1, <4>2 DEF DeletionStarts, IsReceived
    <3> QED BY <2>5, <3>2, <3>3, <3>4, <3>6, <3>7 DEF FinalSlot, h, g
  <2>6. CASE i \notin Removable(s) /\ i \notin Startable(s)
    BY <2>1, <2>2, <2>6 DEF FinalSlot, SameHtlc, h, g
  <2> QED BY <2>4, <2>5, <2>6 DEF h, g
<1> HIDE DEF f, o, n
<1>3. LET u == AfterFinal(s)
      IN  u.cnl_add_htlc = f /\ u.paid_out = o /\ u.paid_in = n /\ u.htlc_id_num = s.htlc_id_num
  BY <1>1 DEF SelfType
<1> QED BY <1>2, <1>3 DEF o, n

\* recv_idle_proc_final.
LEMMA FinalFits ==
    ASSUME NEW s \in SelfType, NEW t \in SelfType,
           NEW a, NEW b, NEW ta, NEW tb,
           EndsFit(s, t, a, b, ta, tb), Final(s)
    PROVE  EndsFit(AfterFinal(s), t, a, b, ta, tb)
<1> DEFINE u == AfterFinal(s)
           h(i) == s.cnl_add_htlc[i]
           g(i) == u.cnl_add_htlc[i]
           D(add) == {i \in Removable(s) : s.cnl_add_htlc[i].addhtlc = add}
<1>1. EndOK(s) /\ EndOK(t) /\ Pairing(s, t, a, b, ta, tb) /\ Pairing(t, s, b, a, tb, ta)
  BY DEF EndsFit
<1>2. /\ \A i \in Slot : FinalSlot(s, h(i), g(i), i)
      /\ u.paid_out = s.paid_out \cup FulfilledRefs(s, "OFFER")
      /\ u.paid_in = s.paid_in \cup FulfilledRefs(s, "RECV")
      /\ u.htlc_id_num = s.htlc_id_num
  BY <1>1, FinalSlots
<1>3. D("OFFER") \subseteq Slot /\ D("RECV") \subseteq Slot
  BY DEF Removable, Enabled
<1>4. /\ \A i \in D("OFFER") : /\ IsOffered(h(i)) /\ h(i).delhtlc # "NONE" /\ h(i).comrecv
                               /\ g(i) = EmptyHtlc
      /\ \A i \in D("RECV") : /\ IsReceived(h(i)) /\ h(i).updsend /\ h(i).comsend
                              /\ h(i).revrecv /\ g(i) = EmptyHtlc
  BY <1>2, <1>3 DEF FinalSlot, IsOffered, IsReceived
<1>5. ~IsOwn(EmptyHtlc) /\ ~IsReceived(EmptyHtlc) /\ SlotOK(EmptyHtlc)
  BY DEF EmptyHtlc, IsOwn, IsReceived, SlotOK, IsOffered, LN_HTLC_EMPTY
<1>6. \A i \in Slot \ D("OFFER") : IsOwn(h(i)) \/ IsOwn(g(i)) => SameHtlc(h(i), g(i))
  BY <1>2, <1>5 DEF FinalSlot, IsOwn, IsReceived, IsOffered, DeletionStarts
<1>7. \A i \in Slot \ D("RECV") :
         \/ IsReceived(h(i)) \/ IsReceived(g(i)) => SameHtlc(h(i), g(i))
         \/ DeletionStarts(h(i), g(i))
  BY <1>2, <1>5 DEF FinalSlot, IsReceived, IsOffered
<1>8. /\ FulfilledRefs(s, "OFFER") =
           {Ref(s.cnl_add_htlc[i]) : i \in {j \in D("OFFER") : s.cnl_add_htlc[j].delhtlc = "FULFILL"}}
      /\ FulfilledRefs(s, "RECV") =
           {Ref(s.cnl_add_htlc[i]) : i \in {j \in D("RECV") : s.cnl_add_htlc[j].delhtlc = "FULFILL"}}
  BY DEF FulfilledRefs
<1>9. OffersSettled(s, u, D("OFFER"))
  <2> HIDE DEF u, D
  <2> QED BY <1>2, <1>3, <1>4, <1>5, <1>6, <1>8 DEF OffersSettled
<1>10. ReceivedSettled(s, u, D("RECV"))
  <2> HIDE DEF u, D
  <2> QED BY <1>2, <1>3, <1>4, <1>5, <1>7, <1>8 DEF ReceivedSettled
<1>11. \A i \in Slot : SlotOK(g(i))
  BY <1>2, <1>5 DEF FinalSlot
<1>12. \A x \in FulfilledRefs(s, "OFFER") : \E i \in D("OFFER") : x.id = h(i).id
  BY <1>8 DEF Ref
<1>13. \A x \in FulfilledRefs(s, "RECV") : \E i \in D("RECV") : x.id = h(i).id
  BY <1>8 DEF Ref
<1>14. \A i \in Slot : IsOwn(g(i)) => IsOwn(h(i)) /\ g(i).id = h(i).id /\ i \notin D("OFFER")
  BY <1>4, <1>5, <1>6 DEF SameHtlc, IsOwn
<1>15. \A i \in Slot : IsReceived(g(i)) =>
          IsReceived(h(i)) /\ g(i).id = h(i).id /\ i \notin D("RECV")
  <2> SUFFICES ASSUME NEW i \in Slot, IsReceived(g(i))
               PROVE  IsReceived(h(i)) /\ g(i).id = h(i).id /\ i \notin D("RECV")
    OBVIOUS
  <2>1. i \notin D("RECV")
    BY <1>4, <1>5
  <2>2. Ref(g(i)) = Ref(h(i)) => g(i).id = h(i).id
    BY DEF Ref
  <2> QED BY <1>7, <2>1, <2>2 DEF SameHtlc, IsReceived, DeletionStarts
<1>16. \A i \in Slot : IsOffered(h(i)) => IsOwn(h(i))
  BY <1>1 DEF EndOK, SlotOK, IsOffered, IsOwn
<1> HIDE DEF u, D, h, g
<1>17. EndOK(u)
  <2>1. \A i, j \in Slot : /\ IsOwn(g(i)) /\ IsOwn(g(j)) /\ g(i).id = g(j).id => i = j
                           /\ IsReceived(g(i)) /\ IsReceived(g(j)) /\ g(i).id = g(j).id => i = j
    BY <1>1, <1>14, <1>15 DEF EndOK, h
  <2>2. \A i \in Slot : IsOwn(g(i)) => g(i).id < u.htlc_id_num
    BY <1>1, <1>2, <1>14 DEF EndOK, h
  <2>3. ASSUME NEW i \in Slot, IsOwn(g(i)), NEW x \in u.paid_out
        PROVE  x.id # g(i).id
    <3>1. IsOwn(h(i)) /\ g(i).id = h(i).id /\ i \notin D("OFFER")
      BY <1>14, <2>3
    <3>2. CASE x \in s.paid_out
      BY <1>1, <3>1, <3>2 DEF EndOK, h
    <3>3. CASE x \in FulfilledRefs(s, "OFFER")
      <4>1. PICK j \in D("OFFER") : x.id = h(j).id
        BY <1>12, <3>3
      <4>2. IsOwn(h(j)) /\ j \in Slot /\ j # i
        BY <1>3, <1>4, <1>16, <3>1
      <4> QED BY <1>1, <3>1, <4>1, <4>2 DEF EndOK, h
    <3> QED BY <1>2, <3>2, <3>3
  <2>4. ASSUME NEW i \in Slot, IsReceived(g(i)), NEW x \in u.paid_in
        PROVE  x.id # g(i).id
    <3>1. IsReceived(h(i)) /\ g(i).id = h(i).id /\ i \notin D("RECV")
      BY <1>15, <2>4
    <3>2. CASE x \in s.paid_in
      BY <1>1, <3>1, <3>2 DEF EndOK, h
    <3>3. CASE x \in FulfilledRefs(s, "RECV")
      <4>1. PICK j \in D("RECV") : x.id = h(j).id
        BY <1>13, <3>3
      <4>2. IsReceived(h(j)) /\ j \in Slot /\ j # i
        BY <1>3, <1>4, <3>1
      <4> QED BY <1>1, <3>1, <4>1, <4>2 DEF EndOK, h
    <3> QED BY <1>2, <3>2, <3>3
  <2>5. ASSUME NEW x \in u.paid_out
        PROVE  x.id < u.htlc_id_num
    <3>1. CASE x \in s.paid_out
      BY <1>1, <1>2, <3>1 DEF EndOK
    <3>2. CASE x \in FulfilledRefs(s, "OFFER")
      <4>1. PICK j \in D("OFFER") : x.id = h(j).id
        BY <1>12, <3>2
      <4>2. IsOwn(h(j)) /\ j \in Slot
        BY <1>3, <1>4, <1>16
      <4> QED BY <1>1, <1>2, <4>1, <4>2 DEF EndOK, h
    <3> QED BY <1>2, <3>1, <3>2
  <2> QED BY <1>11, <2>1, <2>2, <2>3, <2>4, <2>5 DEF EndOK, g
<1>18. Pairing(u, t, a, b, ta, tb)
  <2>1. \A i \in Slot : SlotOK(u.cnl_add_htlc[i])
    BY <1>11 DEF g
  <2> QED BY <1>1, <1>9, <2>1, OffererSettles
<1>19. Pairing(t, u, b, a, tb, ta)
  BY <1>1, <1>10, ReceiverSettles
<1>20. Undeleted(u, b)
  <2>1. \A j \in Slot : /\ SameHtlc(h(j), g(j)) => h(j).updsend = g(j).updsend
                        /\ DeletionStarts(h(j), g(j)) => ~h(j).updsend
                        /\ IsReceived(g(j)) => SameHtlc(h(j), g(j)) \/ DeletionStarts(h(j), g(j))
    BY <1>5, <1>7, <1>15 DEF SameHtlc, DeletionStarts
  <2>2. \A j \in Slot : IsReceived(g(j)) /\ ~g(j).updsend =>
           IsReceived(h(j)) /\ ~h(j).updsend /\ g(j).id = h(j).id
    BY <1>15, <2>1
  <2>3. Undeleted(s, b)
    BY DEF EndsFit
  <2> QED BY <2>2, <2>3, UndeletedKept DEF h, g
<1> QED BY <1>17, <1>18, <1>19, <1>20 DEF EndsFit, u

----------------------------------------------------------------------------
(* A pass of recv_idle_proc_nonfinal.                                      *)

\* Only flags change from s to t.
FlagsOnly(s, t) ==
    /\ SameSlots(s, t)
    /\ t.paid_out = s.paid_out /\ t.paid_in = s.paid_in
    /\ t.htlc_id_num = s.htlc_id_num
    /\ \A i \in Slot : LN_HTLC_EMPTY(s.cnl_add_htlc[i]) =>
          t.cnl_add_htlc[i] = s.cnl_add_htlc[i]

\* What announcing the updates does to the flags.
LEMMA UpdatesMap ==
    ASSUME NEW s \in SelfType
    PROVE  LET u == AfterUpdates(s)
           IN  /\ FlagsOnly(s, u)
               /\ \A i \in Slot :
                     LET h == s.cnl_add_htlc[i]
                         g == u.cnl_add_htlc[i]
                     IN  /\ g.delhtlc = h.delhtlc /\ g.comsend = h.comsend
                         /\ g.revrecv = h.revrecv /\ g.comrecv = h.comrecv
                         /\ g.revsend = h.revsend
                         /\ g.updsend <=> h.updsend \/ i \in WillUpdate(s)
<1> DEFINE f == [i \in Slot |-> IF i \in WillUpdate(s)
                                THEN [s.cnl_add_htlc[i] EXCEPT !.updsend = TRUE]
                                ELSE s.cnl_add_htlc[i]]
           u == AfterUpdates(s)
<1>1. \A i \in Slot : s.cnl_add_htlc[i] \in HtlcType
  BY SlotHolds
<1>2. ASSUME NEW i \in Slot
      PROVE  LET h == s.cnl_add_htlc[i]
                 g == f[i]
             IN  /\ g.id = h.id /\ g.amount_msat = h.amount_msat /\ g.addhtlc = h.addhtlc
                 /\ g.delhtlc = h.delhtlc /\ g.comsend = h.comsend
                 /\ g.revrecv = h.revrecv /\ g.comrecv = h.comrecv
                 /\ g.revsend = h.revsend
                 /\ g.updsend <=> h.updsend \/ i \in WillUpdate(s)
                 /\ LN_HTLC_EMPTY(h) => g = h
  <2> DEFINE h == s.cnl_add_htlc[i]
  <2>1. h \in HtlcType
    BY <1>1
  <2>2. f[i] = IF i \in WillUpdate(s) THEN [h EXCEPT !.updsend = TRUE] ELSE h
    OBVIOUS
  <2>3. LN_HTLC_EMPTY(h) => i \notin WillUpdate(s)
    BY DEF WillUpdate, Enabled, LN_HTLC_ENABLE
  <2> HIDE DEF h, f
  <2>4. CASE i \in WillUpdate(s)
    <3> DEFINE g == [h EXCEPT !.updsend = TRUE]
    <3>1. /\ g.id = h.id /\ g.amount_msat = h.amount_msat /\ g.addhtlc = h.addhtlc
          /\ g.delhtlc = h.delhtlc /\ g.comsend = h.comsend
          /\ g.revrecv = h.revrecv /\ g.comrecv = h.comrecv
          /\ g.revsend = h.revsend /\ g.updsend
      BY <2>1 DEF HtlcType
    <3>2. f[i] = g
      BY <2>2, <2>4
    <3> HIDE DEF g
    <3> QED BY <2>3, <2>4, <3>1, <3>2 DEF h
  <2>5. CASE i \notin WillUpdate(s)
    BY <2>2, <2>5 DEF h
  <2> QED BY <2>4, <2>5
<1>3. u = [s EXCEPT !.cnl_add_htlc = f]
  BY DEF AfterUpdates
<1> HIDE DEF f, u
<1>4. /\ u.cnl_add_htlc = f /\ u.paid_out = s.paid_out /\ u.paid_in = s.paid_in
      /\ u.htlc_id_num = s.htlc_id_num
  BY <1>3 DEF SelfType
<1> QED BY <1>2, <1>4 DEF FlagsOnly, SameSlots, u

\* What sending a commitment_signed does to the flags.
LEMMA SendMap ==
    ASSUME NEW s \in SelfType, NEW tx
    PROVE  LET u == AfterSendCommitmentSigned(s, tx)
           IN  /\ FlagsOnly(s, u)
               /\ \A i \in Slot :
                     LET h == s.cnl_add_htlc[i]
                         g == u.cnl_add_htlc[i]
                     IN  /\ g.delhtlc = h.delhtlc /\ g.updsend = h.updsend
                         /\ g.revrecv = h.revrecv /\ g.comrecv = h.comrecv
                         /\ g.revsend = h.revsend
                         /\ g.comsend <=> h.comsend \/ InRemoteExchange(h)
<1> DEFINE f == [i \in Slot |-> IF InRemoteExchange(s.cnl_add_htlc[i])
                                THEN [s.cnl_add_htlc[i] EXCEPT !.comsend = TRUE]
                                ELSE s.cnl_add_htlc[i]]
           r == [s.commit_remote EXCEPT !.commit_num = s.commit_remote.commit_num + 1,
                                        !.htlc_num = HtlcNum(tx)]
           u == AfterSendCommitmentSigned(s, tx)
<1>1. \A i \in Slot : s.cnl_add_htlc[i] \in HtlcType
  BY SlotHolds
<1>2. ASSUME NEW i \in Slot
      PROVE  LET h == s.cnl_add_htlc[i]
                 g == f[i]
             IN  /\ g.id = h.id /\ g.amount_msat = h.amount_msat /\ g.addhtlc = h.addhtlc
                 /\ g.delhtlc = h.delhtlc /\ g.updsend = h.updsend
                 /\ g.revrecv = h.revrecv /\ g.comrecv = h.comrecv
                 /\ g.revsend = h.revsend
                 /\ g.comsend <=> h.comsend \/ InRemoteExchange(h)
                 /\ LN_HTLC_EMPTY(h) => g = h
  <2> DEFINE h == s.cnl_add_htlc[i]
  <2>1. h \in HtlcType
    BY <1>1
  <2>2. f[i] = IF InRemoteExchange(h) THEN [h EXCEPT !.comsend = TRUE] ELSE h
    OBVIOUS
  <2>3. LN_HTLC_EMPTY(h) => ~InRemoteExchange(h)
    BY DEF InRemoteExchange, LN_HTLC_ENABLE
  <2> HIDE DEF h, f
  <2>4. CASE InRemoteExchange(h)
    <3> DEFINE g == [h EXCEPT !.comsend = TRUE]
    <3>1. /\ g.id = h.id /\ g.amount_msat = h.amount_msat /\ g.addhtlc = h.addhtlc
          /\ g.delhtlc = h.delhtlc /\ g.updsend = h.updsend
          /\ g.revrecv = h.revrecv /\ g.comrecv = h.comrecv
          /\ g.revsend = h.revsend /\ g.comsend
      BY <2>1 DEF HtlcType
    <3>2. f[i] = g
      BY <2>2, <2>4
    <3> HIDE DEF g
    <3> QED BY <2>3, <2>4, <3>1, <3>2 DEF h
  <2>5. CASE ~InRemoteExchange(h)
    BY <2>2, <2>5 DEF h
  <2> QED BY <2>4, <2>5
<1>3. u = [s EXCEPT !.cnl_add_htlc = f, !.commit_remote = r]
  BY DEF AfterSendCommitmentSigned
<1> HIDE DEF f, u, r
<1>4. /\ u.cnl_add_htlc = f /\ u.paid_out = s.paid_out /\ u.paid_in = s.paid_in
      /\ u.htlc_id_num = s.htlc_id_num
  BY <1>3 DEF SelfType
<1> QED BY <1>2, <1>4 DEF FlagsOnly, SameSlots, u

\* The slots after a pass; cs tells whether it ends with a commitment_signed.
PassSlot(s, h, g, cs) ==
    /\ g.delhtlc = h.delhtlc /\ g.revrecv = h.revrecv
    /\ g.comrecv = h.comrecv /\ g.revsend = h.revsend
    /\ SlotOK(g)
    /\ h.updsend => g.updsend
    /\ IsOffered(h) => OfferedSent(h, g, cs)
    /\ IsReceived(h) => ReceivedSent(h, g, cs)

\* What a whole pass of the send loop does to the flags.
LEMMA PassSlots ==
    ASSUME NEW s \in SelfType, EndOK(s), NEW cs \in BOOLEAN, NEW tx,
           NEW u, u = IF cs THEN AfterSendCommitmentSigned(AfterUpdates(s), tx)
                            ELSE AfterUpdates(s)
    PROVE  /\ FlagsOnly(s, u)
           /\ \A i \in Slot : PassSlot(s, s.cnl_add_htlc[i], u.cnl_add_htlc[i], cs)
<1> DEFINE v == AfterUpdates(s)
<1>1. v \in SelfType
  BY UpdatesType
<1>2. FlagsOnly(s, v) /\ (cs => FlagsOnly(v, u)) /\ (~cs => u = v)
  BY <1>1, UpdatesMap, SendMap
<1>3. FlagsOnly(s, u)
  BY <1>2 DEF FlagsOnly, SameSlots, LN_HTLC_EMPTY
<1>4. ASSUME NEW i \in Slot
      PROVE  PassSlot(s, s.cnl_add_htlc[i], u.cnl_add_htlc[i], cs)
  <2> DEFINE h == s.cnl_add_htlc[i]
             e == v.cnl_add_htlc[i]
             g == u.cnl_add_htlc[i]
  <2>1. h \in HtlcType /\ SlotOK(h)
    BY SlotHolds DEF EndOK
  <2>2. /\ e.delhtlc = h.delhtlc /\ e.comsend = h.comsend
        /\ e.revrecv = h.revrecv /\ e.comrecv = h.comrecv
        /\ e.revsend = h.revsend
        /\ e.updsend <=> h.updsend \/ i \in WillUpdate(s)
    BY UpdatesMap
  <2>3. cs => /\ g.delhtlc = e.delhtlc /\ g.updsend = e.updsend
              /\ g.revrecv = e.revrecv /\ g.comrecv = e.comrecv
              /\ g.revsend = e.revsend
              /\ g.comsend <=> e.comsend \/ InRemoteExchange(e)
    BY <1>1, SendMap
  <2>4. ~cs => g = e
    BY <1>2
  <2>5. /\ e.id = h.id /\ e.amount_msat = h.amount_msat /\ e.addhtlc = h.addhtlc
        /\ g.id = h.id /\ g.amount_msat = h.amount_msat /\ g.addhtlc = h.addhtlc
        /\ LN_HTLC_EMPTY(h) => g = h
    BY <1>2, <1>3 DEF FlagsOnly, SameSlots
  <2>6. i \in WillUpdate(s) <=>
          LN_HTLC_ENABLE(h) /\ (LN_HTLC_WILL_ADDHTLC(h) \/ LN_HTLC_WILL_DELHTLC(h))
    BY DEF WillUpdate, Enabled
  <2> HIDE DEF h, e, g, v
  <2>7. IsOffered(h) => e.updsend
    BY <2>1, <2>2, <2>6 DEF SlotOK, IsOffered, LN_HTLC_ENABLE, LN_HTLC_EMPTY, LN_HTLC_WILL_ADDHTLC
  <2>8. IsReceived(h) => (e.updsend <=> h.delhtlc # "NONE")
    BY <2>1, <2>2, <2>6 DEF SlotOK, IsReceived, LN_HTLC_ENABLE, LN_HTLC_EMPTY,
         LN_HTLC_WILL_ADDHTLC, LN_HTLC_WILL_DELHTLC
  <2>9. IsOffered(h) => InRemoteExchange(e)
    BY <2>5, <2>7 DEF IsOffered, InRemoteExchange, LN_HTLC_ENABLE, LN_HTLC_EMPTY,
         LN_HTLC_ENABLE_REMOTE_ADDHTLC_OFFER, LN_HTLC_ENABLE_REMOTE_DELHTLC_OFFER
  <2>10. IsReceived(h) => (InRemoteExchange(e) <=> e.updsend \/ h.comrecv)
    BY <2>1, <2>2, <2>5 DEF IsReceived, InRemoteExchange, LN_HTLC_ENABLE, LN_HTLC_EMPTY, SlotOK,
         LN_HTLC_ENABLE_REMOTE_ADDHTLC_RECV, LN_HTLC_ENABLE_REMOTE_DELHTLC_RECV,
         LN_HTLC_ENABLE_REMOTE_ADDHTLC_OFFER, LN_HTLC_ENABLE_REMOTE_DELHTLC_OFFER
  <2>11. IsOffered(h) => OfferedSent(h, g, cs)
    BY <2>2, <2>3, <2>4, <2>7, <2>9 DEF OfferedSent
  <2>12. IsReceived(h) => ReceivedSent(h, g, cs)
    BY <2>2, <2>3, <2>4, <2>8, <2>10 DEF ReceivedSent
  <2>13. h.addhtlc = "NONE" => ~InRemoteExchange(e) /\ (e.updsend <=> h.updsend)
    BY <2>2, <2>5, <2>6 DEF InRemoteExchange,
         LN_HTLC_ENABLE_REMOTE_ADDHTLC_RECV, LN_HTLC_ENABLE_REMOTE_DELHTLC_RECV,
         LN_HTLC_ENABLE_REMOTE_ADDHTLC_OFFER, LN_HTLC_ENABLE_REMOTE_DELHTLC_OFFER,
         LN_HTLC_WILL_ADDHTLC, LN_HTLC_WILL_DELHTLC
  <2>14. /\ g.delhtlc = h.delhtlc /\ g.revrecv = h.revrecv
         /\ g.comrecv = h.comrecv /\ g.revsend = h.revsend
         /\ h.updsend => g.updsend
         /\ h.addhtlc = "NONE" => (g.updsend <=> h.updsend) /\ (g.comsend <=> h.comsend)
    BY <2>2, <2>3, <2>4, <2>13
  <2>15. h.addhtlc \in {"NONE", "OFFER", "RECV"}
    BY <2>1 DEF HtlcType, AddHtlc
  <2>16. SlotOK(g)
    <3>1. CASE h.addhtlc = "NONE"
      BY <2>1, <2>5, <2>14, <3>1 DEF SlotOK, IsOffered, IsReceived, LN_HTLC_EMPTY
    <3>2. CASE IsOffered(h)
      BY <2>1, <2>5, <2>11, <2>14, <3>2 DEF SlotOK, IsOffered, IsReceived, LN_HTLC_EMPTY, OfferedSent
    <3>3. CASE IsReceived(h)
      BY <2>1, <2>5, <2>12, <2>14, <3>3 DEF SlotOK, IsOffered, IsReceived, LN_HTLC_EMPTY, ReceivedSent
    <3> QED BY <2>15, <3>1, <3>2, <3>3 DEF IsOffered, IsReceived
  <2> QED BY <2>11, <2>12, <2>14, <2>16 DEF PassSlot, h, g
<1> QED BY <1>3, <1>4

\* A pass: the updates and, if cs, the signature go out.
LEMMA PassFits ==
    ASSUME NEW s \in SelfType, NEW t \in SelfType,
           NEW a, NEW b \in Seq(Message), NEW ta, NEW tb,
           EndsFit(s, t, a, b, ta, tb),
           ~ComSiging(s), ~Signing(b), ~Acking(a), NEW cs \in BOOLEAN, NEW tx,
           NEW u, u = IF cs THEN AfterSendCommitmentSigned(AfterUpdates(s), tx)
                            ELSE AfterUpdates(s),
           NEW ms \in Seq(Message), UpdateView(s, ms), Signing(ms) <=> cs,
           NEW b2, b2 = IF tb = "run" THEN b \o ms ELSE b
    PROVE  EndsFit(u, t, a, b2, ta, tb)
<1> DEFINE h(i) == s.cnl_add_htlc[i]
           g(i) == u.cnl_add_htlc[i]
<1>1. /\ EndOK(s) /\ EndOK(t) /\ Tidy(a) /\ Tidy(b)
      /\ Pairing(s, t, a, b, ta, tb) /\ Pairing(t, s, b, a, tb, ta)
      /\ Undeleted(s, b) /\ Undeleted(t, a)
      /\ tb # "run" => b = <<>>
  BY DEF EndsFit
<1>2. FlagsOnly(s, u) /\ \A i \in Slot : PassSlot(s, h(i), g(i), cs)
  BY <1>1, PassSlots
<1>3. /\ SameSlots(s, u) /\ u.paid_out = s.paid_out /\ u.paid_in = s.paid_in
      /\ u.htlc_id_num = s.htlc_id_num
  BY <1>2 DEF FlagsOnly
<1>4. \A i \in Slot : h(i) \in HtlcType
  BY SlotHolds
<1>5. \A i \in Slot : h(i).comsend <=> h(i).revrecv
  BY DEF ComSiging
<1>6. EndOK(u)
  <2>1. \A i \in Slot : SlotOK(u.cnl_add_htlc[i])
    BY <1>2 DEF PassSlot
  <2> QED BY <1>1, <1>3, <2>1, EndMap
<1>7. PassSent(s, b, b2, ms, tb, cs)
  <2>1. tb = "run" => SendView(b, b2, ms)
    BY SendViews
  <2>2. tb # "run" => b2 = b /\ \A n : ~Adding(b, n) /\ NotDeleting(b, n)
    BY <1>1, EmptyView
  <2> QED BY <2>1, <2>2 DEF PassSent
<1>8. Pairing(u, t, a, b2, ta, tb)
  <2>1. \A i \in Slot : s.cnl_add_htlc[i].updsend => u.cnl_add_htlc[i].updsend
    BY <1>2 DEF PassSlot
  <2>2. \A i \in Slot : IsOffered(s.cnl_add_htlc[i]) =>
           /\ OfferedSent(s.cnl_add_htlc[i], u.cnl_add_htlc[i], cs)
           /\ s.cnl_add_htlc[i].comsend <=> s.cnl_add_htlc[i].revrecv
    BY <1>2, <1>5 DEF PassSlot
  <2> QED BY <1>1, <1>3, <1>7, <2>1, <2>2, OffererSends
<1>9. Pairing(t, u, b2, a, tb, ta)
  <2>1. \A i \in Slot : IsReceived(s.cnl_add_htlc[i]) =>
           /\ ReceivedSent(s.cnl_add_htlc[i], u.cnl_add_htlc[i], cs)
           /\ s.cnl_add_htlc[i].comsend <=> s.cnl_add_htlc[i].revrecv
    BY <1>2, <1>5 DEF PassSlot
  <2>2. \A i \in Slot : s.cnl_add_htlc[i] \in HtlcType
    BY <1>4
  <2> QED BY <1>1, <1>3, <1>7, <2>1, <2>2, ReceiverSends
<1>10. \A n : NotDeleting(b, n) \/ NotDeleting(ms, n)
  <2> SUFFICES ASSUME NEW n, NEW del \in Deletion, Deleting(ms, n, del)
               PROVE  NotDeleting(b, n)
    BY DEF NotDeleting
  <2>1. PICK i \in Slot : LN_HTLC_WILL_DELHTLC(h(i)) /\ h(i).id = n
    BY DEF UpdateView
  <2> QED BY <1>1, <2>1 DEF Undeleted, LN_HTLC_WILL_DELHTLC, IsReceived
<1>11. \A n : ~(Adding(b, n) /\ Adding(ms, n))
  <2> SUFFICES ASSUME NEW n, Adding(ms, n)
               PROVE  ~Adding(b, n)
    OBVIOUS
  <2>1. PICK i \in Slot : LN_HTLC_WILL_ADDHTLC(h(i)) /\ h(i).id = n
    BY DEF UpdateView
  <2>2. IsOwn(h(i)) /\ ~h(i).updsend
    BY <1>1, <2>1 DEF EndOK, SlotOK, IsOwn, LN_HTLC_WILL_ADDHTLC
  <2>3. Unheard(h(i).id, t, a, b)
    BY <1>1, <2>2 DEF Pairing, OffersFit
  <2> QED BY <2>1, <2>3 DEF Unheard
<1>12. Tidy(b2)
  <2>1. Tidy(ms) /\ ~Acking(ms)
    BY DEF UpdateView
  <2>2. Tidy(b \o ms)
    BY <1>1, <1>10, <1>11, <2>1, SentTidy
  <2> QED BY <1>1, <2>2
<1>13. Undeleted(u, b2)
  <2> SUFFICES ASSUME NEW j \in Slot, IsReceived(g(j)), ~g(j).updsend,
                      NEW del \in Deletion, Deleting(b2, g(j).id, del)
               PROVE  FALSE
    BY DEF Undeleted, NotDeleting
  <2>1. IsReceived(h(j)) /\ h(j).id = g(j).id
    BY <1>3 DEF SameSlots, IsReceived
  <2>2. ~h(j).updsend /\ h(j).delhtlc = "NONE"
    BY <1>2, <2>1 DEF PassSlot, ReceivedSent
  <2>3. ~Deleting(b, g(j).id, del)
    BY <1>1, <2>1, <2>2 DEF Undeleted, NotDeleting
  <2>4. Deleting(ms, g(j).id, del) /\ tb = "run"
    BY <1>7, <2>3 DEF PassSent, SendView
  <2>5. PICK i \in Slot : LN_HTLC_WILL_DELHTLC(h(i)) /\ h(i).id = g(j).id
    <3>1. \A n : Deleting(ms, n, del) =>
             \E i \in Slot : LN_HTLC_WILL_DELHTLC(h(i)) /\ h(i).id = n
      BY DEF UpdateView
    <3> QED BY <2>4, <3>1
  <2>6. i = j
    BY <1>1, <2>1, <2>5 DEF EndOK, LN_HTLC_WILL_DELHTLC, IsReceived
  <2> QED BY <2>2, <2>5, <2>6 DEF LN_HTLC_WILL_DELHTLC
<1>14. ta # "run" => a = <<>>
  BY DEF EndsFit
<1> QED BY <1>1, <1>6, <1>8, <1>9, <1>12, <1>13, <1>14 DEF EndsFit

----------------------------------------------------------------------------
(* commitment_signed and revoke_and_ack.                                   *)

\* What accepting a commitment_signed does to the flags.
LEMMA AcceptMap ==
    ASSUME NEW s \in SelfType, NEW tx
    PROVE  LET u == AfterCommitmentSigned(s, tx)
           IN  /\ FlagsOnly(s, u)
               /\ \A i \in Slot :
                     LET h == s.cnl_add_htlc[i]
                         g == u.cnl_add_htlc[i]
                     IN  /\ g.delhtlc = h.delhtlc /\ g.updsend = h.updsend
                         /\ g.comsend = h.comsend /\ g.revrecv = h.revrecv
                         /\ InLocalExchange(h) => g.comrecv = TRUE /\ g.revsend = TRUE
                         /\ ~InLocalExchange(h) => g.comrecv = h.comrecv /\ g.revsend = h.revsend
<1> DEFINE f == [i \in Slot |-> IF InLocalExchange(s.cnl_add_htlc[i])
                                THEN [s.cnl_add_htlc[i] EXCEPT !.comrecv = TRUE, !.revsend = TRUE]
                                ELSE s.cnl_add_htlc[i]]
           l == [ commit_num |-> s.commit_local.commit_num + 1,
                  revoke_num |-> s.commit_local.commit_num,
                  htlc_num |-> HtlcNum(tx),
                  signature |-> tx ]
           u == AfterCommitmentSigned(s, tx)
<1>1. \A i \in Slot : s.cnl_add_htlc[i] \in HtlcType
  BY SlotHolds
<1>2. ASSUME NEW i \in Slot
      PROVE  LET h == s.cnl_add_htlc[i]
                 g == f[i]
             IN  /\ g.id = h.id /\ g.amount_msat = h.amount_msat /\ g.addhtlc = h.addhtlc
                 /\ g.delhtlc = h.delhtlc /\ g.updsend = h.updsend
                 /\ g.comsend = h.comsend /\ g.revrecv = h.revrecv
                 /\ InLocalExchange(h) => g.comrecv = TRUE /\ g.revsend = TRUE
                 /\ ~InLocalExchange(h) => g.comrecv = h.comrecv /\ g.revsend = h.revsend
                 /\ LN_HTLC_EMPTY(h) => g = h
  <2> DEFINE h == s.cnl_add_htlc[i]
  <2>1. h \in HtlcType
    BY <1>1
  <2>2. f[i] = IF InLocalExchange(h) THEN [h EXCEPT !.comrecv = TRUE, !.revsend = TRUE] ELSE h
    OBVIOUS
  <2>3. LN_HTLC_EMPTY(h) => ~InLocalExchange(h)
    BY DEF InLocalExchange, LN_HTLC_ENABLE
  <2> HIDE DEF h, f
  <2>4. CASE InLocalExchange(h)
    <3> DEFINE g == [h EXCEPT !.comrecv = TRUE, !.revsend = TRUE]
    <3>1. /\ g.id = h.id /\ g.amount_msat = h.amount_msat /\ g.addhtlc = h.addhtlc
          /\ g.delhtlc = h.delhtlc /\ g.updsend = h.updsend
          /\ g.comsend = h.comsend /\ g.revrecv = h.revrecv
          /\ g.comrecv = TRUE /\ g.revsend = TRUE
      BY <2>1 DEF HtlcType
    <3>2. f[i] = g
      BY <2>2, <2>4
    <3> HIDE DEF g
    <3> QED BY <2>3, <2>4, <3>1, <3>2 DEF h
  <2>5. CASE ~InLocalExchange(h)
    BY <2>2, <2>5 DEF h
  <2> QED BY <2>4, <2>5
<1>3. u = [s EXCEPT !.cnl_add_htlc = f, !.commit_local = l]
  BY DEF AfterCommitmentSigned
<1> HIDE DEF f, u, l
<1>4. /\ u.cnl_add_htlc = f /\ u.paid_out = s.paid_out /\ u.paid_in = s.paid_in
      /\ u.htlc_id_num = s.htlc_id_num
  BY <1>3 DEF SelfType
<1> QED BY <1>2, <1>4 DEF FlagsOnly, SameSlots, u

\* What a revoke_and_ack does to the flags.
LEMMA AckMap ==
    ASSUME NEW s \in SelfType, NEW num
    PROVE  LET u == AfterRevokeAndAck(s, num)
           IN  /\ FlagsOnly(s, u)
               /\ \A i \in Slot :
                     LET h == s.cnl_add_htlc[i]
                         g == u.cnl_add_htlc[i]
                     IN  /\ g.delhtlc = h.delhtlc /\ g.updsend = h.updsend
                         /\ g.comsend = h.comsend /\ g.comrecv = h.comrecv
                         /\ g.revsend = h.revsend
                         /\ g.revrecv <=> h.revrecv \/ InRemoteExchange(h)
<1> DEFINE f == [i \in Slot |-> IF InRemoteExchange(s.cnl_add_htlc[i])
                                THEN [s.cnl_add_htlc[i] EXCEPT !.revrecv = TRUE]
                                ELSE s.cnl_add_htlc[i]]
           n == s.peer_storage \cup {num}
           r == [s.commit_remote EXCEPT !.revoke_num = s.commit_remote.commit_num - 1]
           u == AfterRevokeAndAck(s, num)
<1>1. \A i \in Slot : s.cnl_add_htlc[i] \in HtlcType
  BY SlotHolds
<1>2. ASSUME NEW i \in Slot
      PROVE  LET h == s.cnl_add_htlc[i]
                 g == f[i]
             IN  /\ g.id = h.id /\ g.amount_msat = h.amount_msat /\ g.addhtlc = h.addhtlc
                 /\ g.delhtlc = h.delhtlc /\ g.updsend = h.updsend
                 /\ g.comsend = h.comsend /\ g.comrecv = h.comrecv
                 /\ g.revsend = h.revsend
                 /\ g.revrecv <=> h.revrecv \/ InRemoteExchange(h)
                 /\ LN_HTLC_EMPTY(h) => g = h
  <2> DEFINE h == s.cnl_add_htlc[i]
  <2>1. h \in HtlcType
    BY <1>1
  <2>2. f[i] = IF InRemoteExchange(h) THEN [h EXCEPT !.revrecv = TRUE] ELSE h
    OBVIOUS
  <2>3. LN_HTLC_EMPTY(h) => ~InRemoteExchange(h)
    BY DEF InRemoteExchange, LN_HTLC_ENABLE
  <2> HIDE DEF h, f
  <2>4. CASE InRemoteExchange(h)
    <3> DEFINE g == [h EXCEPT !.revrecv = TRUE]
    <3>1. /\ g.id = h.id /\ g.amount_msat = h.amount_msat /\ g.addhtlc = h.addhtlc
          /\ g.delhtlc = h.delhtlc /\ g.updsend = h.updsend
          /\ g.comsend = h.comsend /\ g.comrecv = h.comrecv
          /\ g.revsend = h.revsend /\ g.revrecv
      BY <2>1 DEF HtlcType
    <3>2. f[i] = g
      BY <2>2, <2>4
    <3> HIDE DEF g
    <3> QED BY <2>3, <2>4, <3>1, <3>2 DEF h
  <2>5. CASE ~InRemoteExchange(h)
    BY <2>2, <2>5 DEF h
  <2> QED BY <2>4, <2>5
<1>3. u = [s EXCEPT !.cnl_add_htlc = f, !.peer_storage = n, !.commit_remote = r]
  BY DEF AfterRevokeAndAck
<1> HIDE DEF f, u, n, r
<1>4. /\ u.cnl_add_htlc = f /\ u.paid_out = s.paid_out /\ u.paid_in = s.paid_in
      /\ u.htlc_id_num = s.htlc_id_num
  BY <1>3 DEF SelfType
<1> QED BY <1>2, <1>4 DEF FlagsOnly, SameSlots, u

\* The flags a new local commitment sets.
LEMMA AcceptSlots ==
    ASSUME NEW s \in SelfType, EndOK(s), NEW tx, NEW i \in Slot
    PROVE  LET h == s.cnl_add_htlc[i]
               g == AfterCommitmentSigned(s, tx).cnl_add_htlc[i]
           IN  /\ SlotOK(g) /\ g.updsend = h.updsend
               /\ IsOffered(h) => OfferedAccepted(h, g)
               /\ IsReceived(h) => ReceivedAccepted(h, g)
<1> DEFINE h == s.cnl_add_htlc[i]
           g == AfterCommitmentSigned(s, tx).cnl_add_htlc[i]
<1>1. h \in HtlcType /\ SlotOK(h)
  BY SlotHolds DEF EndOK
<1>2. /\ g.delhtlc = h.delhtlc /\ g.updsend = h.updsend
      /\ g.comsend = h.comsend /\ g.revrecv = h.revrecv
      /\ InLocalExchange(h) => g.comrecv = TRUE /\ g.revsend = TRUE
      /\ ~InLocalExchange(h) => g.comrecv = h.comrecv /\ g.revsend = h.revsend
  BY AcceptMap
<1>3. /\ g.id = h.id /\ g.amount_msat = h.amount_msat /\ g.addhtlc = h.addhtlc
      /\ LN_HTLC_EMPTY(h) => g = h
  <2>1. FlagsOnly(s, AfterCommitmentSigned(s, tx))
    BY AcceptMap
  <2> QED BY <2>1 DEF FlagsOnly, SameSlots
<1> HIDE DEF h, g
<1>4. g.comrecv = g.revsend
  BY <1>1, <1>2 DEF SlotOK
<1>5. IsOffered(h) =>
        (InLocalExchange(h) <=> h.delhtlc # "NONE" \/ (h.updsend /\ h.comsend /\ h.revrecv))
  BY DEF IsOffered, InLocalExchange, LN_HTLC_ENABLE, LN_HTLC_EMPTY,
       LN_HTLC_ENABLE_LOCAL_ADDHTLC_OFFER, LN_HTLC_ENABLE_LOCAL_ADDHTLC_RECV,
       LN_HTLC_ENABLE_LOCAL_DELHTLC_OFFER, LN_HTLC_ENABLE_LOCAL_DELHTLC_RECV
<1>6. IsReceived(h) => InLocalExchange(h)
  BY <1>1 DEF SlotOK, IsReceived, InLocalExchange, LN_HTLC_ENABLE, LN_HTLC_EMPTY,
       LN_HTLC_ENABLE_LOCAL_ADDHTLC_RECV, LN_HTLC_ENABLE_LOCAL_DELHTLC_RECV
<1>7. h.addhtlc = "NONE" => ~InLocalExchange(h)
  BY DEF InLocalExchange,
       LN_HTLC_ENABLE_LOCAL_ADDHTLC_OFFER, LN_HTLC_ENABLE_LOCAL_ADDHTLC_RECV,
       LN_HTLC_ENABLE_LOCAL_DELHTLC_OFFER, LN_HTLC_ENABLE_LOCAL_DELHTLC_RECV
<1>8. IsOffered(h) => OfferedAccepted(h, g)
  BY <1>2, <1>4, <1>5 DEF OfferedAccepted
<1>9. IsReceived(h) => ReceivedAccepted(h, g)
  BY <1>2, <1>6 DEF ReceivedAccepted
<1>10. h.addhtlc \in {"NONE", "OFFER", "RECV"}
  BY <1>1 DEF HtlcType, AddHtlc
<1>11. SlotOK(g)
  <2>1. CASE h.addhtlc = "NONE"
    BY <1>1, <1>2, <1>3, <1>4, <1>7, <2>1 DEF SlotOK, IsOffered, IsReceived, LN_HTLC_EMPTY
  <2>2. CASE IsOffered(h)
    BY <1>1, <1>2, <1>3, <1>4, <1>8, <2>2
    DEF SlotOK, IsOffered, IsReceived, LN_HTLC_EMPTY, OfferedAccepted
  <2>3. CASE IsReceived(h)
    BY <1>1, <1>2, <1>3, <1>4, <2>3 DEF SlotOK, IsOffered, IsReceived, LN_HTLC_EMPTY
  <2> QED BY <1>10, <2>1, <2>2, <2>3 DEF IsOffered, IsReceived
<1> QED BY <1>2, <1>8, <1>9, <1>11 DEF h, g

\* The flags a revocation sets.
LEMMA AckSlots ==
    ASSUME NEW s \in SelfType, EndOK(s), NEW num, NEW i \in Slot
    PROVE  LET h == s.cnl_add_htlc[i]
               g == AfterRevokeAndAck(s, num).cnl_add_htlc[i]
           IN  /\ SlotOK(g) /\ g.updsend = h.updsend
               /\ IsOffered(h) => OfferedAcked(h, g)
               /\ IsReceived(h) => ReceivedAcked(h, g)
<1> DEFINE h == s.cnl_add_htlc[i]
           g == AfterRevokeAndAck(s, num).cnl_add_htlc[i]
<1>1. h \in HtlcType /\ SlotOK(h)
  BY SlotHolds DEF EndOK
<1>2. /\ g.delhtlc = h.delhtlc /\ g.updsend = h.updsend
      /\ g.comsend = h.comsend /\ g.comrecv = h.comrecv
      /\ g.revsend = h.revsend
      /\ g.revrecv <=> h.revrecv \/ InRemoteExchange(h)
  BY AckMap
<1>3. /\ g.id = h.id /\ g.amount_msat = h.amount_msat /\ g.addhtlc = h.addhtlc
      /\ LN_HTLC_EMPTY(h) => g = h
  <2>1. FlagsOnly(s, AfterRevokeAndAck(s, num))
    BY AckMap
  <2> QED BY <2>1 DEF FlagsOnly, SameSlots
<1> HIDE DEF h, g
<1>5. IsOffered(h) => (InRemoteExchange(h) <=> h.updsend)
  BY <1>1 DEF SlotOK, IsOffered, InRemoteExchange, LN_HTLC_ENABLE, LN_HTLC_EMPTY,
       LN_HTLC_ENABLE_REMOTE_ADDHTLC_OFFER, LN_HTLC_ENABLE_REMOTE_DELHTLC_OFFER,
       LN_HTLC_ENABLE_REMOTE_ADDHTLC_RECV, LN_HTLC_ENABLE_REMOTE_DELHTLC_RECV
<1>6. IsReceived(h) => (InRemoteExchange(h) <=> h.updsend \/ h.comrecv)
  BY <1>1 DEF SlotOK, IsReceived, InRemoteExchange, LN_HTLC_ENABLE, LN_HTLC_EMPTY,
       LN_HTLC_ENABLE_REMOTE_ADDHTLC_OFFER, LN_HTLC_ENABLE_REMOTE_DELHTLC_OFFER,
       LN_HTLC_ENABLE_REMOTE_ADDHTLC_RECV, LN_HTLC_ENABLE_REMOTE_DELHTLC_RECV
<1>7. h.addhtlc = "NONE" => ~InRemoteExchange(h)
  BY DEF InRemoteExchange,
       LN_HTLC_ENABLE_REMOTE_ADDHTLC_OFFER, LN_HTLC_ENABLE_REMOTE_DELHTLC_OFFER,
       LN_HTLC_ENABLE_REMOTE_ADDHTLC_RECV, LN_HTLC_ENABLE_REMOTE_DELHTLC_RECV
<1>8. IsOffered(h) => OfferedAcked(h, g)
  BY <1>2, <1>5 DEF OfferedAcked
<1>9. IsReceived(h) => ReceivedAcked(h, g)
  BY <1>2, <1>6 DEF ReceivedAcked
<1>10. h.addhtlc \in {"NONE", "OFFER", "RECV"}
  BY <1>1 DEF HtlcType, AddHtlc
<1>11. SlotOK(g)
  <2>1. CASE h.addhtlc = "NONE"
    BY <1>1, <1>2, <1>3, <1>7, <2>1 DEF SlotOK, IsOffered, IsReceived, LN_HTLC_EMPTY
  <2>2. CASE IsOffered(h)
    BY <1>1, <1>2, <1>3, <1>8, <2>2
    DEF SlotOK, IsOffered, IsReceived, LN_HTLC_EMPTY, OfferedAcked
  <2>3. CASE IsReceived(h)
    BY <1>1, <1>2, <1>3, <2>3 DEF SlotOK, IsOffered, IsReceived, LN_HTLC_EMPTY
  <2> QED BY <1>10, <2>1, <2>2, <2>3 DEF IsOffered, IsReceived
<1> QED BY <1>2, <1>8, <1>9, <1>11 DEF h, g

\* A message is read: no deletion appears in the stream.
LEMMA ReadUndeleted ==
    ASSUME NEW R, NEW q, NEW r, NEW m, Undeleted(R, q), ReadView(q, r, m)
    PROVE  Undeleted(R, r)
<1>1. \A n : NotDeleting(q, n) => NotDeleting(r, n)
  BY DEF ReadView, NotDeleting
<1> QED BY <1>1 DEF Undeleted

\* recv_commitment_signed.
LEMMA AcceptFits ==
    ASSUME NEW s \in SelfType, NEW t \in SelfType,
           NEW a \in Seq(Message), NEW b \in Seq(Message), NEW ta, NEW tb,
           EndsFit(s, t, a, b, ta, tb), ta = "run",
           a # <<>>, Head(a).type = "commitment_signed", ~Acking(b), NEW tx,
           NEW m \in Message, m.type = "revoke_and_ack",
           NEW b2, b2 = IF tb = "run" THEN b \o <<m>> ELSE b
    PROVE  EndsFit(AfterCommitmentSigned(s, tx), t, Tail(a), b2, ta, tb)
<1> DEFINE u == AfterCommitmentSigned(s, tx)
           a2 == Tail(a)
           c == Head(a)
<1>1. /\ EndOK(s) /\ EndOK(t) /\ Tidy(a) /\ Tidy(b)
      /\ Pairing(s, t, a, b, ta, tb) /\ Pairing(t, s, b, a, tb, ta)
      /\ Undeleted(s, b) /\ Undeleted(t, a)
      /\ tb # "run" => b = <<>>
  BY DEF EndsFit
<1>2. FlagsOnly(s, u)
  BY AcceptMap
<1>3. /\ SameSlots(s, u) /\ u.paid_out = s.paid_out /\ u.paid_in = s.paid_in
      /\ u.htlc_id_num = s.htlc_id_num
  BY <1>2 DEF FlagsOnly
<1>4. \A i \in Slot :
         /\ SlotOK(u.cnl_add_htlc[i])
         /\ s.cnl_add_htlc[i].updsend = u.cnl_add_htlc[i].updsend
         /\ IsOffered(s.cnl_add_htlc[i]) =>
               OfferedAccepted(s.cnl_add_htlc[i], u.cnl_add_htlc[i])
         /\ IsReceived(s.cnl_add_htlc[i]) =>
               ReceivedAccepted(s.cnl_add_htlc[i], u.cnl_add_htlc[i])
  BY <1>1, AcceptSlots
<1>5. ReadView(a, a2, c) /\ c.type = "commitment_signed"
  BY <1>1, ReadViews
<1> HIDE DEF u, a2, c
<1>6. <<m>> \in Seq(Message)
  OBVIOUS
<1> DEFINE ms == <<m>>
<1>7. /\ Tidy(ms) /\ \A n : ~Adding(ms, n) /\ NotDeleting(ms, n)
      /\ \A x : ~AddingRef(ms, x)
      /\ \A n : \A del \in Deletion : ~Deleting(ms, n, del)
      /\ ~Signing(ms) /\ Acking(ms)
  <2>1. m.type \notin UpdateType /\ m.type # "update_add_htlc" /\ m.type # "commitment_signed"
    BY DEF UpdateType
  <2> QED BY <2>1, OneMessage
<1>8. SendView(b, b \o ms, ms)
  BY <1>6, SendViews
<1>9. Tidy(b \o ms)
  BY <1>1, <1>6, <1>7, SentTidy
<1>10. b2 = IF tb = "run" THEN b \o ms ELSE b
  OBVIOUS
<1> HIDE DEF ms
<1>11. AckSent(b, b2, tb)
  BY <1>7, <1>8, <1>10 DEF AckSent, SendView
<1>12. Tidy(b2) /\ (tb # "run" => b2 = <<>>)
  BY <1>1, <1>9, <1>10
<1>13. EndOK(u)
  BY <1>1, <1>3, <1>4, EndMap
<1>14. Pairing(u, t, a2, b2, ta, tb)
  BY <1>1, <1>3, <1>4, <1>5, <1>11, OffererAccepts
<1>15. Pairing(t, u, b2, a2, tb, ta)
  BY <1>1, <1>3, <1>4, <1>5, <1>11, ReceiverAccepts
<1>16. Undeleted(t, a2)
  BY <1>1, <1>5, ReadUndeleted
<1>17. Undeleted(u, b2)
  <2>1. \A n : NotDeleting(b, n) => NotDeleting(b2, n)
    BY <1>11 DEF AckSent, NotDeleting
  <2>2. \A j \in Slot :
              IsReceived(u.cnl_add_htlc[j]) /\ ~u.cnl_add_htlc[j].updsend =>
                 /\ IsReceived(s.cnl_add_htlc[j]) /\ ~s.cnl_add_htlc[j].updsend
                 /\ u.cnl_add_htlc[j].id = s.cnl_add_htlc[j].id
    BY <1>3, <1>4 DEF SameSlots, IsReceived
  <2> QED BY <1>1, <2>1, <2>2, UndeletedKept
<1>18. Tidy(a2)
  BY <1>5 DEF ReadView
<1> QED BY <1>1, <1>12, <1>13, <1>14, <1>15, <1>16, <1>17, <1>18 DEF EndsFit, u, a2

\* recv_revoke_and_ack.
LEMMA AckFits ==
    ASSUME NEW s \in SelfType, NEW t \in SelfType,
           NEW a \in Seq(Message), NEW b, NEW ta, NEW tb,
           EndsFit(s, t, a, b, ta, tb), ta = "run",
           a # <<>>, Head(a).type = "revoke_and_ack", NEW num
    PROVE  EndsFit(AfterRevokeAndAck(s, num), t, Tail(a), b, ta, tb)
<1> DEFINE u == AfterRevokeAndAck(s, num)
           a2 == Tail(a)
           c == Head(a)
<1>1. /\ EndOK(s) /\ EndOK(t) /\ Tidy(a) /\ Tidy(b)
      /\ Pairing(s, t, a, b, ta, tb) /\ Pairing(t, s, b, a, tb, ta)
      /\ Undeleted(s, b) /\ Undeleted(t, a)
      /\ tb # "run" => b = <<>>
  BY DEF EndsFit
<1>2. FlagsOnly(s, u)
  BY AckMap
<1>3. /\ SameSlots(s, u) /\ u.paid_out = s.paid_out /\ u.paid_in = s.paid_in
      /\ u.htlc_id_num = s.htlc_id_num
  BY <1>2 DEF FlagsOnly
<1>4. \A i \in Slot :
         /\ SlotOK(u.cnl_add_htlc[i])
         /\ s.cnl_add_htlc[i].updsend = u.cnl_add_htlc[i].updsend
         /\ IsOffered(s.cnl_add_htlc[i]) =>
               OfferedAcked(s.cnl_add_htlc[i], u.cnl_add_htlc[i])
         /\ IsReceived(s.cnl_add_htlc[i]) =>
               ReceivedAcked(s.cnl_add_htlc[i], u.cnl_add_htlc[i])
  BY <1>1, AckSlots
<1>5. ReadView(a, a2, c) /\ c.type = "revoke_and_ack"
  BY <1>1, ReadViews
<1> HIDE DEF u, a2, c
<1>6. EndOK(u)
  BY <1>1, <1>3, <1>4, EndMap
<1>7. Pairing(u, t, a2, b, ta, tb)
  BY <1>1, <1>3, <1>4, <1>5, OffererAcked
<1>8. Pairing(t, u, b, a2, tb, ta)
  BY <1>1, <1>3, <1>4, <1>5, ReceiverAcked
<1>9. Undeleted(t, a2)
  BY <1>1, <1>5, ReadUndeleted
<1>10. Undeleted(u, b)
  <2>1. \A j \in Slot :
              IsReceived(u.cnl_add_htlc[j]) /\ ~u.cnl_add_htlc[j].updsend =>
                 /\ IsReceived(s.cnl_add_htlc[j]) /\ ~s.cnl_add_htlc[j].updsend
                 /\ u.cnl_add_htlc[j].id = s.cnl_add_htlc[j].id
    BY <1>3, <1>4 DEF SameSlots, IsReceived
  <2> QED BY <1>1, <2>1, UndeletedKept
<1>11. Tidy(a2)
  BY <1>5 DEF ReadView
<1> QED BY <1>1, <1>6, <1>7, <1>8, <1>9, <1>10, <1>11 DEF EndsFit, u, a2

----------------------------------------------------------------------------
(* Updates that arrive.                                                    *)

\* The slot of an HTLC that has just been received.
LEMMA AcceptedSlot ==
    ASSUME NEW m, NEW fate \in Fates
    PROVE  LET g == AcceptedHtlc(EmptyHtlc, m, fate)
           IN  /\ g.id = m.id /\ g.amount_msat = m.amount_msat /\ g.addhtlc = "RECV"
               /\ ~g.updsend /\ ~g.comsend /\ ~g.revrecv /\ ~g.comrecv /\ g.comrecv = g.revsend
               /\ g.delhtlc = "NONE" \/ (Doomable /\ g.delhtlc = "FAIL")
<1>1. EmptyHtlc \in HtlcType
  BY DEF EmptyHtlc, HtlcType, AddHtlc, DelHtlc
<1>2. /\ ~EmptyHtlc.updsend /\ ~EmptyHtlc.comsend /\ ~EmptyHtlc.revrecv /\ ~EmptyHtlc.comrecv
      /\ EmptyHtlc.comrecv = EmptyHtlc.revsend /\ EmptyHtlc.delhtlc = "NONE"
  BY DEF EmptyHtlc
<1> DEFINE e == EmptyHtlc
           d == IF fate = "NEXT_SHUTDOWN" THEN "FAIL" ELSE e.delhtlc
           f == CASE fate = "FORWARD" -> e.fin_delhtlc
                  [] fate = "NEXT_SHUTDOWN" -> "FAIL"
                  [] OTHER -> fate
           x == (fate = "FORWARD")
           g == [e EXCEPT !.id = m.id, !.amount_msat = m.amount_msat, !.addhtlc = "RECV",
                          !.delhtlc = d, !.fin_delhtlc = f, !.next = x]
<1>3. AcceptedHtlc(EmptyHtlc, m, fate) = g
  BY DEF AcceptedHtlc
<1>4. d = "NONE" \/ (Doomable /\ d = "FAIL")
  BY <1>2 DEF Doomable
<1>5. e \in HtlcType /\ ~e.updsend /\ ~e.comsend /\ ~e.revrecv /\ ~e.comrecv /\ e.comrecv = e.revsend
  BY <1>1, <1>2
<1> HIDE DEF e, d, f, x
<1>6. /\ g.id = m.id /\ g.amount_msat = m.amount_msat /\ g.addhtlc = "RECV"
      /\ g.updsend = e.updsend /\ g.comsend = e.comsend /\ g.revrecv = e.revrecv
      /\ g.comrecv = e.comrecv /\ g.revsend = e.revsend /\ g.delhtlc = d
  BY <1>5 DEF HtlcType
<1> HIDE DEF g
<1> QED BY <1>3, <1>4, <1>5, <1>6

\* recv_update_add_htlc puts one slot.
LEMMA AcceptPut ==
    ASSUME NEW s \in SelfType, NEW i \in Slot, NEW m, NEW fate
    PROVE  /\ SlotPut(s, AcceptAddHtlc(s, i, m, fate), i,
                      AcceptedHtlc(s.cnl_add_htlc[i], m, fate))
           /\ AcceptAddHtlc(s, i, m, fate).htlc_id_num = s.htlc_id_num
<1> DEFINE g == AcceptedHtlc(s.cnl_add_htlc[i], m, fate)
<1>1. AcceptAddHtlc(s, i, m, fate) = [s EXCEPT !.cnl_add_htlc[i] = g]
  BY DEF AcceptAddHtlc
<1> HIDE DEF g
<1>2. /\ SlotPut(s, AcceptAddHtlc(s, i, m, fate), i, g)
      /\ AcceptAddHtlc(s, i, m, fate).htlc_id_num = s.htlc_id_num
  BY <1>1 DEF SelfType, SlotPut
<1> QED BY <1>2 DEF g

\* recv_update_add_htlc.
LEMMA AddFits ==
    ASSUME NEW s \in SelfType, NEW t \in SelfType,
           NEW a \in Seq(Message), NEW b \in Seq(Message), NEW ta, NEW tb,
           EndsFit(s, t, a, b, ta, tb), ta = "run",
           a # <<>>, Head(a).type = "update_add_htlc",
           NEW i \in Slot, FreeSlot(s, i), NEW fate \in Fates
    PROVE  EndsFit(AcceptAddHtlc(s, i, Head(a), fate), t, Tail(a), b, ta, tb)
<1> DEFINE m == Head(a)
           u == AcceptAddHtlc(s, i, m, fate)
           a2 == Tail(a)
           h == AcceptedHtlc(EmptyHtlc, m, fate)
<1>1. /\ EndOK(s) /\ EndOK(t) /\ Tidy(a) /\ Tidy(b)
      /\ Pairing(s, t, a, b, ta, tb) /\ Pairing(t, s, b, a, tb, ta)
      /\ Undeleted(s, b) /\ Undeleted(t, a)
      /\ tb # "run" => b = <<>>
  BY DEF EndsFit
<1>2. s.cnl_add_htlc[i] = EmptyHtlc
  BY <1>1 DEF EndOK, SlotOK, FreeSlot
<1>3. SlotPut(s, u, i, h) /\ u.htlc_id_num = s.htlc_id_num
  <2> HIDE DEF m
  <2>1. /\ SlotPut(s, u, i, AcceptedHtlc(s.cnl_add_htlc[i], m, fate))
        /\ u.htlc_id_num = s.htlc_id_num
    BY AcceptPut
  <2> QED BY <1>2, <2>1
<1>4. ReadView(a, a2, m) /\ m.type = "update_add_htlc"
  BY <1>1, ReadViews
<1>5. /\ h.id = m.id /\ h.amount_msat = m.amount_msat /\ h.addhtlc = "RECV"
      /\ ~h.updsend /\ ~h.comsend /\ ~h.revrecv /\ ~h.comrecv /\ h.comrecv = h.revsend
      /\ h.delhtlc = "NONE" \/ (Doomable /\ h.delhtlc = "FAIL")
  BY AcceptedSlot
<1> HIDE DEF m, u, a2, h
<1>6. Adding(a, m.id)
  BY <1>4 DEF ReadView
<1>7. PICK k \in Slot : IsOffered(t.cnl_add_htlc[k]) /\ t.cnl_add_htlc[k].id = m.id
  BY <1>1, <1>6 DEF Pairing, UpdatesFit
<1>8. AddSent(t.cnl_add_htlc[k], b, a)
  BY <1>1, <1>6, <1>7 DEF Pairing, OffersFit
<1>9. m.amount_msat # 0 /\ NotDeleting(b, m.id)
  <2>1. AddingRef(a, Ref(t.cnl_add_htlc[k])) /\ NotDeleting(b, m.id)
    BY <1>7, <1>8 DEF AddSent
  <2>2. Ref(t.cnl_add_htlc[k]).id = m.id
    BY <1>7 DEF Ref
  <2>3. Ref(t.cnl_add_htlc[k]).amount_msat = m.amount_msat
    BY <1>4, <2>1, <2>2 DEF ReadView
  <2>4. t.cnl_add_htlc[k].amount_msat = m.amount_msat
    BY <2>3 DEF Ref
  <2>5. t.cnl_add_htlc[k].amount_msat # 0
    BY <1>1, <1>7 DEF EndOK, SlotOK, IsOffered
  <2> QED BY <2>1, <2>4, <2>5
<1>10. SlotOK(h) /\ IsReceived(h) /\ ~IsOwn(h)
  <2>1. SlotOK(h)
    BY <1>5, <1>9 DEF SlotOK, LN_HTLC_EMPTY, IsOffered, IsReceived
  <2> QED BY <1>5, <2>1 DEF IsReceived, IsOwn
<1>11. ~IsOwn(s.cnl_add_htlc[i]) /\ ~IsReceived(s.cnl_add_htlc[i])
  BY <1>2 DEF EmptyHtlc, IsOwn, IsReceived
<1>12. EndOK(u)
  <2>1. \A x \in s.paid_in : x.id # h.id
    BY <1>1, <1>5, <1>6 DEF Pairing, UpdatesFit
  <2>2. \A j \in Slot \ {i} : IsReceived(s.cnl_add_htlc[j]) => s.cnl_add_htlc[j].id # h.id
    BY <1>1, <1>5, <1>6 DEF Pairing, ReceivedFit
  <2>3. s.htlc_id_num \in Nat /\ s.htlc_id_num >= s.htlc_id_num
    BY DEF SelfType
  <2> QED BY <1>1, <1>3, <1>10, <2>1, <2>2, <2>3, EndPut
<1>13. ReceivedAdded(s, u, m, i)
  <2>1. \A j \in Slot \ {i} : SameHtlc(s.cnl_add_htlc[j], u.cnl_add_htlc[j])
    BY <1>3 DEF SlotPut, SameHtlc
  <2>2. u.cnl_add_htlc[i] = h /\ u.paid_in = s.paid_in
    BY <1>3 DEF SlotPut
  <2> QED BY <1>5, <1>10, <1>11, <2>1, <2>2 DEF ReceivedAdded
<1>14. Pairing(t, u, b, a2, tb, ta)
  BY <1>1, <1>4, <1>13, ReceiverAdds
<1>15. SameOffers(s, u)
  BY <1>3, <1>10, <1>11, PutNotOwn
<1>16. SameToOfferer(a, a2)
  <2>1. m.type \notin UpdateType /\ m.type \notin Exchange
    BY <1>4 DEF UpdateType, Exchange
  <2> QED BY <1>4, <2>1 DEF ReadView, SameToOfferer, Exchange
<1>17. Pairing(u, t, a2, b, ta, tb)
  <2>1. \A j \in Slot : SlotOK(s.cnl_add_htlc[j]) /\ SlotOK(u.cnl_add_htlc[j])
    BY <1>1, <1>12 DEF EndOK
  <2>2. SameReceived(t, t) /\ SameToReceiver(b, b)
    BY NothingNew
  <2> QED BY <1>1, <1>15, <1>16, <2>1, <2>2, SamePairing
<1>18. Undeleted(u, b)
  <2>1. \A j \in Slot \ {i} : u.cnl_add_htlc[j] = s.cnl_add_htlc[j]
    BY <1>3 DEF SlotPut
  <2>2. u.cnl_add_htlc[i].id = m.id
    BY <1>3, <1>5 DEF SlotPut
  <2> QED BY <1>1, <1>9, <2>1, <2>2 DEF Undeleted
<1>19. Undeleted(t, a2)
  BY <1>1, <1>4, ReadUndeleted
<1>20. Tidy(a2)
  BY <1>4 DEF ReadView
<1> QED BY <1>1, <1>12, <1>14, <1>17, <1>18, <1>19, <1>20 DEF EndsFit, u, a2, m

\* What a deletion does to the slots of the offerer.
LEMMA DelMap ==
    ASSUME NEW s \in SelfType, EndOK(s), NEW n, NEW del \in Deletion
    PROVE  LET u == DelOffered(s, n, del)
           IN  /\ FlagsOnly(s, u)
               /\ \A i \in Slot :
                     LET h == s.cnl_add_htlc[i]
                         g == u.cnl_add_htlc[i]
                     IN  /\ SlotOK(g) /\ g.updsend = h.updsend
                         /\ IsOffered(h) => DelArrived(h, g, n, del)
                         /\ ~IsOffered(h) => g = h
<1> DEFINE f == [i \in Slot |-> IF OfferedSlot(s, n, i)
                                THEN clear_htlc_comrevflag(s.cnl_add_htlc[i], del)
                                ELSE s.cnl_add_htlc[i]]
           u == DelOffered(s, n, del)
<1>1. u = [s EXCEPT !.cnl_add_htlc = f]
  BY DEF DelOffered
<1>2. \A i \in Slot : OfferedSlot(s, n, i) <=> IsOffered(s.cnl_add_htlc[i]) /\ s.cnl_add_htlc[i].id = n
  <2> TAKE i \in Slot
  <2>1. OfferedSlot(s, n, i) => IsOffered(s.cnl_add_htlc[i]) /\ s.cnl_add_htlc[i].id = n
    BY DEF OfferedSlot, IsOffered
  <2>2. ASSUME IsOffered(s.cnl_add_htlc[i]), s.cnl_add_htlc[i].id = n
        PROVE  OfferedSlot(s, n, i)
    <3>1. \A j \in Slot : IsOffered(s.cnl_add_htlc[j]) => IsOwn(s.cnl_add_htlc[j])
      BY DEF EndOK, SlotOK, IsOffered, IsOwn
    <3>2. \A j \in Slot : IsOffered(s.cnl_add_htlc[j]) /\ s.cnl_add_htlc[j].id = n => j = i
      BY <2>2, <3>1 DEF EndOK
    <3>3. \A j \in 0 .. i - 1 : j \in Slot /\ j # i
      BY HtlcMaxAssumption DEF Slot
    <3> QED BY <2>2, <3>2, <3>3 DEF OfferedSlot, IsOffered
  <2> QED BY <2>1, <2>2
<1>3. ASSUME NEW i \in Slot
      PROVE  LET h == s.cnl_add_htlc[i]
                 g == f[i]
             IN  /\ SlotOK(g) /\ g.updsend = h.updsend
                 /\ g.id = h.id /\ g.amount_msat = h.amount_msat /\ g.addhtlc = h.addhtlc
                 /\ IsOffered(h) => DelArrived(h, g, n, del)
                 /\ ~IsOffered(h) => g = h
  <2> DEFINE h == s.cnl_add_htlc[i]
  <2>1. h \in HtlcType /\ SlotOK(h)
    BY SlotHolds DEF EndOK
  <2>2. f[i] = IF IsOffered(h) /\ h.id = n THEN clear_htlc_comrevflag(h, del) ELSE h
    BY <1>2
  <2> HIDE DEF h, f
  <2>3. CASE IsOffered(h) /\ h.id = n /\ Exchanged(h)
    <3> DEFINE g == [h EXCEPT !.delhtlc = del, !.comsend = FALSE, !.revrecv = FALSE,
                              !.comrecv = FALSE, !.revsend = FALSE]
    <3>1. /\ g.id = h.id /\ g.amount_msat = h.amount_msat /\ g.addhtlc = h.addhtlc
          /\ g.delhtlc = del /\ g.updsend = h.updsend
          /\ ~g.comsend /\ ~g.revrecv /\ ~g.comrecv /\ ~g.revsend /\ g.comrecv = g.revsend
      BY <2>1 DEF HtlcType
    <3>2. f[i] = g
      BY <2>2, <2>3 DEF clear_htlc_comrevflag
    <3> HIDE DEF g
    <3>3. DelArrived(h, g, n, del)
      BY <2>3, <3>1 DEF DelArrived
    <3>4. h.updsend /\ h.amount_msat # 0 /\ h.addhtlc = "OFFER"
      BY <2>1, <2>3 DEF SlotOK, IsOffered, Exchanged
    <3>5. SlotOK(g)
      BY <3>1, <3>4 DEF SlotOK, IsOffered, IsReceived, LN_HTLC_EMPTY
    <3> QED BY <2>3, <3>1, <3>2, <3>3, <3>5 DEF h
  <2>4. CASE ~(IsOffered(h) /\ h.id = n /\ Exchanged(h))
    <3>1. f[i] = h
      BY <2>2, <2>4 DEF clear_htlc_comrevflag
    <3>2. IsOffered(h) => DelArrived(h, h, n, del)
      BY <2>4 DEF DelArrived, SameHtlc
    <3> QED BY <2>1, <3>1, <3>2 DEF h
  <2> QED BY <2>3, <2>4
<1> HIDE DEF f, u
<1>4. /\ u.cnl_add_htlc = f /\ u.paid_out = s.paid_out /\ u.paid_in = s.paid_in
      /\ u.htlc_id_num = s.htlc_id_num
  BY <1>1 DEF SelfType
<1>5. \A i \in Slot : LN_HTLC_EMPTY(s.cnl_add_htlc[i]) => ~IsOffered(s.cnl_add_htlc[i])
  BY DEF LN_HTLC_EMPTY, IsOffered
<1> QED BY <1>3, <1>4, <1>5 DEF FlagsOnly, SameSlots, u

\* recv_update_fulfill_htlc, recv_update_fail_htlc, recv_update_fail_malformed_htlc.
LEMMA DelFits ==
    ASSUME NEW s \in SelfType, NEW t \in SelfType,
           NEW a \in Seq(Message), NEW b, NEW ta, NEW tb,
           EndsFit(s, t, a, b, ta, tb), ta = "run", NEW del \in Deletion,
           a # <<>>, Head(a).type = DelType(del)
    PROVE  EndsFit(DelOffered(s, Head(a).id, del), t, Tail(a), b, ta, tb)
<1> DEFINE m == Head(a)
           u == DelOffered(s, m.id, del)
           a2 == Tail(a)
<1>1. /\ EndOK(s) /\ EndOK(t) /\ Tidy(a) /\ Tidy(b)
      /\ Pairing(s, t, a, b, ta, tb) /\ Pairing(t, s, b, a, tb, ta)
      /\ Undeleted(s, b) /\ Undeleted(t, a)
      /\ tb # "run" => b = <<>>
  BY DEF EndsFit
<1>2. /\ FlagsOnly(s, u)
      /\ \A i \in Slot :
            /\ SlotOK(u.cnl_add_htlc[i])
            /\ s.cnl_add_htlc[i].updsend = u.cnl_add_htlc[i].updsend
            /\ IsOffered(s.cnl_add_htlc[i]) =>
                  DelArrived(s.cnl_add_htlc[i], u.cnl_add_htlc[i], m.id, del)
            /\ ~IsOffered(s.cnl_add_htlc[i]) => u.cnl_add_htlc[i] = s.cnl_add_htlc[i]
  BY <1>1, DelMap
<1>3. /\ SameSlots(s, u) /\ u.paid_out = s.paid_out /\ u.paid_in = s.paid_in
      /\ u.htlc_id_num = s.htlc_id_num
  BY <1>2 DEF FlagsOnly
<1>4. ReadView(a, a2, m) /\ m.type = DelType(del)
  BY <1>1, ReadViews
<1> HIDE DEF u, a2, m
<1>5. EndOK(u)
  BY <1>1, <1>2, <1>3, EndMap
<1>6. Pairing(u, t, a2, b, ta, tb)
  BY <1>1, <1>2, <1>3, <1>4, OffererDeletes
<1>7. SameReceived(s, u)
  BY <1>2, <1>3 DEF SameReceived, SameSlots, SameHtlc, IsReceived, IsOffered
<1>8. SameToReceiver(a, a2)
  <2>1. m.type \notin Exchange \cup {"update_add_htlc"}
    BY <1>4, DelTypes
  <2> QED BY <1>4, <2>1 DEF ReadView, SameToReceiver, Exchange
<1>9. Pairing(t, u, b, a2, tb, ta)
  <2>1. \A j \in Slot : SlotOK(t.cnl_add_htlc[j]) /\ SlotOK(t.cnl_add_htlc[j])
    BY <1>1 DEF EndOK
  <2>2. SameOffers(t, t) /\ SameToOfferer(b, b)
    BY NothingNew
  <2> QED BY <1>1, <1>7, <1>8, <2>1, <2>2, SamePairing
<1>10. Undeleted(u, b)
  <2>1. \A j \in Slot :
              IsReceived(u.cnl_add_htlc[j]) /\ ~u.cnl_add_htlc[j].updsend =>
                 /\ IsReceived(s.cnl_add_htlc[j]) /\ ~s.cnl_add_htlc[j].updsend
                 /\ u.cnl_add_htlc[j].id = s.cnl_add_htlc[j].id
    BY <1>2, <1>3 DEF SameSlots, IsReceived
  <2> QED BY <1>1, <2>1, UndeletedKept
<1>11. Undeleted(t, a2)
  BY <1>1, <1>4, ReadUndeleted
<1>12. Tidy(a2)
  BY <1>4 DEF ReadView
<1> QED BY <1>1, <1>5, <1>6, <1>9, <1>10, <1>11, <1>12 DEF EndsFit, u, a2, m

----------------------------------------------------------------------------
(* Mutual close leaves the HTLCs alone, and an end that stops.             *)

\* The messages of mutual close.
CloseMsg == {"shutdown", "closing_signed"}

\* The fields the pairing does not read may change.
LEMMA FieldsFit ==
    ASSUME NEW s, NEW t, NEW a, NEW b, NEW ta, NEW tb, NEW u,
           EndsFit(s, t, a, b, ta, tb),
           u.cnl_add_htlc = s.cnl_add_htlc, u.paid_out = s.paid_out,
           u.paid_in = s.paid_in, u.htlc_id_num = s.htlc_id_num
    PROVE  EndsFit(u, t, a, b, ta, tb)
<1>1. SameOffers(s, u) /\ SameReceived(s, u)
  BY DEF SameOffers, SameReceived, SameHtlc
<1>2. EndOK(u)
  BY DEF EndsFit, EndOK
<1>3. Pairing(t, u, b, a, tb, ta) /\ Undeleted(u, b)
  BY <1>1, AsReceiverSame
<1>4. Pairing(u, t, a, b, ta, tb)
  BY <1>1, <1>2, AsOffererSame
<1> QED BY <1>2, <1>3, <1>4 DEF EndsFit

\* Messages the pairing does not read may come and go.
LEMMA StreamsFit ==
    ASSUME NEW s, NEW t, NEW a, NEW b, NEW ta, NEW tb, NEW a2, NEW b2,
           EndsFit(s, t, a, b, ta, tb), Tidy(a2), Tidy(b2),
           SameToOfferer(a, a2), SameToReceiver(a, a2),
           SameToOfferer(b, b2), SameToReceiver(b, b2),
           ta # "run" => a2 = <<>>, tb # "run" => b2 = <<>>
    PROVE  EndsFit(s, t, a2, b2, ta, tb)
<1>1. /\ EndOK(s) /\ EndOK(t)
      /\ Pairing(s, t, a, b, ta, tb) /\ Pairing(t, s, b, a, tb, ta)
      /\ Undeleted(s, b) /\ Undeleted(t, a)
  BY DEF EndsFit
<1>2. /\ \A i \in Slot : SlotOK(s.cnl_add_htlc[i]) /\ SlotOK(s.cnl_add_htlc[i])
      /\ \A i \in Slot : SlotOK(t.cnl_add_htlc[i]) /\ SlotOK(t.cnl_add_htlc[i])
  BY <1>1 DEF EndOK
<1>3. SameOffers(s, s) /\ SameReceived(s, s) /\ SameOffers(t, t) /\ SameReceived(t, t)
  BY NothingNew
<1>4. Pairing(s, t, a2, b2, ta, tb) /\ Pairing(t, s, b2, a2, tb, ta)
  BY <1>1, <1>2, <1>3, SamePairing
<1>5. /\ \A n : NotDeleting(a, n) => NotDeleting(a2, n)
      /\ \A n : NotDeleting(b, n) => NotDeleting(b2, n)
  BY DEF SameToOfferer, NotDeleting
<1>6. Undeleted(s, b2) /\ Undeleted(t, a2)
  BY <1>1, <1>5, UndeletedKept
<1> QED BY <1>1, <1>4, <1>6 DEF EndsFit

\* Reading a message of the mutual close.
LEMMA QuietRead ==
    ASSUME NEW a \in Seq(Message), a # <<>>, Tidy(a), Head(a).type \in CloseMsg
    PROVE  Tidy(Tail(a)) /\ SameToOfferer(a, Tail(a)) /\ SameToReceiver(a, Tail(a))
<1> DEFINE m == Head(a)
           r == Tail(a)
<1>1. ReadView(a, r, m)
  BY ReadViews
<1>2. /\ m.type \notin UpdateType /\ m.type \notin Exchange
      /\ m.type # "update_add_htlc" /\ m.type # "commitment_signed"
      /\ m.type # "revoke_and_ack"
  BY DEF CloseMsg, UpdateType, Exchange
<1> HIDE DEF m, r
<1>3. Tidy(r) /\ SameToOfferer(a, r) /\ SameToReceiver(a, r)
  BY <1>1, <1>2 DEF ReadView, SameToOfferer, SameToReceiver
<1> QED BY <1>3 DEF r

\* Sending messages of the mutual close.
LEMMA QuietSend ==
    ASSUME NEW b \in Seq(Message), NEW ms \in Seq(Message), Tidy(b),
           \A k \in DOMAIN ms : ms[k].type \in CloseMsg
    PROVE  Tidy(b \o ms) /\ SameToOfferer(b, b \o ms) /\ SameToReceiver(b, b \o ms)
<1> DEFINE r == b \o ms
<1>1. SendView(b, r, ms)
  BY SendViews
<1>2. \A k \in DOMAIN ms : /\ ms[k].type \notin UpdateType
                           /\ ms[k].type # "update_add_htlc"
                           /\ ms[k].type # "commitment_signed"
                           /\ ms[k].type # "revoke_and_ack"
  BY DEF CloseMsg, UpdateType
<1>3. /\ ~Signing(ms) /\ ~Acking(ms)
      /\ \A n : ~Adding(ms, n)
      /\ \A x : ~AddingRef(ms, x)
  BY <1>2 DEF Signing, Acking, Adding, AddingRef
<1>4. \A n : \A del \in Deletion : ~Deleting(ms, n, del)
  BY <1>2, DelTypes DEF Deleting
<1>5. \A n : NotDeleting(ms, n)
  BY <1>4 DEF NotDeleting
<1>6. Tidy(ms)
  BY <1>2 DEF Tidy, IsUpdate
<1>7. Tidy(r)
  BY <1>3, <1>5, <1>6, SentTidy
<1> HIDE DEF r
<1>8. SameToOfferer(b, r) /\ SameToReceiver(b, r)
  BY <1>1, <1>3, <1>4 DEF SendView, SameToOfferer, SameToReceiver
<1> QED BY <1>7, <1>8 DEF r

\* A step of the mutual close at one end.
LEMMA QuietFits ==
    ASSUME NEW s, NEW t, NEW ta, NEW tb,
           NEW a \in Seq(Message), NEW b \in Seq(Message),
           EndsFit(s, t, a, b, ta, tb), NEW u,
           u.cnl_add_htlc = s.cnl_add_htlc, u.paid_out = s.paid_out,
           u.paid_in = s.paid_in, u.htlc_id_num = s.htlc_id_num,
           NEW ms \in Seq(Message), \A k \in DOMAIN ms : ms[k].type \in CloseMsg,
           NEW a2, \/ a2 = a
                   \/ ta = "run" /\ a # <<>> /\ Head(a).type \in CloseMsg /\ a2 = Tail(a),
           NEW b2, b2 = IF tb = "run" THEN b \o ms ELSE b
    PROVE  EndsFit(u, t, a2, b2, ta, tb)
<1>1. EndsFit(u, t, a, b, ta, tb)
  BY FieldsFit
<1>2. Tidy(a) /\ Tidy(b) /\ (ta # "run" => a = <<>>) /\ (tb # "run" => b = <<>>)
  BY DEF EndsFit
<1>3. Tidy(a2) /\ SameToOfferer(a, a2) /\ SameToReceiver(a, a2)
  BY <1>2, NothingNew, QuietRead
<1>4. Tidy(b2) /\ SameToOfferer(b, b2) /\ SameToReceiver(b, b2)
  BY <1>2, NothingNew, QuietSend
<1>5. (ta # "run" => a2 = <<>>) /\ (tb # "run" => b2 = <<>>)
  BY <1>2
<1> QED BY <1>1, <1>3, <1>4, <1>5, StreamsFit

\* One end stops.
LEMMA StopFits ==
    ASSUME NEW s, NEW t, NEW a, NEW b, NEW ta, NEW tb, NEW how, how # "run",
           EndsFit(s, t, a, b, ta, tb)
    PROVE  EndsFit(s, t, <<>>, b, how, tb)
<1>1. Pairing(s, t, a, b, ta, tb) /\ Pairing(t, s, b, a, tb, ta)
  BY DEF EndsFit
<1>2. Pairing(s, t, <<>>, b, how, tb)
  BY <1>1, OffererStops
<1>3. Pairing(t, s, b, <<>>, tb, how)
  BY <1>1, ReceiverStops
<1>4. Tidy(<<>>) /\ Undeleted(t, <<>>)
  BY EmptyView DEF Undeleted
<1> QED BY <1>2, <1>3, <1>4 DEF EndsFit

----------------------------------------------------------------------------
(* The steps of module Channel, as moves of one end: from s to u, with the *)
(* streams a (to it) and b (to its peer) and its thread ta.  The peer and  *)
(* its thread tb stay.                                                     *)

\* What is sent to a peer that has stopped is lost.
Put(b, tb, ms) == IF tb = "run" THEN b \o ms ELSE b

\* The end prepares an HTLC, its own or a forwarded one.
OfferMove(s, u) ==
    \E i \in Slot : \E amt \in Amounts :
        /\ FreeSlot(s, i)
        /\ u = ln_add_htlc_set(s, i, amt) \/ u = ln_add_htlc_set_fwd(s, i, amt)

\* A forwarded HTLC is released.
StartMove(s, u) ==
    \E i \in Slot : /\ LN_HTLC_ENABLE(s.cnl_add_htlc[i])
                    /\ s.cnl_add_htlc[i].addhtlc = "NONE"
                    /\ u = ln_add_htlc_start_fwd(s, i)

\* The next channel has settled a forwarded HTLC.
BackwindMove(s, u) ==
    \E i \in Slot :
        /\ Forwarded(s.cnl_add_htlc[i])
        /\ u = ln_fulfill_htlc_set(s, i) \/ u = ln_fail_htlc_set(s, i)

\* The exchanged deletions are settled.
FinalMove(s, u) == Final(s) /\ u = AfterFinal(s)

\* The commitment_signed of a pass.
SignMsg(s, num) ==
    [type |-> "commitment_signed", tx |-> create_to_remote(AfterUpdates(s), num)]

\* A pass of the send loop.
PassMove(s, a, b, tb, u, b2) ==
    /\ ~ComSiging(s) /\ ~Signing(b) /\ ~Acking(a)
    /\ \E ms \in Seq(Message) :
          /\ UpdateView(s, ms) /\ ~Signing(ms)
          /\ \/ u = AfterUpdates(s) /\ b2 = Put(b, tb, ms)
             \/ \E num \in Nat :
                  /\ SignMsg(s, num) \in Message
                  /\ u = AfterSendCommitmentSigned(AfterUpdates(s), SignMsg(s, num).tx)
                  /\ b2 = Put(b, tb, ms \o <<SignMsg(s, num)>>)

\* The head of the stream is read.
Reads(a, ta, type, a2) == ta = "run" /\ a # <<>> /\ Head(a).type = type /\ a2 = Tail(a)

\* An HTLC is accepted.
AddMove(s, a, ta, u, a2) ==
    /\ Reads(a, ta, "update_add_htlc", a2)
    /\ \E i \in Slot : \E fate \in Fates :
          FreeSlot(s, i) /\ u = AcceptAddHtlc(s, i, Head(a), fate)

\* A deletion is accepted.
DelMove(s, a, ta, u, a2) ==
    \E del \in Deletion : /\ Reads(a, ta, DelType(del), a2)
                          /\ u = DelOffered(s, Head(a).id, del)

\* A commitment_signed is accepted.
AcceptMove(s, a, b, ta, tb, u, a2, b2) ==
    /\ Reads(a, ta, "commitment_signed", a2)
    /\ ~Acking(b)
    /\ u = AfterCommitmentSigned(s, Head(a).tx)
    /\ \E m \in Message : m.type = "revoke_and_ack" /\ b2 = Put(b, tb, <<m>>)

\* A revoke_and_ack is accepted.
AckMove(s, a, ta, u, a2) ==
    Reads(a, ta, "revoke_and_ack", a2) /\ u = AfterRevokeAndAck(s, Head(a).num)

\* A step of mutual close.
CloseMove(s, a, b, ta, tb, u, a2, b2) ==
    /\ u.cnl_add_htlc = s.cnl_add_htlc /\ u.htlc_id_num = s.htlc_id_num
    /\ u.paid_out = s.paid_out /\ u.paid_in = s.paid_in
    /\ a2 = a \/ \E type \in CloseMsg : Reads(a, ta, type, a2)
    /\ \E ms \in Seq(Message) : /\ \A k \in DOMAIN ms : ms[k].type \in CloseMsg
                                /\ b2 = Put(b, tb, ms)

\* The end stops.
StopMove(s, u, a2, ta2) == u = s /\ a2 = <<>> /\ ta2 # "run"

\* A step of one end.
Move(s, a, b, ta, tb, u, a2, b2, ta2) ==
    \/ /\ a2 = a /\ b2 = b /\ ta2 = ta
       /\ OfferMove(s, u) \/ StartMove(s, u) \/ BackwindMove(s, u) \/ FinalMove(s, u)
    \/ a2 = a /\ ta2 = ta /\ PassMove(s, a, b, tb, u, b2)
    \/ /\ b2 = b /\ ta2 = ta
       /\ AddMove(s, a, ta, u, a2) \/ DelMove(s, a, ta, u, a2) \/ AckMove(s, a, ta, u, a2)
    \/ ta2 = ta /\ AcceptMove(s, a, b, ta, tb, u, a2, b2)
    \/ ta2 = ta /\ CloseMove(s, a, b, ta, tb, u, a2, b2)
    \/ b2 = b /\ StopMove(s, u, a2, ta2)

\* Every move keeps the two ends fitting.
LEMMA MoveFits ==
    ASSUME NEW s \in SelfType, NEW t \in SelfType,
           NEW a \in Seq(Message), NEW b \in Seq(Message), NEW ta, NEW tb,
           NEW u, NEW a2, NEW b2, NEW ta2,
           EndsFit(s, t, a, b, ta, tb), Move(s, a, b, ta, tb, u, a2, b2, ta2)
    PROVE  EndsFit(u, t, a2, b2, ta2, tb)
<1>1. CASE /\ a2 = a /\ b2 = b /\ ta2 = ta
           /\ OfferMove(s, u)
  <2>1. \A amt \in Amounts : amt \in Nat /\ amt # 0
    BY ParameterAssumption
  <2> QED BY <1>1, <2>1, OfferFits DEF OfferMove
<1>2. CASE /\ a2 = a /\ b2 = b /\ ta2 = ta
           /\ StartMove(s, u)
  BY <1>2, StartFits DEF StartMove
<1>3. CASE /\ a2 = a /\ b2 = b /\ ta2 = ta
           /\ BackwindMove(s, u)
  <2>1. PICK i \in Slot : /\ Forwarded(s.cnl_add_htlc[i])
                          /\ u = ln_fulfill_htlc_set(s, i) \/ u = ln_fail_htlc_set(s, i)
    BY <1>3 DEF BackwindMove
  <2>2. Exchanged(s.cnl_add_htlc[i])
    BY <2>1 DEF Forwarded
  <2>3. "FULFILL" \in Deletion /\ "FAIL" \in Deletion
    BY DEF Deletion, DelHtlc
  <2>4. CASE u = ln_fulfill_htlc_set(s, i)
    <3>1. /\ SlotPut(s, u, i, clear_htlc_comrevflag(s.cnl_add_htlc[i], "FULFILL"))
          /\ u.htlc_id_num = s.htlc_id_num
      BY <2>4, OtherPut
    <3>2. EndsFit(u, t, a, b, ta, tb)
      BY <2>1, <2>3, <3>1, BackwindFits
    <3> QED BY <1>3, <3>2
  <2>5. CASE u = ln_fail_htlc_set(s, i)
    <3>1. /\ SlotPut(s, u, i, clear_htlc_comrevflag(s.cnl_add_htlc[i], "FAIL"))
          /\ u.htlc_id_num = s.htlc_id_num
      BY <2>2, <2>5, FailPut
    <3>2. EndsFit(u, t, a, b, ta, tb)
      BY <2>1, <2>3, <3>1, BackwindFits
    <3> QED BY <1>3, <3>2
  <2> QED BY <2>1, <2>4, <2>5
<1>4. CASE /\ a2 = a /\ b2 = b /\ ta2 = ta
           /\ FinalMove(s, u)
  BY <1>4, FinalFits DEF FinalMove
<1>5. CASE a2 = a /\ ta2 = ta /\ PassMove(s, a, b, tb, u, b2)
  <2>1. ~ComSiging(s) /\ ~Signing(b) /\ ~Acking(a)
    BY <1>5 DEF PassMove
  <2>2. PICK ms \in Seq(Message) :
          /\ UpdateView(s, ms) /\ ~Signing(ms)
          /\ \/ u = AfterUpdates(s) /\ b2 = Put(b, tb, ms)
             \/ \E num \in Nat :
                  /\ SignMsg(s, num) \in Message
                  /\ u = AfterSendCommitmentSigned(AfterUpdates(s), SignMsg(s, num).tx)
                  /\ b2 = Put(b, tb, ms \o <<SignMsg(s, num)>>)
    BY <1>5 DEF PassMove
  <2>3. CASE u = AfterUpdates(s) /\ b2 = Put(b, tb, ms)
    <3>1. b2 = IF tb = "run" THEN b \o ms ELSE b
      BY <2>3 DEF Put
    <3>2. EndsFit(u, t, a, b2, ta, tb)
      BY <2>1, <2>2, <2>3, <3>1, PassFits
    <3> QED BY <1>5, <3>2
  <2>4. ASSUME NEW num \in Nat, SignMsg(s, num) \in Message,
               u = AfterSendCommitmentSigned(AfterUpdates(s), SignMsg(s, num).tx),
               b2 = Put(b, tb, ms \o <<SignMsg(s, num)>>)
        PROVE  EndsFit(u, t, a2, b2, ta2, tb)
    <3> DEFINE m == SignMsg(s, num)
               w == ms \o <<m>>
    <3>1. m.type = "commitment_signed"
      BY DEF SignMsg
    <3>2. UpdateView(s, w) /\ Signing(w) /\ w \in Seq(Message)
      BY <2>2, <2>4, <3>1, UpdateSignViews
    <3>3. b2 = IF tb = "run" THEN b \o w ELSE b
      BY <2>4 DEF Put
    <3> HIDE DEF w, m
    <3>4. EndsFit(u, t, a, b2, ta, tb)
      BY <2>1, <2>4, <3>2, <3>3, PassFits
    <3> QED BY <1>5, <3>4
  <2> QED BY <2>2, <2>3, <2>4
<1>6. CASE b2 = b /\ ta2 = ta /\ AddMove(s, a, ta, u, a2)
  BY <1>6, AddFits DEF AddMove, Reads
<1>7. CASE b2 = b /\ ta2 = ta /\ DelMove(s, a, ta, u, a2)
  BY <1>7, DelFits DEF DelMove, Reads
<1>8. CASE b2 = b /\ ta2 = ta /\ AckMove(s, a, ta, u, a2)
  BY <1>8, AckFits DEF AckMove, Reads
<1>9. CASE ta2 = ta /\ AcceptMove(s, a, b, ta, tb, u, a2, b2)
  BY <1>9, AcceptFits DEF AcceptMove, Reads, Put
<1>10. CASE ta2 = ta /\ CloseMove(s, a, b, ta, tb, u, a2, b2)
  BY <1>10, QuietFits DEF CloseMove, Reads, Put
<1>11. CASE b2 = b /\ StopMove(s, u, a2, ta2)
  BY <1>11, StopFits DEF StopMove
<1> QED
  BY <1>1, <1>2, <1>3, <1>4, <1>5, <1>6, <1>7, <1>8, <1>9, <1>10, <1>11 DEF Move

----------------------------------------------------------------------------
(* Every step of Channel is a move of one end.                             *)

\* End p makes a move.
MoveOf(p) ==
    LET q == Other(p)
    IN  /\ self'[q] = self[q] /\ thread'[q] = thread[q]
        /\ Move(self[p], net[p], net[q], thread[p], thread[q],
                self'[p], net'[p], net'[q], thread'[p])

\* What Sent and Read do to each stream, as moves have it.
LEMMA PutStreams ==
    ASSUME TypeOK, NEW p \in Peer, NEW ms
    PROVE  /\ Read(net, p)[p] = Tail(net[p])
           /\ Read(net, p)[Other(p)] = net[Other(p)]
           /\ Sent(net, p, ms)[p] = net[p]
           /\ Sent(net, p, ms)[Other(p)] = Put(net[Other(p)], thread[Other(p)], ms)
           /\ Sent(Read(net, p), p, ms)[p] = Tail(net[p])
           /\ Sent(Read(net, p), p, ms)[Other(p)]
                = Put(net[Other(p)], thread[Other(p)], ms)
BY PeerFacts DEF TypeOK, Read, Sent, Put, Running

\* What the peer keeps when p alone changes its state.
LEMMA OthersKept ==
    ASSUME TypeOK, NEW p \in Peer
    PROVE  /\ \A u : [self EXCEPT ![p] = u][p] = u
           /\ \A u : [self EXCEPT ![p] = u][Other(p)] = self[Other(p)]
           /\ \A u : [thread EXCEPT ![p] = u][p] = u
           /\ \A u : [thread EXCEPT ![p] = u][Other(p)] = thread[Other(p)]
           /\ \A u : [net EXCEPT ![p] = u][p] = u
           /\ \A u : [net EXCEPT ![p] = u][Other(p)] = net[Other(p)]
BY PeerFacts DEF TypeOK

\* An end stops.
LEMMA StopMoves ==
    ASSUME TypeOK, NEW p \in Peer, NEW how, how # "run", Stop(p, how), self' = self
    PROVE  MoveOf(p)
BY OthersKept DEF Stop, MoveOf, Move, StopMove

\* A failing handler stops its end.
LEMMA FailMoves ==
    ASSUME TypeOK, NEW p \in Peer, FailChannel(p)
    PROVE  MoveOf(p)
BY StopMoves DEF FailChannel

\* Payments and the callers of other channels.
LEMMA OfferMoves ==
    ASSUME TypeOK, NEW p \in Peer, Offer(p) \/ OtherChannel(p)
    PROVE  MoveOf(p)
<1> DEFINE s == self[p]
<1>1. net' = net /\ thread' = thread
  BY DEF Offer, OtherChannel, Pay, FwdAdd, FwdStart, FulfillBackwind, FailBackwind,
     Environment
<1>2. ASSUME NEW u, self' = [self EXCEPT ![p] = u],
             OfferMove(s, u) \/ StartMove(s, u) \/ BackwindMove(s, u)
      PROVE  MoveOf(p)
  <2>1. self'[p] = u /\ self'[Other(p)] = self[Other(p)]
    BY <1>2, OthersKept
  <2> QED BY <1>1, <1>2, <2>1 DEF MoveOf, Move
<1>3. ASSUME NEW amt \in Amounts, Pay(p, amt) \/ FwdAdd(p, amt)
      PROVE  MoveOf(p)
  <2>1. PICK i \in Slot : /\ FreeSlot(s, i)
                          /\ \/ Keep(p, ln_add_htlc_set(s, i, amt))
                             \/ Keep(p, ln_add_htlc_set_fwd(s, i, amt))
    BY <1>3 DEF Pay, FwdAdd
  <2>2. OfferMove(s, ln_add_htlc_set(s, i, amt)) /\ OfferMove(s, ln_add_htlc_set_fwd(s, i, amt))
    BY <2>1 DEF OfferMove
  <2> QED BY <1>2, <2>1, <2>2 DEF Keep
<1>4. ASSUME NEW i \in Slot, FwdStart(p, i)
      PROVE  MoveOf(p)
  <2>1. StartMove(s, ln_add_htlc_start_fwd(s, i))
    BY <1>4 DEF FwdStart, StartMove
  <2> QED BY <1>2, <1>4, <2>1 DEF FwdStart, Keep
<1>5. ASSUME NEW i \in Slot, FulfillBackwind(p, i)
      PROVE  MoveOf(p)
  <2>1. BackwindMove(s, ln_fulfill_htlc_set(s, i))
    BY <1>5 DEF FulfillBackwind, BackwindMove
  <2> QED BY <1>2, <1>5, <2>1 DEF FulfillBackwind, Save
<1>6. ASSUME NEW i \in Slot, FailBackwind(p, i)
      PROVE  MoveOf(p)
  <2>1. BackwindMove(s, ln_fail_htlc_set(s, i))
    BY <1>6 DEF FailBackwind, BackwindMove
  <2> QED BY <1>2, <1>6, <2>1 DEF FailBackwind, Keep
<1> QED BY <1>3, <1>4, <1>5, <1>6 DEF Offer, OtherChannel

\* The handlers of update messages.
LEMMA UpdateMoves ==
    ASSUME TypeOK, NEW p \in Peer,
           \/ RecvAddHtlc(p) \/ RecvFulfillHtlc(p)
           \/ RecvFailHtlc(p) \/ RecvFailMalformedHtlc(p)
    PROVE  MoveOf(p)
<1> DEFINE s == self[p]
           m == Head(net[p])
<1>1. ASSUME NEW u, self' = [self EXCEPT ![p] = u], net' = Read(net, p), thread' = thread,
             AddMove(s, net[p], thread[p], u, Tail(net[p]))
               \/ DelMove(s, net[p], thread[p], u, Tail(net[p]))
      PROVE  MoveOf(p)
  <2>1. self'[p] = u /\ self'[Other(p)] = self[Other(p)]
    BY <1>1, OthersKept
  <2>2. net'[p] = Tail(net[p]) /\ net'[Other(p)] = net[Other(p)]
    BY <1>1, PutStreams
  <2> QED BY <1>1, <2>1, <2>2 DEF MoveOf, Move
<1>2. CASE RecvAddHtlc(p)
  <2>1. CASE FailChannel(p)
    BY <2>1, FailMoves
  <2>2. CASE ~FailChannel(p)
    <3>1. PICK i \in Slot, fate \in Fates :
            FreeSlot(s, i) /\ Keep(p, AcceptAddHtlc(s, i, m, fate))
      BY <1>2, <2>2 DEF RecvAddHtlc
    <3>2. net' = Read(net, p) /\ thread' = thread
      BY <1>2, <2>2 DEF RecvAddHtlc, Environment
    <3>3. Reads(net[p], thread[p], "update_add_htlc", Tail(net[p]))
      BY <1>2 DEF RecvAddHtlc, Receiving, Running, Reads
    <3>4. AddMove(s, net[p], thread[p], AcceptAddHtlc(s, i, m, fate), Tail(net[p]))
      BY <3>1, <3>3 DEF AddMove
    <3> QED BY <1>1, <3>1, <3>2, <3>4 DEF Keep
  <2> QED BY <2>1, <2>2
<1>3. ASSUME NEW del \in Deletion, RecvDelHtlc(p, DelType(del), del)
      PROVE  MoveOf(p)
  <2>1. CASE FailChannel(p)
    BY <2>1, FailMoves
  <2>2. CASE ~FailChannel(p)
    <3>1. /\ Keep(p, DelOffered(s, m.id, del)) /\ net' = Read(net, p)
          /\ thread' = thread
      BY <1>3, <2>2 DEF RecvDelHtlc, Environment
    <3>2. Reads(net[p], thread[p], DelType(del), Tail(net[p]))
      BY <1>3 DEF RecvDelHtlc, Receiving, Running, Reads
    <3>3. DelMove(s, net[p], thread[p], DelOffered(s, m.id, del), Tail(net[p]))
      BY <3>2 DEF DelMove
    <3> QED BY <1>1, <3>1, <3>3 DEF Keep
  <2> QED BY <2>1, <2>2
<1>4. /\ DelType("FULFILL") = "update_fulfill_htlc"
      /\ DelType("FAIL") = "update_fail_htlc"
      /\ DelType("MALFORMED") = "update_fail_malformed_htlc"
  BY DEF DelType
<1>5. "FULFILL" \in Deletion /\ "FAIL" \in Deletion /\ "MALFORMED" \in Deletion
  BY DEF Deletion, DelHtlc
<1> QED BY <1>2, <1>3, <1>4, <1>5 DEF RecvFulfillHtlc, RecvFailHtlc, RecvFailMalformedHtlc

\* The idle procedure.
LEMMA IdleMoves ==
    ASSUME TypeOK, ExchangeInv, NEW p \in Peer, EndOK(self[p]), Idle(p)
    PROVE  MoveOf(p)
<1> DEFINE s == self[p]
           q == Other(p)
<1>1. s \in SelfType
  BY DEF TypeOK
<1>2. CASE IdleFinal(p)
  <2>1. /\ self' = [self EXCEPT ![p] = AfterFinal(s)] /\ Final(s)
        /\ net' = net /\ thread' = thread
    BY <1>2 DEF IdleFinal, Save, Environment
  <2>2. FinalMove(s, AfterFinal(s))
    BY <2>1 DEF FinalMove
  <2>3. self'[p] = AfterFinal(s) /\ self'[q] = self[q]
    BY <2>1, OthersKept
  <2> QED BY <2>1, <2>2, <2>3 DEF MoveOf, Move
<1>3. CASE IdleNonfinal(p)
  <2> DEFINE upd == AfterUpdates(s)
             num == s.commit_remote.commit_num + 1
             tx == create_to_remote(upd, num)
             n == Cardinality(WillUpdate(s))
             m == SignMsg(s, num)
             u == AfterSendCommitmentSigned(upd, tx)
  <2>1. num \in Nat /\ upd \in SelfType
    BY <1>1, UpdatesType DEF SelfType, CommitRemoteType
  <2>2. tx \in CommitTxType
    BY <2>1, CreateToRemoteType
  <2>3. m \in Message /\ m.tx = tx /\ m = [type |-> "commitment_signed", tx |-> tx]
    BY <2>2, MessageBuilt DEF SignMsg
  <2>4. PICK order \in [1 .. n -> WillUpdate(s)] :
          /\ InSlotOrder(order)
          /\ \/ /\ Save(p, u)
                /\ net' = Sent(net, p, UpdateMsgs(s, order) \o <<m>>)
             \/ /\ Keep(p, upd) /\ net' = Sent(net, p, UpdateMsgs(s, order))
    BY <1>3, <2>3 DEF IdleNonfinal
  <2>5. thread' = thread /\ ~ComSiging(s)
    BY <1>3 DEF IdleNonfinal, Environment
  <2>6. PICK ms : ms = UpdateMsgs(s, order)
    OBVIOUS
  <2>7. ms \in Seq(Message) /\ UpdateView(s, ms) /\ ~Signing(ms)
    BY <1>1, <2>4, <2>6, UpdateViews
  <2>8. ~Signing(net[q]) /\ ~Acking(net[p])
    <3>1. ~Awaiting(p)
      <4>1. AwaitingSlots(s) = {}
        BY <1>1, <2>5 DEF ComSiging, AwaitingSlots, SelfType, HtlcType
      <4> QED BY <4>1 DEF Awaiting
    <3>2. Carried(q, "commitment_signed") = {} /\ Carried(p, "revoke_and_ack") = {}
      BY <3>1, NotAwaiting
    <3> QED BY <3>2 DEF Carried, Signing, Acking
  <2> HIDE DEF m, u, tx, num, upd
  <2>9. self' = [self EXCEPT ![p] = upd] /\ net' = Sent(net, p, ms) => MoveOf(p)
    <3> HAVE self' = [self EXCEPT ![p] = upd] /\ net' = Sent(net, p, ms)
    <3>1. self'[p] = upd /\ self'[q] = self[q]
      BY OthersKept
    <3>2. net'[p] = net[p] /\ net'[q] = Put(net[q], thread[q], ms)
      BY PutStreams
    <3>3. PassMove(s, net[p], net[q], thread[q], self'[p], net'[q])
      BY <2>5, <2>7, <2>8, <3>1, <3>2 DEF PassMove, upd
    <3> QED BY <2>5, <3>1, <3>2, <3>3 DEF MoveOf, Move
  <2>10. self' = [self EXCEPT ![p] = u] /\ net' = Sent(net, p, ms \o <<m>>) => MoveOf(p)
    <3> HAVE self' = [self EXCEPT ![p] = u] /\ net' = Sent(net, p, ms \o <<m>>)
    <3>1. self'[p] = u /\ self'[q] = self[q]
      BY OthersKept
    <3> DEFINE w == ms \o <<m>>
    <3>2. net' = Sent(net, p, w)
      OBVIOUS
    <3> HIDE DEF w
    <3>3. net'[p] = net[p] /\ net'[q] = Put(net[q], thread[q], w)
      BY <3>2, PutStreams
    <3>4. /\ SignMsg(s, num) \in Message
          /\ self'[p] = AfterSendCommitmentSigned(AfterUpdates(s), SignMsg(s, num).tx)
          /\ net'[q] = Put(net[q], thread[q], ms \o <<SignMsg(s, num)>>)
      BY <2>3, <3>1, <3>3 DEF m, u, w, upd
    <3>5. PassMove(s, net[p], net[q], thread[q], self'[p], net'[q])
      BY <2>1, <2>5, <2>7, <2>8, <3>4 DEF PassMove
    <3> QED BY <2>5, <3>1, <3>3, <3>5 DEF MoveOf, Move
  <2> QED BY <2>4, <2>6, <2>9, <2>10 DEF Save, Keep
<1> QED BY <1>2, <1>3 DEF Idle

\* The two handlers of the exchange: a commitment_signed has not been
\* acknowledged before it is read.
LEMMA CommitMoves ==
    ASSUME TypeOK, ExchangeInv, NEW p \in Peer,
           RecvCommitmentSigned(p) \/ RecvRevokeAndAck(p)
    PROVE  MoveOf(p)
<1> DEFINE s == self[p]
           q == Other(p)
           c == Head(net[p])
<1>1. s \in SelfType /\ q \in Peer /\ Other(q) = p /\ net[p] \in Seq(Message)
  BY PeerFacts DEF TypeOK
<1>2. CASE RecvCommitmentSigned(p)
  <2>1. CASE FailChannel(p)
    BY <2>1, FailMoves
  <2>2. CASE ~FailChannel(p)
    <3> DEFINE m == [type |-> "revoke_and_ack", num |-> s.commit_local.commit_num]
               u == AfterCommitmentSigned(s, c.tx)
    <3>1. /\ self' = [self EXCEPT ![p] = u] /\ net' = Sent(Read(net, p), p, <<m>>)
          /\ thread' = thread
      BY <1>2, <2>2 DEF RecvCommitmentSigned, Save, Environment
    <3>2. Reads(net[p], thread[p], "commitment_signed", Tail(net[p]))
      BY <1>2 DEF RecvCommitmentSigned, Receiving, Running, Reads
    <3>3. s.commit_local.commit_num \in Nat
      BY <1>1 DEF SelfType, CommitLocalType
    <3>4. m \in Message /\ m.type = "revoke_and_ack"
      BY <3>3, MessageBuilt
    <3>5. ~Acking(net[q])
      <4>1. 1 \in Carried(p, "commitment_signed")
        <5>1. net[p] # <<>> /\ Head(net[p]).type = "commitment_signed"
          BY <3>2 DEF Reads
        <5>2. 1 \in DOMAIN net[p] /\ Head(net[p]) = net[p][1]
          BY <1>1, <5>1
        <5> QED BY <5>1, <5>2 DEF Carried
      <4>2. Remote(q).commit_num = Commit(p).commit_num + 1
        BY <1>1, <4>1 DEF ExchangeInv, SignatureUnderWay
      <4>3. Commit(p).commit_num \in Nat
        BY NumberTypes
      <4>4. Carried(q, "revoke_and_ack") = {}
        BY <1>1, <4>2, <4>3 DEF ExchangeInv, AckUnderWay
      <4> QED BY <4>4 DEF Carried, Acking
    <3> DEFINE w == <<m>>
    <3>6. net' = Sent(Read(net, p), p, w)
      BY <3>1
    <3> HIDE DEF w, u
    <3>7. self'[p] = u /\ self'[q] = self[q]
      BY <3>1, OthersKept
    <3>8. net'[p] = Tail(net[p]) /\ net'[q] = Put(net[q], thread[q], w)
      BY <3>6, PutStreams
    <3>9. \E x \in Message : x.type = "revoke_and_ack" /\ net'[q] = Put(net[q], thread[q], <<x>>)
      BY <3>4, <3>8 DEF w
    <3>10. AcceptMove(s, net[p], net[q], thread[p], thread[q], self'[p], net'[p], net'[q])
      BY <3>2, <3>5, <3>7, <3>8, <3>9 DEF AcceptMove, Reads, u
    <3> QED BY <3>1, <3>7, <3>10 DEF MoveOf, Move
  <2> QED BY <2>1, <2>2
<1>3. CASE RecvRevokeAndAck(p)
  <2> DEFINE u == AfterRevokeAndAck(s, c.num)
  <2>1. /\ self' = [self EXCEPT ![p] = u] /\ net' = Read(net, p) /\ thread' = thread
    BY <1>3 DEF RecvRevokeAndAck, Save, Environment
  <2>2. Reads(net[p], thread[p], "revoke_and_ack", Tail(net[p]))
    BY <1>3 DEF RecvRevokeAndAck, Receiving, Running, Reads
  <2> HIDE DEF u
  <2>3. self'[p] = u /\ self'[q] = self[q]
    BY <2>1, OthersKept
  <2>4. net'[p] = Tail(net[p]) /\ net'[q] = net[q]
    BY <2>1, PutStreams
  <2>5. AckMove(s, net[p], thread[p], self'[p], net'[p])
    BY <2>2, <2>3, <2>4 DEF AckMove, u
  <2> QED BY <2>1, <2>3, <2>4, <2>5 DEF MoveOf, Move
<1> QED BY <1>2, <1>3

\* The fields a mutual close leaves alone.
CloseKeepsHtlcs(s, u) ==
    /\ u.cnl_add_htlc = s.cnl_add_htlc /\ u.htlc_id_num = s.htlc_id_num
    /\ u.paid_out = s.paid_out /\ u.paid_in = s.paid_in

\* Mutual close.
LEMMA CloseMoves ==
    ASSUME TypeOK, NEW p \in Peer,
           CloseRpc(p) \/ RecvShutdown(p) \/ RecvClosingSigned(p)
    PROVE  MoveOf(p)
<1> DEFINE s == self[p]
           q == Other(p)
<1>1. s \in SelfType
  BY DEF TypeOK
<1>2. /\ <<[type |-> "shutdown"]>> \in Seq(Message)
      /\ \A k \in DOMAIN <<[type |-> "shutdown"]>> :
            <<[type |-> "shutdown"]>>[k].type \in CloseMsg
  BY MessageBuilt DEF CloseMsg
<1>3. <<>> \in Seq(Message) /\ DOMAIN <<>> = {}
  OBVIOUS
<1>4. \A t \in SelfType : CloseKeepsHtlcs(t, SendShutdown(t))
  BY DEF SendShutdown, SelfType, CloseKeepsHtlcs
<1>5. ASSUME NEW u, NEW ms \in Seq(Message), self' = [self EXCEPT ![p] = u],
             CloseKeepsHtlcs(s, u), \A k \in DOMAIN ms : ms[k].type \in CloseMsg,
             thread' = thread,
             \/ net' = Sent(net, p, ms)
             \/ \E type \in CloseMsg : Receiving(p, type) /\ net' = Sent(Read(net, p), p, ms)
      PROVE  MoveOf(p)
  <2>1. self'[p] = u /\ self'[q] = self[q]
    BY <1>5, OthersKept
  <2>2. net'[q] = Put(net[q], thread[q], ms)
    BY <1>5, PutStreams
  <2>3. \/ net'[p] = net[p]
        \/ \E type \in CloseMsg : Reads(net[p], thread[p], type, net'[p])
    BY <1>5, PutStreams DEF Reads, Receiving, Running
  <2>4. CloseMove(s, net[p], net[q], thread[p], thread[q], self'[p], net'[p], net'[q])
    BY <1>5, <2>1, <2>2, <2>3 DEF CloseMove, CloseKeepsHtlcs
  <2> QED BY <1>5, <2>1, <2>4 DEF MoveOf, Move
<1>6. CASE CloseRpc(p)
  <2> DEFINE ms == <<[type |-> "shutdown"]>>
             u == SendShutdown(s)
  <2>1. /\ self' = [self EXCEPT ![p] = u] /\ net' = Sent(net, p, ms) /\ thread' = thread
        /\ CloseKeepsHtlcs(s, u)
        /\ ms \in Seq(Message) /\ \A k \in DOMAIN ms : ms[k].type \in CloseMsg
    BY <1>1, <1>2, <1>4, <1>6 DEF CloseRpc, Save
  <2> HIDE DEF ms, u
  <2> QED BY <1>5, <2>1
<1>7. CASE RecvShutdown(p)
  <2> DEFINE answer == "SEND" \notin s.shutdown_flag
             recvd == [s EXCEPT !.shutdown_flag = @ \cup {"RECV"},
                                !.close_last_fee_sat = 0]
             sent == IF answer THEN SendShutdown(recvd) ELSE recvd
             exch == [sent EXCEPT !.status = "CLOSE_WAIT"]
             last == [exch EXCEPT !.close_last_fee_sat = exch.close_fee_sat]
             reply == IF answer THEN <<[type |-> "shutdown"]>> ELSE <<>>
             closing == [ type |-> "closing_signed",
                          tx |-> PeerClosingTx(s, exch.close_fee_sat) ]
  <2>1. CASE FailChannel(p)
    BY <2>1, FailMoves
  <2>2. CASE ~FailChannel(p)
    <3>1. recvd \in SelfType /\ CloseKeepsHtlcs(s, recvd)
      BY <1>1 DEF SelfType, CloseKeepsHtlcs
    <3> HIDE DEF recvd
    <3>2. sent \in SelfType /\ CloseKeepsHtlcs(s, sent)
      <4>1. SendShutdown(recvd) \in SelfType
        BY <3>1, CloseType
      <4>2. CloseKeepsHtlcs(s, SendShutdown(recvd))
        BY <1>4, <3>1 DEF CloseKeepsHtlcs
      <4> QED BY <3>1, <4>1, <4>2
    <3> HIDE DEF sent
    <3>3. exch \in SelfType /\ CloseKeepsHtlcs(s, exch)
      <4>1. exch \in SelfType
        BY <3>2 DEF SelfType, Status
      <4>2. CloseKeepsHtlcs(sent, exch)
        BY <3>2 DEF SelfType, CloseKeepsHtlcs
      <4> QED BY <3>2, <4>1, <4>2 DEF CloseKeepsHtlcs
    <3> HIDE DEF exch
    <3>4. exch.close_fee_sat \in Nat /\ CloseKeepsHtlcs(s, last)
      <4>1. CloseKeepsHtlcs(exch, last) /\ exch.close_fee_sat \in Nat
        BY <3>3 DEF SelfType, CloseKeepsHtlcs
      <4> QED BY <3>3, <4>1 DEF CloseKeepsHtlcs
    <3>5. closing \in Message /\ closing.type \in CloseMsg
      <4>1. PeerClosingTx(s, exch.close_fee_sat) \in ClosingTxType
        BY <1>1, <3>4, CloseType
      <4> QED BY <4>1, MessageBuilt DEF CloseMsg
    <3>6. reply \in Seq(Message) /\ \A k \in DOMAIN reply : reply[k].type \in CloseMsg
      BY <1>2, <1>3
    <3>7. /\ Receiving(p, "shutdown") /\ thread' = thread
          /\ \/ Save(p, last) /\ net' = Sent(Read(net, p), p, Append(reply, closing))
             \/ Save(p, exch) /\ net' = Sent(Read(net, p), p, reply)
      BY <1>7, <2>2
      DEF RecvShutdown, Environment, last, exch, sent, recvd, reply, closing
    <3> HIDE DEF closing, reply, last
    <3>8. /\ Append(reply, closing) \in Seq(Message)
          /\ \A k \in DOMAIN Append(reply, closing) :
                Append(reply, closing)[k].type \in CloseMsg
      BY <3>5, <3>6
    <3>9. "shutdown" \in CloseMsg
      BY DEF CloseMsg
    <3> DEFINE both == Append(reply, closing)
    <3> HIDE DEF both
    <3>10. /\ both \in Seq(Message) /\ \A k \in DOMAIN both : both[k].type \in CloseMsg
           /\ \/ Save(p, last) /\ net' = Sent(Read(net, p), p, both)
              \/ Save(p, exch) /\ net' = Sent(Read(net, p), p, reply)
      BY <3>7, <3>8 DEF both
    <3> QED BY <1>5, <3>3, <3>4, <3>6, <3>7, <3>9, <3>10 DEF Save
  <2> QED BY <2>1, <2>2
<1>8. CASE RecvClosingSigned(p)
  <2> DEFINE m == Head(net[p])
             tx == m.tx
             signed == [s EXCEPT !.commit_local.signature = tx]
             spent == [signed EXCEPT !.status = "CLOSE_SPENT"]
             agreed == [signed EXCEPT !.close_fee_sat = tx.fee_sat,
                                      !.close_last_fee_sat = tx.fee_sat]
             closing == [ type |-> "closing_signed",
                          tx |-> PeerClosingTx(s, tx.fee_sat) ]
  <2>1. Receiving(p, "closing_signed")
    BY <1>8 DEF RecvClosingSigned
  <2>2. net[p] # <<>> /\ m.type = "closing_signed" /\ m \in Message
    BY <2>1, StreamType DEF Receiving, TypeOK
  <2>3. tx \in ClosingTxType /\ tx.fee_sat \in Nat
    BY <2>2, MessageFields DEF ClosingTxType
  <2>4. closing \in Message /\ closing.type \in CloseMsg
    <3>1. PeerClosingTx(s, tx.fee_sat) \in ClosingTxType
      BY <1>1, <2>3, CloseType
    <3> QED BY <3>1, MessageBuilt DEF CloseMsg
  <2>5. CloseKeepsHtlcs(s, spent) /\ CloseKeepsHtlcs(s, agreed)
    BY <1>1 DEF SelfType, CloseKeepsHtlcs
  <2> HIDE DEF spent, agreed, closing, m
  <2>6. \/ FailChannel(p)
        \/ Stop(p, "aborted") /\ UNCHANGED self
        \/ Save(p, spent) /\ net' = Read(net, p) /\ thread' = thread
        \/ Save(p, agreed) /\ net' = Sent(Read(net, p), p, <<closing>>) /\ thread' = thread
    BY <1>8 DEF RecvClosingSigned, Environment, m, spent, agreed, closing
  <2>7. "closing_signed" \in CloseMsg
    BY DEF CloseMsg
  <2>8. CASE FailChannel(p)
    BY <2>8, FailMoves
  <2>9. CASE Stop(p, "aborted") /\ UNCHANGED self
    BY <2>9, StopMoves
  <2>10. CASE Save(p, spent) /\ net' = Read(net, p) /\ thread' = thread
    <3>1. self'[p] = spent /\ self'[q] = self[q]
      BY <2>10, OthersKept DEF Save
    <3>2. net'[p] = Tail(net[p]) /\ net'[q] = net[q]
      BY <2>10, PutStreams
    <3>3. net[q] = Put(net[q], thread[q], <<>>)
      <4>1. net[q] \in Seq(Message)
        BY PeerFacts DEF TypeOK
      <4> QED BY <4>1 DEF Put
    <3>4. Reads(net[p], thread[p], "closing_signed", net'[p])
      BY <2>1, <3>2 DEF Reads, Receiving, Running
    <3>5. CloseMove(s, net[p], net[q], thread[p], thread[q], self'[p], net'[p], net'[q])
      BY <1>3, <2>5, <2>7, <3>1, <3>2, <3>3, <3>4 DEF CloseMove, CloseKeepsHtlcs
    <3> QED BY <2>10, <3>1, <3>5 DEF MoveOf, Move
  <2>11. CASE Save(p, agreed) /\ net' = Sent(Read(net, p), p, <<closing>>) /\ thread' = thread
    <3> DEFINE ms == <<closing>>
    <3>1. /\ ms \in Seq(Message) /\ \A k \in DOMAIN ms : ms[k].type \in CloseMsg
          /\ net' = Sent(Read(net, p), p, ms)
      BY <2>4, <2>11
    <3>2. self' = [self EXCEPT ![p] = agreed]
      BY <2>11 DEF Save
    <3> HIDE DEF ms
    <3> QED BY <1>5, <2>1, <2>5, <2>7, <2>11, <3>1, <3>2
  <2> QED BY <2>6, <2>8, <2>9, <2>10, <2>11
<1> QED BY <1>6, <1>7, <1>8

\* Unilateral close, and the end that sees its peer go.
LEMMA ForceMoves ==
    ASSUME TypeOK, NEW p \in Peer, CloseForce(p) \/ PeerGone(p)
    PROVE  UNCHANGED <<self, net, thread>> \/ MoveOf(p)
<1>1. CASE ForceStop(p)
  BY <1>1, StopMoves DEF ForceStop
<1>2. CASE PeerGone(p)
  BY <1>2, StopMoves DEF PeerGone
<1>3. CASE ForceLoad(p) \/ ForceBroadcast(p)
  BY <1>3 DEF ForceLoad, ForceBroadcast
<1> QED BY <1>1, <1>2, <1>3 DEF CloseForce

\* Every step.
LEMMA StepMoves ==
    ASSUME TypeOK, ExchangeInv, \A p \in Peer : EndOK(self[p]), [Next]_vars
    PROVE  UNCHANGED <<self, net, thread>> \/ \E p \in Peer : MoveOf(p)
<1>1. CASE UNCHANGED vars
  BY <1>1 DEF vars
<1>2. ASSUME NEW p \in Peer,
             \/ Offer(p) \/ OtherChannel(p) \/ Idle(p) \/ Receive(p)
             \/ CloseRpc(p) \/ CloseForce(p) \/ PeerGone(p)
      PROVE  UNCHANGED <<self, net, thread>> \/ MoveOf(p)
  BY <1>2, OfferMoves, IdleMoves, UpdateMoves, CommitMoves, CloseMoves, ForceMoves
     DEF Receive
<1> QED BY <1>1, <1>2 DEF Next

----------------------------------------------------------------------------
(* The theorems.                                                           *)

\* The invariant, seen from one end.
Fit(p) ==
    EndsFit(self[p], self[Other(p)], net[p], net[Other(p)],
            thread[p], thread[Other(p)])

\* PairInv is the pairing seen from both ends, or from either.
LEMMA FitBoth ==
    ASSUME NEW p \in Peer
    PROVE  PairInv <=> Fit(p)
<1> DEFINE q == Other(p)
<1>1. q \in Peer /\ q # p /\ Other(q) = p /\ Peer = {p, q}
  BY PeerFacts DEF Peer, Other
<1>2. PairInv => Fit(p)
  BY <1>1 DEF PairInv, Fit, EndsFit, Running
<1>3. Fit(p) => PairInv
  BY <1>1 DEF PairInv, Fit, EndsFit, Running
<1> QED BY <1>2, <1>3

\* The invariant, from either end.
SomeFit == \E p \in Peer : Fit(p)

\* One end is enough.
LEMMA SomeFitPairs == SomeFit => PairInv
BY FitBoth DEF SomeFit

\* No HTLC at first.
LEMMA InitFit == Init => PairInv
<1> SUFFICES ASSUME Init PROVE PairInv
  OBVIOUS
<1>1. \A p \in Peer : /\ self[p] = InitSelf /\ self[Other(p)] = InitSelf
                      /\ net[p] = <<>> /\ net[Other(p)] = <<>>
  BY PeerFacts DEF Init
<1> DEFINE s == InitSelf
<1>2. /\ \A i \in Slot : s.cnl_add_htlc[i] = EmptyHtlc
      /\ s.paid_out = {} /\ s.paid_in = {}
  BY DEF InitSelf
<1>3. /\ ~IsOffered(EmptyHtlc) /\ ~IsReceived(EmptyHtlc) /\ ~IsOwn(EmptyHtlc)
      /\ SlotOK(EmptyHtlc)
  BY DEF IsOffered, IsReceived, IsOwn, SlotOK, EmptyHtlc
<1> HIDE DEF s
<1>4. EndOK(s)
  BY <1>2, <1>3 DEF EndOK
<1>5. Tidy(<<>>) /\ Undeleted(s, <<>>)
  BY <1>2, <1>3, EmptyView DEF Undeleted
<1>6. \A ta, tb : Pairing(s, s, <<>>, <<>>, ta, tb)
  BY <1>2, <1>3, EmptyView
  DEF Pairing, OffersFit, PairsFit, ReceivedFit, UpdatesFit, PaidFit
<1> QED BY <1>1, <1>4, <1>5, <1>6 DEF PairInv, s

\* The HTLC slots of the two ends and the messages between them fit, in every
\* reachable state: PairInv is inductive.
THEOREM PairInvariant == Spec => []PairInv
<1>1. TypeOK /\ ExchangeInv /\ PairInv /\ [Next]_vars => PairInv'
  <2> SUFFICES ASSUME TypeOK, ExchangeInv, PairInv, [Next]_vars
               PROVE  PairInv'
    OBVIOUS
  <2>1. \A p \in Peer : EndOK(self[p])
    BY DEF PairInv
  <2>2. CASE UNCHANGED <<self, net, thread>>
    BY <2>2 DEF PairInv, Running
  <2>3. ASSUME NEW p \in Peer, MoveOf(p)
        PROVE  PairInv'
    <3> DEFINE q == Other(p)
    <3>1. /\ self[p] \in SelfType /\ self[q] \in SelfType
          /\ net[p] \in Seq(Message) /\ net[q] \in Seq(Message)
      BY PeerFacts DEF TypeOK
    <3>2. /\ self'[q] = self[q] /\ thread'[q] = thread[q]
          /\ Move(self[p], net[p], net[q], thread[p], thread[q],
                  self'[p], net'[p], net'[q], thread'[p])
      BY <2>3 DEF MoveOf
    <3>3. EndsFit(self[p], self[q], net[p], net[q], thread[p], thread[q])
      BY FitBoth DEF Fit
    <3>4. EndsFit(self'[p], self'[q], net'[p], net'[q], thread'[p], thread'[q])
      BY <3>1, <3>2, <3>3, MoveFits
    <3>5. SomeFit'
      BY <3>4 DEF SomeFit, Fit
    <3>6. SomeFit' => PairInv'
      BY SomeFitPairs, PTL
    <3> QED BY <3>5, <3>6
  <2> QED BY <2>1, <2>2, <2>3, StepMoves
<1> QED BY <1>1, InitFit, ExchangeInvariant, PTL DEF Spec

\* A payment one end has made and the other has not booked is still in a slot
\* of the receiver, settled as fulfilled and signed for.
LEMMA PaidOutHeld ==
    ASSUME NEW O, NEW R, NEW a, NEW b, NEW ta, NEW tb,
           EndOK(O), Pairing(O, R, a, b, ta, tb),
           NEW x \in O.paid_out, x \notin R.paid_in
    PROVE  \E j \in Slot :
              /\ IsReceived(R.cnl_add_htlc[j]) /\ Ref(R.cnl_add_htlc[j]) = x
              /\ R.cnl_add_htlc[j].delhtlc = "FULFILL"
              /\ R.cnl_add_htlc[j].updsend /\ R.cnl_add_htlc[j].comsend
              /\ R.cnl_add_htlc[j].revrecv \/ Acking(b) \/ tb # "run"
<1>1. PICK j \in Slot : IsReceived(R.cnl_add_htlc[j]) /\ Ref(R.cnl_add_htlc[j]) = x
  BY DEF Pairing, PaidFit
<1> DEFINE g == R.cnl_add_htlc[j]
<1>2. x.id = g.id
  BY <1>1 DEF Ref
<1>3. \A i \in Slot : IsOffered(O.cnl_add_htlc[i]) => O.cnl_add_htlc[i].id # g.id
  <2>1. \A i \in Slot : IsOffered(O.cnl_add_htlc[i]) => IsOwn(O.cnl_add_htlc[i])
    BY DEF EndOK, SlotOK, IsOffered, IsOwn
  <2> QED BY <1>2, <2>1 DEF EndOK
<1>4. OffererGone(g, O, a, b, tb)
  BY <1>1, <1>3 DEF Pairing, ReceivedFit
<1>5. /\ g.delhtlc = "FULFILL" /\ g.updsend /\ g.comsend
      /\ g.revrecv \/ Acking(b) \/ tb # "run"
  BY <1>1, <1>4 DEF OffererGone
<1> QED BY <1>1, <1>5

\* A payment one end has received and the other has not booked is still in a
\* slot of the offerer, settled as fulfilled in the offerer's commitment.
LEMMA PaidInHeld ==
    ASSUME NEW O, NEW R, NEW a, NEW b, NEW ta, NEW tb,
           EndOK(O), EndOK(R), Pairing(O, R, a, b, ta, tb),
           NEW x \in R.paid_in, x \notin O.paid_out
    PROVE  \E i \in Slot :
              /\ IsOffered(O.cnl_add_htlc[i]) /\ Ref(O.cnl_add_htlc[i]) = x
              /\ O.cnl_add_htlc[i].delhtlc = "FULFILL" /\ O.cnl_add_htlc[i].comrecv
<1>1. PICK i \in Slot : IsOffered(O.cnl_add_htlc[i]) /\ Ref(O.cnl_add_htlc[i]) = x
  BY DEF Pairing, PaidFit
<1> DEFINE h == O.cnl_add_htlc[i]
<1>2. x.id = h.id
  BY <1>1 DEF Ref
<1>3. \A j \in Slot : IsReceived(R.cnl_add_htlc[j]) => R.cnl_add_htlc[j].id # h.id
  BY <1>2 DEF EndOK
<1>4. IsOwn(h) /\ IsOffered(h)
  BY <1>1 DEF EndOK, SlotOK, IsOffered, IsOwn
<1>5. h.updsend
  BY <1>2, <1>4 DEF Pairing, OffersFit, Unheard
<1>6. ~AddSent(h, a, b)
  <2>1. AddSent(h, a, b) => Adding(b, h.id)
    BY DEF AddSent, AddingRef, Adding, Ref
  <2> QED BY <1>2, <2>1 DEF Pairing, UpdatesFit
<1>7. ReceiverGone(h, R, a, b, tb)
  BY <1>3, <1>4, <1>5, <1>6 DEF Pairing, OffersFit
<1>8. h.delhtlc = "FULFILL" /\ h.comrecv
  BY <1>1, <1>7 DEF ReceiverGone
<1> QED BY <1>1, <1>8

\* The two ends never disagree on who was paid, for every number of slots and
\* HTLCs, every fate of an HTLC and however the channel stops: an amount that
\* recv_idle_proc_final has moved on one side is moved, or settled as
\* fulfilled, on the other.
THEOREM PaymentsAlwaysAgree == Spec => []PaymentsAgree
<1>1. PairInv => PaymentsAgree
  <2> SUFFICES ASSUME PairInv, NEW p \in Peer
               PROVE  LET s == self[p]
                          t == self[Other(p)]
                      IN  /\ s.paid_out \subseteq t.paid_in \cup Settling(t, "RECV")
                          /\ s.paid_in \subseteq t.paid_out \cup Settling(t, "OFFER")
    BY DEF PaymentsAgree
  <2> DEFINE s == self[p]
             t == self[Other(p)]
             a == net[p]
             b == net[Other(p)]
             ta == thread[p]
             tb == thread[Other(p)]
  <2>1. /\ EndOK(s) /\ EndOK(t)
        /\ Pairing(s, t, a, b, ta, tb) /\ Pairing(t, s, b, a, tb, ta)
    BY FitBoth DEF Fit, EndsFit
  <2> HIDE DEF s, t, a, b, ta, tb
  <2>2. ASSUME NEW x \in s.paid_out, x \notin t.paid_in
        PROVE  x \in Settling(t, "RECV")
    BY <2>1, <2>2, PaidOutHeld DEF Settling, IsReceived
  <2>3. ASSUME NEW x \in s.paid_in, x \notin t.paid_out
        PROVE  x \in Settling(t, "OFFER")
    BY <2>1, <2>3, PaidInHeld DEF Settling, IsOffered
  <2>4. /\ s.paid_out \subseteq t.paid_in \cup Settling(t, "RECV")
        /\ s.paid_in \subseteq t.paid_out \cup Settling(t, "OFFER")
    BY <2>2, <2>3
  <2> QED BY <2>4 DEF s, t
<1> QED BY <1>1, PairInvariant, PTL

\* When no HTLC is refused before its addition is exchanged, a deletion always
\* finds the HTLC it is about, exchanged both ways: clear_htlc_comrevflag
\* never drops one.
THEOREM DeletionsApply ==
    ASSUME "NEXT_SHUTDOWN" \notin Fates
    PROVE  Spec => []DeletionApplies
<1>1. TypeOK /\ PairInv => DeletionApplies
  <2> SUFFICES ASSUME TypeOK, PairInv, NEW p \in Peer, NEW type \in UpdateType,
                      Receiving(p, type)
               PROVE  \E i \in Slot : /\ OfferedSlot(self[p], Head(net[p]).id, i)
                                      /\ Exchanged(self[p].cnl_add_htlc[i])
    BY DEF DeletionApplies
  <2> DEFINE s == self[p]
             t == self[Other(p)]
             a == net[p]
             b == net[Other(p)]
             ta == thread[p]
             tb == thread[Other(p)]
             n == Head(a).id
  <2>1. /\ EndOK(s) /\ Tidy(a) /\ Pairing(s, t, a, b, ta, tb)
    BY FitBoth DEF Fit, EndsFit
  <2>2. a \in Seq(Message) /\ a # <<>> /\ Head(a).type = type /\ s \in SelfType
    BY DEF TypeOK, Receiving
  <2>3. PICK del \in Deletion : type = DelType(del)
    <3>1. /\ DelType("FULFILL") = "update_fulfill_htlc"
          /\ DelType("FAIL") = "update_fail_htlc"
          /\ DelType("MALFORMED") = "update_fail_malformed_htlc"
      BY DEF DelType
    <3>2. "FULFILL" \in Deletion /\ "FAIL" \in Deletion /\ "MALFORMED" \in Deletion
      BY DEF Deletion, DelHtlc
    <3> QED BY <3>1, <3>2 DEF UpdateType
  <2>4. ReadView(a, Tail(a), Head(a))
    BY <2>1, <2>2, ReadViews
  <2>5. Deleting(a, n, del)
    BY <2>2, <2>3, <2>4 DEF ReadView
  <2>6. ~Doomable
    BY DEF Doomable
  <2> HIDE DEF s, t, a, b, ta, tb, n
  <2>7. PICK j \in Slot : IsReceived(t.cnl_add_htlc[j]) /\ t.cnl_add_htlc[j].id = n
    BY <2>1, <2>5, <2>6 DEF Pairing, UpdatesFit
  <2> DEFINE g == t.cnl_add_htlc[j]
  <2>8. ~NotDeleting(a, n)
    BY <2>5 DEF NotDeleting
  <2>9. ~OffererGone(g, s, a, b, tb)
    BY <2>6, <2>7, <2>8 DEF OffererGone
  <2>10. PICK i \in Slot : IsOffered(s.cnl_add_htlc[i]) /\ s.cnl_add_htlc[i].id = g.id
    BY <2>1, <2>7, <2>9 DEF Pairing, ReceivedFit
  <2> DEFINE h == s.cnl_add_htlc[i]
  <2>11. Paired(h, g, a, b, ta, tb)
    BY <2>1, <2>7, <2>10 DEF Pairing, PairsFit
  <2>12. DelSent(h, g, a, b) \/ DelLost(h, g, a, b, ta)
    BY <2>6, <2>7, <2>8, <2>10, <2>11
    DEF Paired, Added, DelDecided, DelKnown, Doomed
  <2>13. ta = "run"
    BY DEF Receiving, Running, ta
  <2>14. Exchanged(h)
    BY <2>12, <2>13 DEF DelSent, DelLost
  <2>15. OfferedSlot(s, n, i)
    <3>1. \A k \in Slot : IsOffered(s.cnl_add_htlc[k]) => IsOwn(s.cnl_add_htlc[k])
      BY <2>1 DEF EndOK, SlotOK, IsOffered, IsOwn
    <3>2. \A k \in Slot : IsOffered(s.cnl_add_htlc[k]) /\ s.cnl_add_htlc[k].id = n => k = i
      BY <2>1, <2>7, <2>10, <3>1 DEF EndOK
    <3>3. \A k \in 0 .. i - 1 : k \in Slot /\ k # i
      BY HtlcMaxAssumption DEF Slot
    <3> QED BY <2>7, <2>10, <3>2, <3>3 DEF OfferedSlot, IsOffered
  <2> QED BY <2>14, <2>15 DEF s, n, a
<1> QED BY <1>1, TypeCorrect, PairInvariant, PTL

----------------------------------------------------------------------------
(* The transaction under way stays the one its reader will build.          *)

\* What s expects of q and what u expects of r is the same.
SameSig(s, q, u, r) ==
    /\ OfferedAt(u, r) = OfferedAt(s, q) /\ ReceivedAt(u, r) = ReceivedAt(s, q)
    /\ PaidOutAt(u, r) = PaidOutAt(s, q) /\ PaidInAt(u, r) = PaidInAt(s, q)

\* A slot counts as before.
SameCount(h, g, q, r) ==
    /\ SigOffered(g, r) <=> SigOffered(h, q)
    /\ SigReceived(g, r) <=> SigReceived(h, q)
    /\ SigPaidOut(g, r) <=> SigPaidOut(h, q)
    /\ SigPaidIn(g, r) <=> SigPaidIn(h, q)
    /\ \/ SigOffered(h, q) \/ SigReceived(h, q) \/ SigPaidOut(h, q) \/ SigPaidIn(h, q)
       => Ref(g) = Ref(h)

\* Every slot counts as before.
LEMMA SlotsSig ==
    ASSUME NEW s, NEW u, NEW q, NEW r,
           \A i \in Slot : SameCount(s.cnl_add_htlc[i], u.cnl_add_htlc[i], q, r),
           u.paid_out = s.paid_out, u.paid_in = s.paid_in, AddRefs(r) = AddRefs(q)
    PROVE  SameSig(s, q, u, r)
<1>1. OfferedAt(u, r) = OfferedAt(s, q)
  BY DEF OfferedAt, SameCount
<1>2. ReceivedAt(u, r) = ReceivedAt(s, q)
  BY DEF ReceivedAt, SameCount
<1>3. PaidOutAt(u, r) = PaidOutAt(s, q)
  BY DEF PaidOutAt, SameCount
<1>4. PaidInAt(u, r) = PaidInAt(s, q)
  BY DEF PaidInAt, SameCount
<1> QED BY <1>1, <1>2, <1>3, <1>4 DEF SameSig

\* What the expectation reads of a stream.
SameForSig(q, r) ==
    /\ \A n : \A del \in Deletion : Deleting(r, n, del) <=> Deleting(q, n, del)
    /\ AckAhead(r) <=> AckAhead(q)
    /\ \A x : AddingRef(r, x) <=> AddingRef(q, x)

\* The additions under way, element by element.
LEMMA AddRefsView ==
    ASSUME NEW q
    PROVE  \A x : x \in AddRefs(q) =>
                AddingRef(q, x) /\ x = [id |-> x.id, amount_msat |-> x.amount_msat]
BY DEF AddRefs, AddingRef, Ref

\* And back.
LEMMA AddRefsOf ==
    ASSUME NEW q, NEW i, NEW n, AddingRef(q, [id |-> i, amount_msat |-> n])
    PROVE  [id |-> i, amount_msat |-> n] \in AddRefs(q)
BY DEF AddRefs, AddingRef, Ref

\* The HTLCs under way are the ones announced.
LEMMA AddRefsSame ==
    ASSUME NEW q, NEW r, \A x : AddingRef(r, x) <=> AddingRef(q, x)
    PROVE  AddRefs(r) = AddRefs(q)
<1>1. ASSUME NEW a, NEW b, \A x : AddingRef(a, x) => AddingRef(b, x),
             NEW x \in AddRefs(a)
      PROVE  x \in AddRefs(b)
  <2>1. AddingRef(a, x) /\ x = [id |-> x.id, amount_msat |-> x.amount_msat]
    BY AddRefsView
  <2>2. AddingRef(b, x)
    BY <1>1, <2>1
  <2>3. AddingRef(b, [id |-> x.id, amount_msat |-> x.amount_msat])
    BY <2>1, <2>2
  <2>4. [id |-> x.id, amount_msat |-> x.amount_msat] \in AddRefs(b)
    BY <2>3, AddRefsOf
  <2> QED BY <2>1, <2>4
<1> QED BY <1>1

\* The stream changes in nothing the expectation reads.
LEMMA StreamSig ==
    ASSUME NEW s, NEW q, NEW r, SameForSig(q, r)
    PROVE  SameSig(s, q, s, r)
<1>1. AddRefs(r) = AddRefs(q)
  BY AddRefsSame DEF SameForSig
<1>2. \A n : NotDeleting(r, n) <=> NotDeleting(q, n)
  BY DEF SameForSig, NotDeleting
<1>3. "FULFILL" \in Deletion
  BY DEF Deletion, DelHtlc
<1>4. \A i \in Slot : SameCount(s.cnl_add_htlc[i], s.cnl_add_htlc[i], q, r)
  BY <1>2, <1>3
  DEF SameForSig, SameCount, SigOffered, SigReceived, SigPaidOut, SigPaidIn, Arrived
<1> QED BY <1>1, <1>4, SlotsSig

\* The expectation is the same, and no commitment_signed is new.
LEMMA SigsKept ==
    ASSUME NEW s, NEW q, NEW u, NEW r, SigsFit(s, q), SameSig(s, q, u, r),
           \A k \in DOMAIN r : r[k].type = "commitment_signed" =>
              \E j \in DOMAIN q : q[j] = r[k]
    PROVE  SigsFit(u, r)
BY DEF SigsFit, SigOK, SameSig

\* Without a commitment_signed there is nothing to expect.
LEMMA NoSigs ==
    ASSUME NEW u, NEW r, ~Signing(r)
    PROVE  SigsFit(u, r)
BY DEF SigsFit, Signing

\* One slot changes that counts for nothing before and after.
LEMMA PutSig ==
    ASSUME NEW s, NEW u, NEW q, NEW i \in Slot, NEW h, SlotPut(s, u, i, h),
           SameCount(s.cnl_add_htlc[i], h, q, q), SigsFit(s, q)
    PROVE  SigsFit(u, q)
<1>1. \A j \in Slot : SameCount(s.cnl_add_htlc[j], s.cnl_add_htlc[j], q, q)
  BY DEF SameCount
<1>2. \A j \in Slot : SameCount(s.cnl_add_htlc[j], u.cnl_add_htlc[j], q, q)
  BY <1>1 DEF SlotPut
<1>3. SameSig(s, q, u, q)
  BY <1>2, SlotsSig DEF SlotPut
<1> QED BY <1>3, SigsKept

\* A free slot takes an HTLC to offer.
LEMMA OfferSigs ==
    ASSUME NEW s \in SelfType, NEW t \in SelfType,
           NEW a \in Seq(Message), NEW b \in Seq(Message), NEW ta, NEW tb,
           EndsFit(s, t, a, b, ta, tb), ~Doomable, SigsFit(s, a),
           NEW i \in Slot, FreeSlot(s, i), NEW amt \in Nat, amt # 0,
           NEW u, u = ln_add_htlc_set(s, i, amt) \/ u = ln_add_htlc_set_fwd(s, i, amt)
    PROVE  SigsFit(u, a)
<1> DEFINE n == s.htlc_id_num
<1>1. EndOK(s) /\ EndOK(t) /\ Pairing(s, t, a, b, ta, tb)
  BY DEF EndsFit
<1>2. s.cnl_add_htlc[i] = EmptyHtlc
  BY <1>1 DEF EndOK, SlotOK, FreeSlot
<1>3. n \in Nat /\ ~(n < n)
  BY DEF SelfType
<1> HIDE DEF n
<1>4. PICK h : /\ SlotPut(s, u, i, h)
               /\ h = WaitingHtlc(n, amt) \/ h = NewOffer(n, amt)
  BY <1>1, OfferPut DEF n
<1>5. /\ h.id = n /\ h.addhtlc # "RECV" /\ h.delhtlc = "NONE" /\ ~h.updsend
  BY <1>4 DEF WaitingHtlc, NewOffer, EmptyHtlc
<1>6. ~Deleting(a, n, "FULFILL")
  <2>1. "FULFILL" \in Deletion
    BY DEF Deletion, DelHtlc
  <2> QED BY <1>1, <1>3, <2>1 DEF Pairing, UpdatesFit, n
<1>7. ~IsOffered(EmptyHtlc) /\ ~IsReceived(EmptyHtlc)
  BY DEF IsOffered, IsReceived, EmptyHtlc
<1>8. SameCount(EmptyHtlc, h, a, a)
  BY <1>5, <1>6, <1>7
  DEF SameCount, SigOffered, SigReceived, SigPaidOut, SigPaidIn, IsReceived
<1> QED BY <1>2, <1>4, <1>8, PutSig

\* A forwarded HTLC gets its direction.
LEMMA StartSigs ==
    ASSUME NEW s \in SelfType, NEW t \in SelfType,
           NEW a \in Seq(Message), NEW b \in Seq(Message), NEW ta, NEW tb,
           EndsFit(s, t, a, b, ta, tb), SigsFit(s, a),
           NEW i \in Slot, LN_HTLC_ENABLE(s.cnl_add_htlc[i]),
           s.cnl_add_htlc[i].addhtlc = "NONE"
    PROVE  SigsFit(ln_add_htlc_start_fwd(s, i), a)
<1> DEFINE u == ln_add_htlc_start_fwd(s, i)
           g == s.cnl_add_htlc[i]
           h == [g EXCEPT !.addhtlc = "OFFER"]
<1>1. EndOK(s) /\ Pairing(s, t, a, b, ta, tb)
  BY DEF EndsFit
<1>2. SlotPut(s, u, i, h)
  BY OtherPut
<1>3. g \in HtlcType
  BY SlotHolds
<1>4. SlotOK(g) /\ g.amount_msat # 0 /\ g.addhtlc = "NONE"
  BY <1>1 DEF EndOK, LN_HTLC_ENABLE, LN_HTLC_EMPTY
<1>5. ~g.updsend /\ g.delhtlc = "NONE" /\ IsOwn(g)
  BY <1>4 DEF SlotOK, IsOwn
<1>6. NotDeleting(a, g.id)
  BY <1>1, <1>5 DEF Pairing, OffersFit, Unheard
<1> HIDE DEF g
<1>7. h.id = g.id /\ h.addhtlc = "OFFER" /\ h.delhtlc = g.delhtlc /\ h.updsend = g.updsend
  BY <1>3 DEF HtlcType
<1>8. ~Deleting(a, h.id, "FULFILL")
  BY <1>6, <1>7 DEF NotDeleting, Deletion, DelHtlc
<1> HIDE DEF h
<1>9. SameCount(g, h, a, a)
  BY <1>4, <1>5, <1>7, <1>8
  DEF SameCount, SigOffered, SigReceived, SigPaidOut, SigPaidIn, IsReceived, IsOffered
<1> QED BY <1>2, <1>9, PutSig DEF u, g

\* The next channel has resolved a forwarded HTLC.
LEMMA BackwindSigs ==
    ASSUME NEW s \in SelfType, NEW a, EndOK(s), SigsFit(s, a),
           NEW i \in Slot, Forwarded(s.cnl_add_htlc[i]), NEW del \in Deletion,
           NEW u, SlotPut(s, u, i, clear_htlc_comrevflag(s.cnl_add_htlc[i], del))
    PROVE  SigsFit(u, a)
<1> DEFINE g == s.cnl_add_htlc[i]
           h == clear_htlc_comrevflag(g, del)
<1>1. g \in HtlcType /\ Forwarded(g) /\ SlotOK(g)
  BY SlotHolds DEF EndOK
<1>2. SlotPut(s, u, i, h)
  OBVIOUS
<1> HIDE DEF g
<1>3. h.id = g.id /\ h.amount_msat = g.amount_msat /\ h.addhtlc = "RECV" /\ h.updsend = g.updsend
  BY <1>1 DEF HtlcType, Forwarded, clear_htlc_comrevflag
<1>4. ~g.updsend /\ g.addhtlc = "RECV"
  BY <1>1 DEF SlotOK, Forwarded, IsReceived
<1> HIDE DEF h
<1>5. SameCount(g, h, a, a)
  BY <1>3, <1>4
  DEF SameCount, SigOffered, SigReceived, SigPaidOut, SigPaidIn, IsReceived, IsOffered, Ref
<1> QED BY <1>2, <1>5, PutSig DEF g

\* A slot that has the same flags counts as before.
LEMMA SameHtlcCounts ==
    ASSUME NEW h, NEW g, NEW q, SameHtlc(h, g)
    PROVE  SameCount(h, g, q, q)
BY DEF SameHtlc, SameCount, SigOffered, SigReceived, SigPaidOut, SigPaidIn, Arrived,
       IsOffered, IsReceived, Ref

\* A slot without a direction counts for nothing.
LEMMA NoCount ==
    ASSUME NEW h, NEW q, h.addhtlc = "NONE"
    PROVE  /\ ~SigOffered(h, q) /\ ~SigReceived(h, q)
           /\ ~SigPaidOut(h, q) /\ ~SigPaidIn(h, q)
BY DEF SigOffered, SigReceived, SigPaidOut, SigPaidIn, IsOffered, IsReceived

\* The commitment_signed of the tail of a stream are in the stream.
LEMMA TailSigns ==
    ASSUME NEW q \in Seq(Message), q # <<>>
    PROVE  \A k \in DOMAIN Tail(q) : Tail(q)[k].type = "commitment_signed" =>
              \E j \in DOMAIN q : q[j] = Tail(q)[k]
<1>1. \A k \in DOMAIN Tail(q) : k + 1 \in DOMAIN q /\ Tail(q)[k] = q[k + 1]
  BY TailMessages
<1> QED BY <1>1

\* The offerer that knows of a deletion hears of it no more.
LEMMA KnownDeleted ==
    ASSUME NEW s, NEW t, NEW a, NEW b, NEW ta, NEW tb, ~Doomable,
           EndOK(s), Pairing(s, t, a, b, ta, tb),
           NEW i \in Slot, IsOffered(s.cnl_add_htlc[i]), s.cnl_add_htlc[i].delhtlc # "NONE"
    PROVE  NotDeleting(a, s.cnl_add_htlc[i].id)
<1> DEFINE h == s.cnl_add_htlc[i]
<1>1. h.updsend
  BY DEF EndOK, SlotOK
<1>2. CASE \E j \in Slot : IsReceived(t.cnl_add_htlc[j]) /\ t.cnl_add_htlc[j].id = h.id
  <2>1. PICK j \in Slot : IsReceived(t.cnl_add_htlc[j]) /\ t.cnl_add_htlc[j].id = h.id
    BY <1>2
  <2>2. Paired(h, t.cnl_add_htlc[j], a, b, ta, tb)
    BY <2>1 DEF Pairing, PairsFit
  <2> QED BY <2>2 DEF Paired, Added, DelDecided, DelSent, DelKnown, DelLost, Doomed
<1>3. CASE ~\E j \in Slot : IsReceived(t.cnl_add_htlc[j]) /\ t.cnl_add_htlc[j].id = h.id
  <2>1. AddSent(h, a, b) \/ ReceiverGone(h, t, a, b, tb)
    BY <1>1, <1>3 DEF Pairing, OffersFit
  <2> QED BY <2>1 DEF AddSent, ReceiverGone
<1> QED BY <1>2, <1>3

\* A deletion under way is about an HTLC that is exchanged both ways.
LEMMA DeletedPair ==
    ASSUME NEW s, NEW t, NEW a, NEW b, NEW ta, NEW tb, ~Doomable, ta = "run",
           EndOK(s), Pairing(s, t, a, b, ta, tb),
           NEW n, NEW del \in Deletion, Deleting(a, n, del),
           NEW i \in Slot, IsOffered(s.cnl_add_htlc[i]), s.cnl_add_htlc[i].id = n
    PROVE  Exchanged(s.cnl_add_htlc[i]) /\ s.cnl_add_htlc[i].delhtlc = "NONE"
<1> DEFINE h == s.cnl_add_htlc[i]
<1>1. ~NotDeleting(a, n)
  BY DEF NotDeleting
<1>2. PICK j \in Slot : IsReceived(t.cnl_add_htlc[j]) /\ t.cnl_add_htlc[j].id = n
  BY DEF Pairing, UpdatesFit
<1>3. Paired(h, t.cnl_add_htlc[j], a, b, ta, tb)
  BY <1>2 DEF Pairing, PairsFit
<1>4. DelSent(h, t.cnl_add_htlc[j], a, b)
  BY <1>1, <1>3 DEF Paired, Added, DelDecided, DelKnown, DelLost, Doomed
<1> QED BY <1>4 DEF DelSent

\* recv_idle_proc_final.
LEMMA FinalSigs ==
    ASSUME NEW s \in SelfType, NEW t \in SelfType,
           NEW a, NEW b, NEW ta, NEW tb,
           EndsFit(s, t, a, b, ta, tb), ~Doomable, SigsFit(s, a), Final(s)
    PROVE  SigsFit(AfterFinal(s), a)
<1> DEFINE u == AfterFinal(s)
           h(i) == s.cnl_add_htlc[i]
           g(i) == u.cnl_add_htlc[i]
<1>1. EndOK(s) /\ Pairing(s, t, a, b, ta, tb)
  BY DEF EndsFit
<1>2. /\ \A i \in Slot : FinalSlot(s, h(i), g(i), i)
      /\ u.paid_out = s.paid_out \cup FulfilledRefs(s, "OFFER")
      /\ u.paid_in = s.paid_in \cup FulfilledRefs(s, "RECV")
  BY <1>1, FinalSlots
<1> HIDE DEF u
<1>3. ASSUME NEW i \in Slot, i \notin Removable(s)
      PROVE  SameCount(h(i), g(i), a, a)
  <2>1. SameHtlc(h(i), g(i)) \/ DeletionStarts(h(i), g(i))
    BY <1>2, <1>3 DEF FinalSlot
  <2>2. CASE DeletionStarts(h(i), g(i))
    BY <2>2 DEF DeletionStarts, SameCount, SigOffered, SigReceived, SigPaidOut, SigPaidIn,
         IsOffered, IsReceived
  <2> QED BY <2>1, <2>2, SameHtlcCounts
<1>4. ASSUME NEW i \in Slot, i \in Removable(s)
      PROVE  /\ ~SigOffered(h(i), a) /\ ~SigReceived(h(i), a)
             /\ SigPaidOut(h(i), a) <=> IsOffered(h(i)) /\ h(i).delhtlc = "FULFILL"
             /\ SigPaidIn(h(i), a) <=> IsReceived(h(i)) /\ h(i).delhtlc = "FULFILL"
  <2>1. \/ IsOffered(h(i)) /\ h(i).delhtlc # "NONE"
        \/ IsReceived(h(i)) /\ h(i).updsend /\ h(i).comsend /\ h(i).revrecv
    BY <1>2, <1>4 DEF FinalSlot
  <2>2. CASE IsOffered(h(i)) /\ h(i).delhtlc # "NONE"
    <3>1. NotDeleting(a, h(i).id)
      BY <1>1, <2>2, KnownDeleted
    <3>2. ~Deleting(a, h(i).id, "FULFILL")
      BY <3>1 DEF NotDeleting, Deletion, DelHtlc
    <3> QED BY <2>2, <3>2 DEF SigOffered, SigReceived, SigPaidOut, SigPaidIn,
              IsOffered, IsReceived
  <2>3. CASE IsReceived(h(i)) /\ h(i).updsend /\ h(i).comsend /\ h(i).revrecv
    BY <2>3 DEF SigOffered, SigReceived, SigPaidOut, SigPaidIn, IsOffered, IsReceived, Arrived
  <2> QED BY <2>1, <2>2, <2>3
<1>5. ASSUME NEW i \in Slot, i \in Removable(s)
      PROVE  /\ ~SigOffered(g(i), a) /\ ~SigReceived(g(i), a)
             /\ ~SigPaidOut(g(i), a) /\ ~SigPaidIn(g(i), a)
  <2>1. g(i) = EmptyHtlc
    BY <1>2, <1>5 DEF FinalSlot
  <2>2. g(i).addhtlc = "NONE"
    BY <2>1 DEF EmptyHtlc
  <2> QED BY <2>2, NoCount
<1>6. Removable(s) \subseteq Slot
  BY DEF Removable, Enabled
<1>7. /\ FulfilledRefs(s, "OFFER") =
           {Ref(h(i)) : i \in {j \in Removable(s) : IsOffered(h(j)) /\ h(j).delhtlc = "FULFILL"}}
      /\ FulfilledRefs(s, "RECV") =
           {Ref(h(i)) : i \in {j \in Removable(s) : IsReceived(h(j)) /\ h(j).delhtlc = "FULFILL"}}
  BY DEF FulfilledRefs, IsOffered, IsReceived
<1> HIDE DEF h, g
<1>8. OfferedAt(u, a) = OfferedAt(s, a)
  <2>1. \A i \in Slot : /\ SigOffered(g(i), a) <=> SigOffered(h(i), a)
                        /\ SigOffered(h(i), a) => Ref(g(i)) = Ref(h(i))
    BY <1>3, <1>4, <1>5 DEF SameCount
  <2> QED BY <2>1 DEF OfferedAt, h, g
<1>9. ReceivedAt(u, a) = ReceivedAt(s, a)
  <2>1. \A i \in Slot : /\ SigReceived(g(i), a) <=> SigReceived(h(i), a)
                        /\ SigReceived(h(i), a) => Ref(g(i)) = Ref(h(i))
    BY <1>3, <1>4, <1>5 DEF SameCount
  <2> QED BY <2>1 DEF ReceivedAt, h, g
<1>10. PaidOutAt(u, a) = PaidOutAt(s, a)
  <2>1. {Ref(h(i)) : i \in {j \in Slot : SigPaidOut(h(j), a)}} =
           {Ref(g(i)) : i \in {j \in Slot : SigPaidOut(g(j), a)}}
             \cup FulfilledRefs(s, "OFFER")
    BY <1>3, <1>4, <1>5, <1>6, <1>7 DEF SameCount
  <2>2. /\ PaidOutAt(s, a) = s.paid_out \cup {Ref(h(i)) : i \in {j \in Slot : SigPaidOut(h(j), a)}}
        /\ PaidOutAt(u, a) = u.paid_out \cup {Ref(g(i)) : i \in {j \in Slot : SigPaidOut(g(j), a)}}
    BY DEF PaidOutAt, h, g
  <2> QED BY <1>2, <2>1, <2>2
<1>11. PaidInAt(u, a) = PaidInAt(s, a)
  <2>1. {Ref(h(i)) : i \in {j \in Slot : SigPaidIn(h(j), a)}} =
           {Ref(g(i)) : i \in {j \in Slot : SigPaidIn(g(j), a)}}
             \cup FulfilledRefs(s, "RECV")
    BY <1>3, <1>4, <1>5, <1>6, <1>7 DEF SameCount
  <2>2. /\ PaidInAt(s, a) = s.paid_in \cup {Ref(h(i)) : i \in {j \in Slot : SigPaidIn(h(j), a)}}
        /\ PaidInAt(u, a) = u.paid_in \cup {Ref(g(i)) : i \in {j \in Slot : SigPaidIn(g(j), a)}}
    BY DEF PaidInAt, h, g
  <2> QED BY <1>2, <2>1, <2>2
<1>12. SameSig(s, a, u, a)
  BY <1>8, <1>9, <1>10, <1>11 DEF SameSig
<1> QED BY <1>12, SigsKept DEF u

\* A pass of recv_idle_proc_nonfinal does not change what we expect: nothing
\* we signed is unacknowledged.
LEMMA PassSigs ==
    ASSUME NEW s \in SelfType, NEW a, EndOK(s), SigsFit(s, a),
           ~ComSiging(s), ~Acking(a), NEW cs \in BOOLEAN, NEW tx,
           NEW u, u = IF cs THEN AfterSendCommitmentSigned(AfterUpdates(s), tx)
                            ELSE AfterUpdates(s)
    PROVE  SigsFit(u, a)
<1>1. /\ FlagsOnly(s, u)
      /\ \A i \in Slot : PassSlot(s, s.cnl_add_htlc[i], u.cnl_add_htlc[i], cs)
  BY PassSlots
<1>2. ~AckAhead(a)
  BY DEF Acking, AckAhead
<1>3. ASSUME NEW i \in Slot
      PROVE  SameCount(s.cnl_add_htlc[i], u.cnl_add_htlc[i], a, a)
  <2> DEFINE h == s.cnl_add_htlc[i]
             g == u.cnl_add_htlc[i]
  <2> SUFFICES SameCount(h, g, a, a)
    OBVIOUS
  <2>1. PassSlot(s, h, g, cs) /\ SlotOK(h) /\ h \in HtlcType
    BY <1>1, SlotHolds DEF EndOK
  <2>2. g.id = h.id /\ g.amount_msat = h.amount_msat /\ g.addhtlc = h.addhtlc
    BY <1>1 DEF FlagsOnly, SameSlots
  <2>3. h.comsend = h.revrecv
    BY DEF ComSiging
  <2> HIDE DEF h, g
  <2>4. h.addhtlc \in {"NONE", "OFFER", "RECV"}
    BY <2>1 DEF HtlcType, AddHtlc
  <2>5. CASE h.addhtlc = "NONE"
    BY <2>2, <2>5, NoCount DEF SameCount
  <2>6. CASE IsOffered(h)
    <3>1. OfferedSent(h, g, cs) /\ (h.comsend => h.updsend)
      BY <2>1, <2>6 DEF PassSlot, SlotOK
    <3> QED BY <1>2, <2>2, <2>3, <2>6, <3>1
         DEF OfferedSent, SameCount, SigOffered, SigReceived, SigPaidOut, SigPaidIn,
             Arrived, IsOffered, IsReceived, Ref
  <2>7. CASE IsReceived(h)
    <3>1. /\ ReceivedSent(h, g, cs)
          /\ h.updsend => h.delhtlc # "NONE"
          /\ h.comsend /\ h.delhtlc # "NONE" => h.updsend
      BY <2>1, <2>7 DEF PassSlot, SlotOK
    <3> QED BY <1>2, <2>2, <2>3, <2>7, <3>1
         DEF ReceivedSent, SameCount, SigOffered, SigReceived, SigPaidOut, SigPaidIn,
             Arrived, IsOffered, IsReceived, Ref
  <2> QED BY <2>4, <2>5, <2>6, <2>7 DEF IsOffered, IsReceived
<1>4. SameSig(s, a, u, a)
  BY <1>1, <1>3, SlotsSig DEF FlagsOnly
<1> QED BY <1>4, SigsKept

\* recv_revoke_and_ack: what was ahead of the commitment_signed is here.
LEMMA AckSigs ==
    ASSUME NEW s \in SelfType, NEW a \in Seq(Message), EndOK(s), Tidy(a), SigsFit(s, a),
           a # <<>>, Head(a).type = "revoke_and_ack", NEW num
    PROVE  SigsFit(AfterRevokeAndAck(s, num), Tail(a))
<1> DEFINE u == AfterRevokeAndAck(s, num)
           r == Tail(a)
           m == Head(a)
<1>1. ReadView(a, r, m) /\ m.type = "revoke_and_ack"
  BY ReadViews
<1>2. /\ m.type \notin UpdateType /\ m.type # "update_add_htlc"
  BY DEF UpdateType
<1>3. \A k \in DOMAIN r : r[k].type = "commitment_signed" => \E j \in DOMAIN a : a[j] = r[k]
  BY TailSigns
<1>4. FlagsOnly(s, u)
  BY AckMap
<1>5. \A i \in Slot : /\ IsOffered(s.cnl_add_htlc[i]) =>
                            OfferedAcked(s.cnl_add_htlc[i], u.cnl_add_htlc[i])
                      /\ IsReceived(s.cnl_add_htlc[i]) =>
                            ReceivedAcked(s.cnl_add_htlc[i], u.cnl_add_htlc[i])
  BY AckSlots
<1> HIDE DEF u, r, m
<1>6. /\ \A n : \A del \in Deletion : Deleting(r, n, del) <=> Deleting(a, n, del)
      /\ \A x : AddingRef(r, x) <=> AddingRef(a, x)
      /\ AckAhead(a) /\ ~AckAhead(r)
  BY <1>1, <1>2 DEF ReadView
<1>7. \A n : /\ NotDeleting(r, n) <=> NotDeleting(a, n)
             /\ Deleting(r, n, "FULFILL") <=> Deleting(a, n, "FULFILL")
  BY <1>6 DEF NotDeleting, Deletion, DelHtlc
<1>8. ASSUME NEW i \in Slot
      PROVE  SameCount(s.cnl_add_htlc[i], u.cnl_add_htlc[i], a, r)
  <2> DEFINE h == s.cnl_add_htlc[i]
             g == u.cnl_add_htlc[i]
  <2> SUFFICES SameCount(h, g, a, r)
    OBVIOUS
  <2>1. h \in HtlcType
    BY SlotHolds
  <2>2. g.id = h.id /\ g.amount_msat = h.amount_msat /\ g.addhtlc = h.addhtlc
    BY <1>4 DEF FlagsOnly, SameSlots
  <2>3. /\ IsOffered(h) => OfferedAcked(h, g)
        /\ IsReceived(h) => ReceivedAcked(h, g)
    BY <1>5
  <2> HIDE DEF h, g
  <2>4. h.addhtlc \in {"NONE", "OFFER", "RECV"}
    BY <2>1 DEF HtlcType, AddHtlc
  <2>5. CASE h.addhtlc = "NONE"
    BY <2>2, <2>5, NoCount DEF SameCount
  <2>6. CASE IsOffered(h)
    BY <1>6, <1>7, <2>2, <2>3, <2>6
    DEF OfferedAcked, SameCount, SigOffered, SigReceived, SigPaidOut, SigPaidIn,
        Arrived, IsOffered, IsReceived, Ref
  <2>7. CASE IsReceived(h)
    BY <1>6, <1>7, <2>2, <2>3, <2>7
    DEF ReceivedAcked, SameCount, SigOffered, SigReceived, SigPaidOut, SigPaidIn,
        Arrived, IsOffered, IsReceived, Ref
  <2> QED BY <2>4, <2>5, <2>6, <2>7 DEF IsOffered, IsReceived
<1>9. AddRefs(r) = AddRefs(a)
  BY <1>6, AddRefsSame
<1>10. SameSig(s, a, u, r)
  BY <1>4, <1>8, <1>9, SlotsSig DEF FlagsOnly
<1> QED BY <1>3, <1>10, SigsKept DEF u, r

\* recv_update_fulfill_htlc, recv_update_fail_htlc, recv_update_fail_malformed_htlc.
LEMMA DelSigs ==
    ASSUME NEW s \in SelfType, NEW t \in SelfType,
           NEW a \in Seq(Message), NEW b, NEW ta, NEW tb,
           EndsFit(s, t, a, b, ta, tb), ~Doomable, SigsFit(s, a),
           ta = "run", NEW del \in Deletion, a # <<>>, Head(a).type = DelType(del)
    PROVE  SigsFit(DelOffered(s, Head(a).id, del), Tail(a))
<1> DEFINE m == Head(a)
           n == m.id
           u == DelOffered(s, n, del)
           r == Tail(a)
<1>1. EndOK(s) /\ Tidy(a) /\ Pairing(s, t, a, b, ta, tb)
  BY DEF EndsFit
<1>2. ReadView(a, r, m) /\ m.type = DelType(del)
  BY <1>1, ReadViews
<1>3. \A k \in DOMAIN r : r[k].type = "commitment_signed" => \E j \in DOMAIN a : a[j] = r[k]
  BY TailSigns
<1>4. /\ FlagsOnly(s, u)
      /\ \A i \in Slot :
            /\ IsOffered(s.cnl_add_htlc[i]) =>
                  DelArrived(s.cnl_add_htlc[i], u.cnl_add_htlc[i], n, del)
            /\ ~IsOffered(s.cnl_add_htlc[i]) => u.cnl_add_htlc[i] = s.cnl_add_htlc[i]
  BY <1>1, DelMap
<1>5. /\ m.type \in UpdateType /\ m.type \notin Exchange /\ m.type # "update_add_htlc"
  BY <1>2, DelTypes
<1> HIDE DEF u, r, m
<1>6. /\ \A k : \A d \in Deletion : Deleting(r, k, d) <=> Deleting(a, k, d) /\ k # n
      /\ \A x : AddingRef(r, x) <=> AddingRef(a, x)
      /\ AckAhead(r) <=> AckAhead(a)
      /\ Deleting(a, n, del) /\ \A d \in Deletion : Deleting(a, n, d) => d = del
  BY <1>2, <1>5 DEF ReadView
<1> HIDE DEF n
<1>7. /\ \A k : k # n => (NotDeleting(r, k) <=> NotDeleting(a, k))
      /\ \A k : k # n => (Deleting(r, k, "FULFILL") <=> Deleting(a, k, "FULFILL"))
      /\ ~Deleting(r, n, "FULFILL") /\ ~NotDeleting(a, n)
      /\ Deleting(a, n, "FULFILL") <=> del = "FULFILL"
  <2>1. "FULFILL" \in Deletion
    BY DEF Deletion, DelHtlc
  <2> QED BY <1>6, <2>1 DEF NotDeleting
<1>8. ASSUME NEW i \in Slot
      PROVE  SameCount(s.cnl_add_htlc[i], u.cnl_add_htlc[i], a, r)
  <2> DEFINE h == s.cnl_add_htlc[i]
             g == u.cnl_add_htlc[i]
  <2> SUFFICES SameCount(h, g, a, r)
    OBVIOUS
  <2>1. IsOffered(h) /\ h.id = n => Exchanged(h) /\ h.delhtlc = "NONE"
    BY <1>1, <1>6, DeletedPair
  <2>2. /\ IsOffered(h) => DelArrived(h, g, n, del)
        /\ ~IsOffered(h) => g = h
    BY <1>4
  <2> HIDE DEF h, g
  <2>3. CASE ~IsOffered(h)
    BY <1>6, <2>2, <2>3
    DEF SameCount, SigOffered, SigReceived, SigPaidOut, SigPaidIn, Arrived
  <2>4. CASE IsOffered(h) /\ h.id # n
    <3>1. SameHtlc(h, g)
      BY <2>2, <2>4 DEF DelArrived
    <3> QED BY <1>6, <1>7, <2>4, <3>1
         DEF SameHtlc, SameCount, SigOffered, SigReceived, SigPaidOut, SigPaidIn,
             Arrived, IsOffered, IsReceived, Ref
  <2>5. CASE IsOffered(h) /\ h.id = n
    <3>1. /\ g.id = h.id /\ g.amount_msat = h.amount_msat /\ g.addhtlc = h.addhtlc
          /\ g.delhtlc = del /\ del # "NONE"
      BY <2>1, <2>2, <2>5 DEF DelArrived, Deletion
    <3> QED BY <1>7, <2>1, <2>5, <3>1
         DEF SameCount, SigOffered, SigReceived, SigPaidOut, SigPaidIn,
             IsOffered, IsReceived, Ref
  <2> QED BY <2>3, <2>4, <2>5
<1>9. AddRefs(r) = AddRefs(a)
  BY <1>6, AddRefsSame
<1>10. SameSig(s, a, u, r)
  BY <1>4, <1>8, <1>9, SlotsSig DEF FlagsOnly
<1> QED BY <1>3, <1>10, SigsKept DEF u, r, n, m

\* recv_update_add_htlc: the HTLC moves from the stream to a slot.
LEMMA AddSigs ==
    ASSUME NEW s \in SelfType, NEW t \in SelfType,
           NEW a \in Seq(Message), NEW b, NEW ta, NEW tb,
           EndsFit(s, t, a, b, ta, tb), SigsFit(s, a),
           a # <<>>, Head(a).type = "update_add_htlc",
           NEW i \in Slot, FreeSlot(s, i), NEW fate \in Fates
    PROVE  SigsFit(AcceptAddHtlc(s, i, Head(a), fate), Tail(a))
<1> DEFINE m == Head(a)
           u == AcceptAddHtlc(s, i, m, fate)
           r == Tail(a)
           g == AcceptedHtlc(EmptyHtlc, m, fate)
<1>1. EndOK(s) /\ Tidy(a)
  BY DEF EndsFit
<1>2. s.cnl_add_htlc[i] = EmptyHtlc
  BY <1>1 DEF EndOK, SlotOK, FreeSlot
<1>3. SlotPut(s, u, i, g)
  BY <1>2, AcceptPut
<1>4. /\ g.id = m.id /\ g.amount_msat = m.amount_msat /\ g.addhtlc = "RECV" /\ ~g.updsend
  BY AcceptedSlot
<1>5. ReadView(a, r, m) /\ m.type = "update_add_htlc"
  BY <1>1, ReadViews
<1>6. m.type \notin UpdateType /\ m.type \notin Exchange
  BY <1>5 DEF UpdateType, Exchange
<1>7. \A k \in DOMAIN r : r[k].type = "commitment_signed" => \E j \in DOMAIN a : a[j] = r[k]
  BY TailSigns
<1>8. AddRefs(a) = AddRefs(r) \cup {Ref(m)}
  <2>1. /\ 1 \in DOMAIN a /\ m = a[1]
        /\ \A k \in DOMAIN r : k + 1 \in DOMAIN a /\ r[k] = a[k + 1]
        /\ \A k \in DOMAIN a : k # 1 => k - 1 \in DOMAIN r /\ r[k - 1] = a[k]
    BY TailMessages
  <2> HIDE DEF r, m
  <2>2. \A x \in AddRefs(a) : x \in AddRefs(r) \cup {Ref(m)}
    BY <2>1 DEF AddRefs
  <2>3. \A x \in AddRefs(r) \cup {Ref(m)} : x \in AddRefs(a)
    BY <1>5, <2>1 DEF AddRefs
  <2> QED BY <2>2, <2>3
<1> HIDE DEF u, r, m, g
<1>9. /\ \A k : \A d \in Deletion : Deleting(r, k, d) <=> Deleting(a, k, d)
      /\ AckAhead(r) <=> AckAhead(a)
  BY <1>5, <1>6 DEF ReadView
<1>10. \A k : /\ NotDeleting(r, k) <=> NotDeleting(a, k)
              /\ Deleting(r, k, "FULFILL") <=> Deleting(a, k, "FULFILL")
  BY <1>9 DEF NotDeleting, Deletion, DelHtlc
<1>11. ASSUME NEW j \in Slot, j # i
       PROVE  SameCount(s.cnl_add_htlc[j], u.cnl_add_htlc[j], a, r)
  <2>1. u.cnl_add_htlc[j] = s.cnl_add_htlc[j]
    BY <1>3, <1>11 DEF SlotPut
  <2> QED BY <1>9, <1>10, <2>1
       DEF SameCount, SigOffered, SigReceived, SigPaidOut, SigPaidIn, Arrived
<1>12. LET h == s.cnl_add_htlc[i]
       IN  ~SigOffered(h, a) /\ ~SigReceived(h, a) /\ ~SigPaidOut(h, a) /\ ~SigPaidIn(h, a)
  <2>1. s.cnl_add_htlc[i].addhtlc = "NONE"
    BY <1>2 DEF EmptyHtlc
  <2> QED BY <2>1, NoCount
<1>13. /\ u.cnl_add_htlc[i] = g /\ Ref(g) = Ref(m)
       /\ ~SigOffered(g, r) /\ SigReceived(g, r) /\ ~SigPaidOut(g, r) /\ ~SigPaidIn(g, r)
  BY <1>3, <1>4 DEF SlotPut, Ref, SigOffered, SigReceived, SigPaidOut, SigPaidIn,
       IsOffered, IsReceived
<1>14. u.paid_out = s.paid_out /\ u.paid_in = s.paid_in
  BY <1>3 DEF SlotPut
<1>15. OfferedAt(u, r) = OfferedAt(s, a)
  <2>1. \A j \in Slot : /\ SigOffered(u.cnl_add_htlc[j], r) <=> SigOffered(s.cnl_add_htlc[j], a)
                        /\ SigOffered(s.cnl_add_htlc[j], a) =>
                              Ref(u.cnl_add_htlc[j]) = Ref(s.cnl_add_htlc[j])
    BY <1>11, <1>12, <1>13 DEF SameCount
  <2> QED BY <2>1 DEF OfferedAt
<1>16. PaidOutAt(u, r) = PaidOutAt(s, a)
  <2>1. \A j \in Slot : /\ SigPaidOut(u.cnl_add_htlc[j], r) <=> SigPaidOut(s.cnl_add_htlc[j], a)
                        /\ SigPaidOut(s.cnl_add_htlc[j], a) =>
                              Ref(u.cnl_add_htlc[j]) = Ref(s.cnl_add_htlc[j])
    BY <1>11, <1>12, <1>13 DEF SameCount
  <2> QED BY <1>14, <2>1 DEF PaidOutAt
<1>17. PaidInAt(u, r) = PaidInAt(s, a)
  <2>1. \A j \in Slot : /\ SigPaidIn(u.cnl_add_htlc[j], r) <=> SigPaidIn(s.cnl_add_htlc[j], a)
                        /\ SigPaidIn(s.cnl_add_htlc[j], a) =>
                              Ref(u.cnl_add_htlc[j]) = Ref(s.cnl_add_htlc[j])
    BY <1>11, <1>12, <1>13 DEF SameCount
  <2> QED BY <1>14, <2>1 DEF PaidInAt
<1>18. ReceivedAt(u, r) = ReceivedAt(s, a)
  <2> DEFINE U == {Ref(u.cnl_add_htlc[j]) : j \in {k \in Slot : SigReceived(u.cnl_add_htlc[k], r)}}
             S == {Ref(s.cnl_add_htlc[j]) : j \in {k \in Slot : SigReceived(s.cnl_add_htlc[k], a)}}
  <2>1. U = S \cup {Ref(m)}
    BY <1>11, <1>12, <1>13 DEF SameCount
  <2>2. ReceivedAt(u, r) = U \cup AddRefs(r) /\ ReceivedAt(s, a) = S \cup AddRefs(a)
    BY DEF ReceivedAt
  <2> QED BY <1>8, <2>1, <2>2
<1>19. SameSig(s, a, u, r)
  BY <1>15, <1>16, <1>17, <1>18 DEF SameSig
<1> QED BY <1>7, <1>19, SigsKept DEF u, r, m

----------------------------------------------------------------------------
(* A new commitment_signed is about the commitment its reader will build.  *)

\* What the slots of s put into the commitment it signs for its peer.
SignsOffered(g) == IsReceived(g) /\ g.delhtlc = "NONE" /\ g.comrecv
\* The signer counts its offered HTLC as received by the reader.
SignsReceived(h) == IsOffered(h) /\ ~(h.delhtlc # "NONE" /\ h.comrecv)
\* The signer counts g as paid by the reader.
SignsPaidOut(g) == IsReceived(g) /\ g.delhtlc = "FULFILL"
\* The signer counts h as paid to the reader.
SignsPaidIn(h) == IsOffered(h) /\ h.delhtlc = "FULFILL" /\ h.comrecv

\* The HTLCs in some slots.
SlotRefs(s, P) == {Ref(s.cnl_add_htlc[i]) : i \in P}

\* tx is the commitment of the peer that s signs.
Signs(s, tx) ==
    LET h(i) == s.cnl_add_htlc[i]
    IN  /\ tx.offered = SlotRefs(s, {i \in Slot : SignsOffered(h(i))})
        /\ tx.received = SlotRefs(s, {i \in Slot : SignsReceived(h(i))})
        /\ tx.paid_out = s.paid_in \cup SlotRefs(s, {i \in Slot : SignsPaidOut(h(i))})
        /\ tx.paid_in = s.paid_out \cup SlotRefs(s, {i \in Slot : SignsPaidIn(h(i))})

\* create_to_remote reads the flags after the updates of the pass.
LEMMA SignedTx ==
    ASSUME NEW s \in SelfType, EndOK(s), NEW num
    PROVE  Signs(s, create_to_remote(AfterUpdates(s), num))
<1> DEFINE v == AfterUpdates(s)
           h(i) == s.cnl_add_htlc[i]
           e(i) == v.cnl_add_htlc[i]
           tx == create_to_remote(v, num)
<1>1. FlagsOnly(s, v) /\ \A i \in Slot : PassSlot(s, h(i), e(i), FALSE)
  <2>1. v = IF FALSE THEN AfterSendCommitmentSigned(AfterUpdates(s), 0) ELSE AfterUpdates(s)
    OBVIOUS
  <2> QED BY <2>1, PassSlots
<1>2. /\ tx.offered = Refs(v, LN_HTLC_ENABLE_REMOTE_ADDHTLC_RECV)
      /\ tx.received = Refs(v, LN_HTLC_ENABLE_REMOTE_ADDHTLC_OFFER)
      /\ tx.paid_out = v.paid_in \cup Refs(v, LN_HTLC_ENABLE_REMOTE_FULFILL_RECV)
      /\ tx.paid_in = v.paid_out \cup Refs(v, LN_HTLC_ENABLE_REMOTE_FULFILL_OFFER)
  BY DEF create_to_remote
<1>3. v.paid_out = s.paid_out /\ v.paid_in = s.paid_in
  BY <1>1 DEF FlagsOnly
<1> HIDE DEF v, tx
<1>4. ASSUME NEW i \in Slot
      PROVE  /\ Ref(e(i)) = Ref(h(i))
             /\ e(i).addhtlc # "NONE" => LN_HTLC_ENABLE(e(i))
             /\ LN_HTLC_ENABLE_REMOTE_ADDHTLC_RECV(e(i)) <=> SignsOffered(h(i))
             /\ LN_HTLC_ENABLE_REMOTE_ADDHTLC_OFFER(e(i)) <=> SignsReceived(h(i))
             /\ LN_HTLC_ENABLE_REMOTE_FULFILL_RECV(e(i)) <=> SignsPaidOut(h(i))
             /\ LN_HTLC_ENABLE_REMOTE_FULFILL_OFFER(e(i)) <=> SignsPaidIn(h(i))
  <2>1. PassSlot(s, h(i), e(i), FALSE) /\ SlotOK(h(i))
    BY <1>1 DEF EndOK
  <2>2. /\ e(i).id = h(i).id /\ e(i).amount_msat = h(i).amount_msat
        /\ e(i).addhtlc = h(i).addhtlc
    BY <1>1 DEF FlagsOnly, SameSlots
  <2> HIDE DEF e, h
  <2>3. /\ e(i).delhtlc = h(i).delhtlc /\ e(i).comrecv = h(i).comrecv
        /\ e(i).revsend = h(i).revsend /\ h(i).comrecv = h(i).revsend
        /\ IsOffered(h(i)) => e(i).updsend
        /\ IsReceived(h(i)) => (e(i).updsend <=> h(i).delhtlc # "NONE")
    BY <2>1 DEF PassSlot, SlotOK, OfferedSent, ReceivedSent
  <2>4. Ref(e(i)) = Ref(h(i)) /\ (e(i).addhtlc # "NONE" => LN_HTLC_ENABLE(e(i)))
    BY <2>2 DEF Ref, LN_HTLC_ENABLE, LN_HTLC_EMPTY
  <2>5. CASE IsOffered(h(i))
    BY <2>2, <2>3, <2>4, <2>5 DEF IsOffered, IsReceived,
       LN_HTLC_ENABLE_REMOTE_ADDHTLC_RECV, LN_HTLC_ENABLE_REMOTE_ADDHTLC_OFFER,
       LN_HTLC_ENABLE_REMOTE_FULFILL_RECV, LN_HTLC_ENABLE_REMOTE_FULFILL_OFFER,
       LN_HTLC_ENABLE_REMOTE_DELHTLC_RECV,
       SignsOffered, SignsReceived, SignsPaidOut, SignsPaidIn
  <2>6. CASE IsReceived(h(i))
    BY <2>2, <2>3, <2>4, <2>6 DEF IsOffered, IsReceived,
       LN_HTLC_ENABLE_REMOTE_ADDHTLC_RECV, LN_HTLC_ENABLE_REMOTE_ADDHTLC_OFFER,
       LN_HTLC_ENABLE_REMOTE_FULFILL_RECV, LN_HTLC_ENABLE_REMOTE_FULFILL_OFFER,
       LN_HTLC_ENABLE_REMOTE_DELHTLC_RECV,
       SignsOffered, SignsReceived, SignsPaidOut, SignsPaidIn
  <2>7. CASE ~IsOffered(h(i)) /\ ~IsReceived(h(i))
    BY <2>2, <2>4, <2>7 DEF IsOffered, IsReceived,
       LN_HTLC_ENABLE_REMOTE_ADDHTLC_RECV, LN_HTLC_ENABLE_REMOTE_ADDHTLC_OFFER,
       LN_HTLC_ENABLE_REMOTE_FULFILL_RECV, LN_HTLC_ENABLE_REMOTE_FULFILL_OFFER,
       LN_HTLC_ENABLE_REMOTE_DELHTLC_RECV,
       SignsOffered, SignsReceived, SignsPaidOut, SignsPaidIn
  <2> QED BY <2>5, <2>6, <2>7
<1>5. \A i \in Slot : /\ SignsOffered(h(i)) \/ SignsReceived(h(i))
                         \/ SignsPaidOut(h(i)) \/ SignsPaidIn(h(i)) => LN_HTLC_ENABLE(e(i))
  BY <1>4 DEF LN_HTLC_ENABLE_REMOTE_ADDHTLC_RECV, LN_HTLC_ENABLE_REMOTE_ADDHTLC_OFFER,
       LN_HTLC_ENABLE_REMOTE_FULFILL_RECV, LN_HTLC_ENABLE_REMOTE_FULFILL_OFFER,
       LN_HTLC_ENABLE_REMOTE_DELHTLC_RECV
<1> HIDE DEF e, h
<1>6. Refs(v, LN_HTLC_ENABLE_REMOTE_ADDHTLC_RECV) = SlotRefs(s, {i \in Slot : SignsOffered(h(i))})
  BY <1>4, <1>5 DEF Refs, SlotRefs, e, h
<1>7. Refs(v, LN_HTLC_ENABLE_REMOTE_ADDHTLC_OFFER) = SlotRefs(s, {i \in Slot : SignsReceived(h(i))})
  BY <1>4, <1>5 DEF Refs, SlotRefs, e, h
<1>8. Refs(v, LN_HTLC_ENABLE_REMOTE_FULFILL_RECV) = SlotRefs(s, {i \in Slot : SignsPaidOut(h(i))})
  BY <1>4, <1>5 DEF Refs, SlotRefs, e, h
<1>9. Refs(v, LN_HTLC_ENABLE_REMOTE_FULFILL_OFFER) = SlotRefs(s, {i \in Slot : SignsPaidIn(h(i))})
  BY <1>4, <1>5 DEF Refs, SlotRefs, e, h
<1> QED BY <1>2, <1>3, <1>6, <1>7, <1>8, <1>9 DEF Signs, tx, v, h

\* r is the stream q to the peer with the updates and the signature w of s.
SignView(s, q, r, w) ==
    UpdateView(s, w) /\ SendView(q, r, w) /\ (AckAhead(r) <=> Acking(q))

\* The updates of s that are behind q.
LEMMA SignUpdates ==
    ASSUME NEW s \in SelfType, EndOK(s), NEW q, NEW r, NEW w, SignView(s, q, r, w)
    PROVE  /\ \A n : \A del \in Deletion : Deleting(r, n, del) <=>
                \/ Deleting(q, n, del)
                \/ \E i \in Slot : /\ IsReceived(s.cnl_add_htlc[i])
                                   /\ s.cnl_add_htlc[i].id = n
                                   /\ s.cnl_add_htlc[i].delhtlc = del
                                   /\ ~s.cnl_add_htlc[i].updsend
           /\ \A x : AddingRef(r, x) <=>
                \/ AddingRef(q, x)
                \/ \E i \in Slot : /\ IsOffered(s.cnl_add_htlc[i])
                                   /\ s.cnl_add_htlc[i].id = x.id
                                   /\ s.cnl_add_htlc[i].amount_msat = x.amount_msat
                                   /\ ~s.cnl_add_htlc[i].updsend
<1>1. \A n : \A del \in Deletion : Deleting(w, n, del) <=>
         \E i \in Slot : /\ IsReceived(s.cnl_add_htlc[i])
                         /\ s.cnl_add_htlc[i].id = n
                         /\ s.cnl_add_htlc[i].delhtlc = del
                         /\ ~s.cnl_add_htlc[i].updsend
  <2>1. \A i \in Slot : \A del \in Deletion :
           LN_HTLC_WILL_DELHTLC(s.cnl_add_htlc[i]) /\ s.cnl_add_htlc[i].delhtlc = del <=>
              /\ IsReceived(s.cnl_add_htlc[i]) /\ s.cnl_add_htlc[i].delhtlc = del
              /\ ~s.cnl_add_htlc[i].updsend
    BY DEF LN_HTLC_WILL_DELHTLC, IsReceived, Deletion
  <2> QED BY <2>1 DEF SignView, UpdateView
<1>2. \A x : AddingRef(w, x) <=>
         \E i \in Slot : /\ IsOffered(s.cnl_add_htlc[i])
                         /\ s.cnl_add_htlc[i].id = x.id
                         /\ s.cnl_add_htlc[i].amount_msat = x.amount_msat
                         /\ ~s.cnl_add_htlc[i].updsend
  <2>1. \A i \in Slot : LN_HTLC_WILL_ADDHTLC(s.cnl_add_htlc[i]) <=>
              IsOffered(s.cnl_add_htlc[i]) /\ ~s.cnl_add_htlc[i].updsend
    BY DEF LN_HTLC_WILL_ADDHTLC, IsOffered, EndOK, SlotOK
  <2> QED BY <2>1 DEF SignView, UpdateView
<1> QED BY <1>1, <1>2 DEF SignView, SendView

\* The HTLCs that the reader t of the signature of s offers.
LEMMA ReaderOffers ==
    ASSUME NEW s \in SelfType, NEW t \in SelfType, NEW a, NEW b, NEW ta, NEW tb,
           ~Doomable, tb = "run", EndOK(s), EndOK(t), Pairing(t, s, b, a, tb, ta),
           NEW r, NEW w, SignView(s, b, r, w)
    PROVE  SlotRefs(s, {i \in Slot : SignsOffered(s.cnl_add_htlc[i])}) = OfferedAt(t, r)
<1> DEFINE h(i) == t.cnl_add_htlc[i]
           g(j) == s.cnl_add_htlc[j]
<1>1. \A n : \A del \in Deletion : Deleting(r, n, del) <=>
         \/ Deleting(b, n, del)
         \/ \E j \in Slot : IsReceived(g(j)) /\ g(j).id = n /\ g(j).delhtlc = del /\ ~g(j).updsend
  BY SignUpdates
<1>2. AckAhead(r) <=> Acking(b)
  BY DEF SignView
<1>3. \A j \in Slot : g(j).delhtlc # "NONE" => g(j).delhtlc \in Deletion
  BY SlotHolds DEF HtlcType, Deletion
<1> HIDE DEF h, g
<1>4. ASSUME NEW i \in Slot, NEW j \in Slot, IsOffered(h(i)), IsReceived(g(j)), h(i).id = g(j).id
      PROVE  Ref(h(i)) = Ref(g(j)) /\ (SignsOffered(g(j)) <=> SigOffered(h(i), r))
  <2>1. Paired(h(i), g(j), b, a, tb, ta)
    BY <1>4 DEF Pairing, PairsFit, h, g
  <2>2. ASSUME SignsOffered(g(j))
        PROVE  SigOffered(h(i), r)
    <3>1. Added(h(i), g(j), b, a, tb, ta) /\ g(j).comrecv /\ h(i).updsend
      BY <2>1, <2>2 DEF SignsOffered, Paired, DelDecided, DelSent, DelKnown, DelLost, Doomed,
           Deletion
    <3>2. /\ h(i).delhtlc = "NONE" /\ NotDeleting(b, h(i).id) /\ h(i).comsend
          /\ h(i).revrecv \/ Acking(b)
      BY <3>1 DEF Added
    <3>3. NotDeleting(r, h(i).id)
      <4>1. \A k \in Slot : IsReceived(g(k)) /\ g(k).id = h(i).id => g(k).delhtlc = "NONE"
        BY <1>4, <2>2 DEF EndOK, SignsOffered, g
      <4>2. \A del \in Deletion : ~Deleting(r, h(i).id, del)
        BY <1>1, <3>2, <4>1 DEF NotDeleting, Deletion
      <4> QED BY <4>2 DEF NotDeleting
    <3> QED BY <1>2, <1>4, <3>1, <3>2, <3>3 DEF SigOffered, Arrived
  <2>3. ASSUME SigOffered(h(i), r)
        PROVE  SignsOffered(g(j))
    <3>1. /\ h(i).delhtlc = "NONE" /\ NotDeleting(r, h(i).id)
          /\ h(i).revrecv \/ Acking(b)
      BY <1>2, <2>3 DEF SigOffered, Arrived
    <3>2. ~DelDecided(h(i), g(j), b)
      BY <1>1, <1>3, <1>4, <3>1 DEF DelDecided, NotDeleting
    <3>3. ~DelSent(h(i), g(j), b, a)
      BY <1>1, <3>1 DEF DelSent, NotDeleting
    <3>4. Added(h(i), g(j), b, a, tb, ta)
      BY <2>1, <3>1, <3>2, <3>3 DEF Paired, DelKnown, DelLost, Doomed
    <3> QED BY <1>4, <3>1, <3>4 DEF Added, SignsOffered
  <2>4. Ref(h(i)) = Ref(g(j))
    BY <2>1 DEF Paired
  <2> QED BY <2>2, <2>3, <2>4
<1>5. ASSUME NEW j \in Slot, SignsOffered(g(j))
      PROVE  \E i \in Slot : IsOffered(h(i)) /\ h(i).id = g(j).id
  <2>1. ~OffererGone(g(j), t, b, a, ta)
    BY <1>5 DEF SignsOffered, OffererGone
  <2> QED BY <1>5, <2>1 DEF SignsOffered, Pairing, ReceivedFit, h, g
<1>6. ASSUME NEW i \in Slot, SigOffered(h(i), r)
      PROVE  \E j \in Slot : IsReceived(g(j)) /\ g(j).id = h(i).id
  <2>1. /\ IsOffered(h(i)) /\ h(i).updsend /\ h(i).delhtlc = "NONE"
        /\ h(i).revrecv \/ Acking(b)
    BY <1>2, <1>6 DEF SigOffered, Arrived
  <2>2. ~AddSent(h(i), b, a) /\ ~ReceiverGone(h(i), s, b, a, ta)
    BY <2>1 DEF AddSent, ReceiverGone
  <2> QED BY <2>1, <2>2 DEF Pairing, OffersFit, h, g
<1>7. \A x : x \in SlotRefs(s, {i \in Slot : SignsOffered(g(i))}) <=> x \in OfferedAt(t, r)
  <2>1. /\ SlotRefs(s, {i \in Slot : SignsOffered(g(i))}) =
             {Ref(g(j)) : j \in {k \in Slot : SignsOffered(g(k))}}
        /\ OfferedAt(t, r) = {Ref(h(i)) : i \in {k \in Slot : SigOffered(h(k), r)}}
    BY DEF SlotRefs, OfferedAt, g, h
  <2>2. \A j \in Slot : SignsOffered(g(j)) =>
           \E i \in Slot : SigOffered(h(i), r) /\ Ref(h(i)) = Ref(g(j))
    BY <1>4, <1>5 DEF SignsOffered
  <2>3. \A i \in Slot : SigOffered(h(i), r) =>
           \E j \in Slot : SignsOffered(g(j)) /\ Ref(g(j)) = Ref(h(i))
    BY <1>4, <1>6 DEF SigOffered
  <2> QED BY <2>1, <2>2, <2>3
<1>8. SlotRefs(s, {i \in Slot : SignsOffered(g(i))}) = OfferedAt(t, r)
  BY <1>7
<1> QED BY <1>8 DEF g

\* The HTLCs the reader offered that are paid.
LEMMA ReaderPays ==
    ASSUME NEW s \in SelfType, NEW t \in SelfType, NEW a, NEW b, NEW ta, NEW tb,
           ~Doomable, tb = "run", EndOK(s), EndOK(t), Pairing(t, s, b, a, tb, ta),
           NEW r, NEW w, SignView(s, b, r, w)
    PROVE  s.paid_in \cup SlotRefs(s, {i \in Slot : SignsPaidOut(s.cnl_add_htlc[i])})
              = PaidOutAt(t, r)
<1> DEFINE h(i) == t.cnl_add_htlc[i]
           g(j) == s.cnl_add_htlc[j]
           G == {Ref(g(j)) : j \in {k \in Slot : SignsPaidOut(g(k))}}
           H == {Ref(h(i)) : i \in {k \in Slot : SigPaidOut(h(k), r)}}
<1>1. \A n : Deleting(r, n, "FULFILL") <=>
         \/ Deleting(b, n, "FULFILL")
         \/ \E j \in Slot : /\ IsReceived(g(j)) /\ g(j).id = n /\ g(j).delhtlc = "FULFILL"
                            /\ ~g(j).updsend
  <2>1. "FULFILL" \in Deletion
    BY DEF Deletion, DelHtlc
  <2> QED BY <2>1, SignUpdates
<1>2. /\ s.paid_in \cup SlotRefs(s, {i \in Slot : SignsPaidOut(s.cnl_add_htlc[i])}) = s.paid_in \cup G
      /\ PaidOutAt(t, r) = t.paid_out \cup H
  BY DEF SlotRefs, PaidOutAt
<1>3. ASSUME NEW x \in s.paid_in
      PROVE  x \in t.paid_out \cup H
  <2>1. CASE x \notin t.paid_out
    <3>1. PICK i \in Slot : IsOffered(h(i)) /\ Ref(h(i)) = x /\ h(i).delhtlc = "FULFILL"
      BY <2>1, PaidInHeld
    <3> QED BY <3>1 DEF SigPaidOut
  <2> QED BY <2>1
<1>4. ASSUME NEW j \in Slot, SignsPaidOut(g(j))
      PROVE  Ref(g(j)) \in t.paid_out \cup H
  <2>1. IsReceived(g(j)) /\ g(j).delhtlc = "FULFILL"
    BY <1>4 DEF SignsPaidOut
  <2>2. CASE OffererGone(g(j), t, b, a, ta)
    BY <2>1, <2>2 DEF OffererGone
  <2>3. CASE ~OffererGone(g(j), t, b, a, ta)
    <3>1. PICK i \in Slot : IsOffered(h(i)) /\ h(i).id = g(j).id
      BY <2>1, <2>3 DEF Pairing, ReceivedFit
    <3>2. Paired(h(i), g(j), b, a, tb, ta)
      BY <2>1, <3>1 DEF Pairing, PairsFit
    <3>3. h(i).delhtlc = "FULFILL" \/ Deleting(b, h(i).id, "FULFILL") \/ ~g(j).updsend
      BY <2>1, <3>2 DEF Paired, Added, DelDecided, DelSent, DelKnown, DelLost, Doomed
    <3>4. SigPaidOut(h(i), r)
      BY <1>1, <2>1, <3>1, <3>3 DEF SigPaidOut
    <3>5. Ref(h(i)) = Ref(g(j))
      BY <3>2 DEF Paired
    <3> QED BY <3>4, <3>5
  <2> QED BY <2>2, <2>3
<1>5. ASSUME NEW x \in t.paid_out
      PROVE  x \in s.paid_in \cup G
  <2>1. CASE x \notin s.paid_in
    <3>1. PICK j \in Slot : IsReceived(g(j)) /\ Ref(g(j)) = x /\ g(j).delhtlc = "FULFILL"
      BY <2>1, PaidOutHeld
    <3> QED BY <3>1 DEF SignsPaidOut
  <2> QED BY <2>1
<1>6. ASSUME NEW i \in Slot, SigPaidOut(h(i), r)
      PROVE  Ref(h(i)) \in s.paid_in \cup G
  <2>1. IsOffered(h(i)) /\ (h(i).delhtlc = "FULFILL" \/ Deleting(r, h(i).id, "FULFILL"))
    BY <1>6 DEF SigPaidOut
  <2>2. ASSUME NEW j \in Slot, IsReceived(g(j)), g(j).id = h(i).id, g(j).delhtlc = "FULFILL"
        PROVE  Ref(h(i)) \in s.paid_in \cup G
    <3>1. Paired(h(i), g(j), b, a, tb, ta)
      BY <2>1, <2>2 DEF Pairing, PairsFit
    <3> QED BY <2>2, <3>1 DEF Paired, SignsPaidOut
  <2>3. CASE h(i).delhtlc = "FULFILL"
    <3>1. h(i).updsend
      BY <2>1, <2>3 DEF EndOK, SlotOK
    <3>2. CASE \E j \in Slot : IsReceived(g(j)) /\ g(j).id = h(i).id
      <4>1. PICK j \in Slot : IsReceived(g(j)) /\ g(j).id = h(i).id
        BY <3>2
      <4>2. Paired(h(i), g(j), b, a, tb, ta)
        BY <2>1, <4>1 DEF Pairing, PairsFit
      <4>3. g(j).delhtlc = "FULFILL"
        BY <2>3, <4>2 DEF Paired, Added, DelDecided, DelSent, DelKnown, DelLost, Doomed
      <4> QED BY <2>2, <4>1, <4>3
    <3>3. CASE ~\E j \in Slot : IsReceived(g(j)) /\ g(j).id = h(i).id
      <4>1. AddSent(h(i), b, a) \/ ReceiverGone(h(i), s, b, a, ta)
        BY <2>1, <3>1, <3>3 DEF Pairing, OffersFit
      <4> QED BY <2>3, <4>1 DEF AddSent, ReceiverGone
    <3> QED BY <3>2, <3>3
  <2>4. CASE Deleting(b, h(i).id, "FULFILL")
    <3>1. "FULFILL" \in Deletion
      BY DEF Deletion, DelHtlc
    <3>2. PICK j \in Slot : IsReceived(g(j)) /\ g(j).id = h(i).id
      BY <2>4, <3>1 DEF Pairing, UpdatesFit
    <3>3. Paired(h(i), g(j), b, a, tb, ta)
      BY <2>1, <3>2 DEF Pairing, PairsFit
    <3>4. ~NotDeleting(b, h(i).id)
      BY <2>4, <3>1 DEF NotDeleting
    <3>5. DelSent(h(i), g(j), b, a)
      BY <3>3, <3>4 DEF Paired, Added, DelDecided, DelKnown, DelLost, Doomed
    <3>6. g(j).delhtlc = "FULFILL"
      BY <2>4, <3>1, <3>5 DEF DelSent
    <3> QED BY <2>2, <3>2, <3>6
  <2> QED BY <1>1, <2>1, <2>2, <2>3, <2>4
<1> HIDE DEF h, g
<1>7. G \subseteq t.paid_out \cup H /\ H \subseteq s.paid_in \cup G
  BY <1>4, <1>6
<1> QED BY <1>2, <1>3, <1>5, <1>7

\* The HTLCs that the signer s offers.
LEMMA SignerOffers ==
    ASSUME NEW s \in SelfType, NEW t \in SelfType, NEW a, NEW b, NEW ta, NEW tb,
           ~Doomable, tb = "run", EndOK(s), EndOK(t), Tidy(b), Pairing(s, t, a, b, ta, tb),
           NEW r, NEW w, SignView(s, b, r, w)
    PROVE  SlotRefs(s, {i \in Slot : SignsReceived(s.cnl_add_htlc[i])}) = ReceivedAt(t, r)
<1> DEFINE h(i) == s.cnl_add_htlc[i]
           g(j) == t.cnl_add_htlc[j]
           H == {Ref(h(i)) : i \in {k \in Slot : SignsReceived(h(k))}}
           G == {Ref(g(j)) : j \in {k \in Slot : SigReceived(g(k), r)}}
<1>1. \A x : AddingRef(r, x) <=>
         \/ AddingRef(b, x)
         \/ \E i \in Slot : /\ IsOffered(h(i)) /\ h(i).id = x.id
                            /\ h(i).amount_msat = x.amount_msat /\ ~h(i).updsend
  BY SignUpdates
<1>2. AckAhead(r) <=> Acking(b)
  BY DEF SignView
<1>3. /\ SlotRefs(s, {i \in Slot : SignsReceived(s.cnl_add_htlc[i])}) = H
      /\ ReceivedAt(t, r) = G \cup AddRefs(r)
  BY DEF SlotRefs, ReceivedAt
<1>4. ASSUME NEW i \in Slot, NEW j \in Slot, IsOffered(h(i)), IsReceived(g(j)), h(i).id = g(j).id
      PROVE  Ref(h(i)) = Ref(g(j)) /\ (SignsReceived(h(i)) <=> SigReceived(g(j), r))
  <2>1. Paired(h(i), g(j), a, b, ta, tb)
    BY <1>4 DEF Pairing, PairsFit
  <2>2. Ref(h(i)) = Ref(g(j))
    BY <2>1 DEF Paired
  <2> HIDE DEF h, g
  <2>3. CASE \/ Added(h(i), g(j), a, b, ta, tb) \/ DelDecided(h(i), g(j), a)
             \/ DelSent(h(i), g(j), a, b) \/ DelLost(h(i), g(j), a, b, ta)
    <3>1. h(i).delhtlc = "NONE" /\ (~g(j).updsend \/ (~g(j).revrecv /\ ~Acking(b)))
      BY <2>3 DEF Added, DelDecided, DelSent, DelLost
    <3> QED BY <1>2, <1>4, <2>2, <3>1 DEF SignsReceived, SigReceived, Arrived
  <2>4. CASE DelKnown(h(i), g(j), a, b, ta, tb)
    <3>1. /\ h(i).delhtlc # "NONE" /\ g(j).updsend
          /\ ~h(i).comrecv => ~g(j).revrecv /\ ~Acking(b)
          /\ h(i).comrecv => g(j).comsend /\ (g(j).revrecv \/ Acking(b))
      BY <2>4 DEF DelKnown
    <3> QED BY <1>2, <1>4, <2>2, <3>1 DEF SignsReceived, SigReceived, Arrived
  <2> QED BY <2>1, <2>3, <2>4 DEF Paired, Doomed
<1>5. ASSUME NEW i \in Slot, SignsReceived(h(i))
      PROVE  Ref(h(i)) \in G \cup AddRefs(r)
  <2>1. IsOffered(h(i)) /\ ~(h(i).delhtlc # "NONE" /\ h(i).comrecv)
    BY <1>5 DEF SignsReceived
  <2>2. Ref(h(i)).id = h(i).id /\ Ref(h(i)).amount_msat = h(i).amount_msat
    BY DEF Ref
  <2>3. AddingRef(r, Ref(h(i))) => Ref(h(i)) \in AddRefs(r)
    BY AddRefsOf DEF Ref
  <2>4. CASE ~h(i).updsend
    BY <1>1, <2>1, <2>2, <2>3, <2>4
  <2>5. CASE AddSent(h(i), a, b)
    BY <1>1, <2>3, <2>5 DEF AddSent
  <2>6. CASE \E j \in Slot : IsReceived(g(j)) /\ g(j).id = h(i).id
    <3>1. PICK j \in Slot : IsReceived(g(j)) /\ g(j).id = h(i).id
      BY <2>6
    <3>2. Ref(h(i)) = Ref(g(j)) /\ SigReceived(g(j), r)
      BY <1>4, <1>5, <2>1, <3>1
    <3> QED BY <3>2
  <2>7. ~ReceiverGone(h(i), t, a, b, tb)
    BY <2>1 DEF ReceiverGone
  <2> QED BY <2>1, <2>4, <2>5, <2>6, <2>7 DEF Pairing, OffersFit
<1>6. ASSUME NEW j \in Slot, SigReceived(g(j), r)
      PROVE  Ref(g(j)) \in H
  <2>1. IsReceived(g(j)) /\ ~(g(j).updsend /\ g(j).comsend /\ (g(j).revrecv \/ Acking(b)))
    BY <1>2, <1>6 DEF SigReceived, Arrived
  <2>2. ~OffererGone(g(j), s, a, b, tb)
    BY <2>1 DEF OffererGone
  <2>3. PICK i \in Slot : IsOffered(h(i)) /\ h(i).id = g(j).id
    BY <2>1, <2>2 DEF Pairing, ReceivedFit
  <2>4. Ref(h(i)) = Ref(g(j)) /\ SignsReceived(h(i))
    BY <1>4, <1>6, <2>1, <2>3
  <2> QED BY <2>4
<1>7. ASSUME NEW x \in AddRefs(r)
      PROVE  x \in H
  <2>1. AddingRef(r, x) /\ x = [id |-> x.id, amount_msat |-> x.amount_msat]
    BY AddRefsView
  <2>2. ASSUME NEW i \in Slot, IsOffered(h(i)), h(i).id = x.id,
               h(i).amount_msat = x.amount_msat, h(i).delhtlc = "NONE"
        PROVE  x \in H
    <3>1. Ref(h(i)) = x
      BY <2>1, <2>2 DEF Ref
    <3>2. SignsReceived(h(i))
      BY <2>2 DEF SignsReceived
    <3> QED BY <3>1, <3>2
  <2>3. CASE AddingRef(b, x)
    <3>1. PICK k \in DOMAIN b : /\ b[k].type = "update_add_htlc"
                                /\ b[k].id = x.id /\ b[k].amount_msat = x.amount_msat
      BY <2>3 DEF AddingRef
    <3>2. Adding(b, x.id)
      BY <3>1 DEF Adding
    <3>3. PICK i \in Slot : IsOffered(h(i)) /\ h(i).id = x.id
      BY <3>2 DEF Pairing, UpdatesFit
    <3>4. AddSent(h(i), a, b)
      BY <3>2, <3>3 DEF Pairing, OffersFit
    <3>5. PICK l \in DOMAIN b : /\ b[l].type = "update_add_htlc"
                                /\ b[l].id = h(i).id /\ b[l].amount_msat = h(i).amount_msat
      BY <3>4 DEF AddSent, AddingRef, Ref
    <3>6. k = l
      BY <3>1, <3>3, <3>5 DEF Tidy
    <3>7. h(i).amount_msat = x.amount_msat /\ h(i).delhtlc = "NONE"
      BY <3>1, <3>4, <3>5, <3>6 DEF AddSent
    <3> QED BY <2>2, <3>3, <3>7
  <2>4. CASE \E i \in Slot : /\ IsOffered(h(i)) /\ h(i).id = x.id
                             /\ h(i).amount_msat = x.amount_msat /\ ~h(i).updsend
    <3>1. PICK i \in Slot : /\ IsOffered(h(i)) /\ h(i).id = x.id
                            /\ h(i).amount_msat = x.amount_msat /\ ~h(i).updsend
      BY <2>4
    <3>2. h(i).delhtlc = "NONE"
      BY <3>1 DEF EndOK, SlotOK
    <3> QED BY <2>2, <3>1, <3>2
  <2> QED BY <1>1, <2>1, <2>3, <2>4
<1> HIDE DEF h, g
<1>8. H \subseteq G \cup AddRefs(r) /\ G \subseteq H /\ AddRefs(r) \subseteq H
  BY <1>5, <1>6, <1>7
<1> QED BY <1>3, <1>8

\* The HTLCs the signer offered that are paid.
LEMMA SignerPays ==
    ASSUME NEW s \in SelfType, NEW t \in SelfType, NEW a, NEW b, NEW ta, NEW tb,
           ~Doomable, tb = "run", EndOK(s), EndOK(t), Pairing(s, t, a, b, ta, tb),
           NEW r, NEW w, SignView(s, b, r, w)
    PROVE  s.paid_out \cup SlotRefs(s, {i \in Slot : SignsPaidIn(s.cnl_add_htlc[i])})
              = PaidInAt(t, r)
<1> DEFINE h(i) == s.cnl_add_htlc[i]
           g(j) == t.cnl_add_htlc[j]
           H == {Ref(h(i)) : i \in {k \in Slot : SignsPaidIn(h(k))}}
           G == {Ref(g(j)) : j \in {k \in Slot : SigPaidIn(g(k), r)}}
<1>1. AckAhead(r) <=> Acking(b)
  BY DEF SignView
<1>2. /\ s.paid_out \cup SlotRefs(s, {i \in Slot : SignsPaidIn(s.cnl_add_htlc[i])}) = s.paid_out \cup H
      /\ PaidInAt(t, r) = t.paid_in \cup G
  BY DEF SlotRefs, PaidInAt
<1>3. ASSUME NEW x \in s.paid_out
      PROVE  x \in t.paid_in \cup G
  <2>1. CASE x \notin t.paid_in
    <3>1. PICK j \in Slot : /\ IsReceived(g(j)) /\ Ref(g(j)) = x /\ g(j).delhtlc = "FULFILL"
                            /\ g(j).updsend /\ g(j).comsend
                            /\ g(j).revrecv \/ Acking(b) \/ tb # "run"
      BY <2>1, PaidOutHeld
    <3> QED BY <1>1, <3>1 DEF SigPaidIn, Arrived
  <2> QED BY <2>1
<1>4. ASSUME NEW i \in Slot, SignsPaidIn(h(i))
      PROVE  Ref(h(i)) \in t.paid_in \cup G
  <2>1. IsOffered(h(i)) /\ h(i).delhtlc = "FULFILL" /\ h(i).comrecv
    BY <1>4 DEF SignsPaidIn
  <2>2. h(i).updsend
    BY <2>1 DEF EndOK, SlotOK
  <2>3. CASE \E j \in Slot : IsReceived(g(j)) /\ g(j).id = h(i).id
    <3>1. PICK j \in Slot : IsReceived(g(j)) /\ g(j).id = h(i).id
      BY <2>3
    <3>2. Paired(h(i), g(j), a, b, ta, tb)
      BY <2>1, <3>1 DEF Pairing, PairsFit
    <3>3. DelKnown(h(i), g(j), a, b, ta, tb)
      BY <2>1, <3>2 DEF Paired, Added, DelDecided, DelSent, DelLost, Doomed
    <3>4. SigPaidIn(g(j), r)
      BY <1>1, <2>1, <3>1, <3>3 DEF DelKnown, SigPaidIn, Arrived
    <3>5. Ref(h(i)) = Ref(g(j))
      BY <3>2 DEF Paired
    <3> QED BY <3>4, <3>5
  <2>4. CASE ~\E j \in Slot : IsReceived(g(j)) /\ g(j).id = h(i).id
    <3>1. AddSent(h(i), a, b) \/ ReceiverGone(h(i), t, a, b, tb)
      BY <2>1, <2>2, <2>4 DEF Pairing, OffersFit
    <3> QED BY <2>1, <3>1 DEF AddSent, ReceiverGone
  <2> QED BY <2>3, <2>4
<1>5. ASSUME NEW x \in t.paid_in
      PROVE  x \in s.paid_out \cup H
  <2>1. CASE x \notin s.paid_out
    <3>1. PICK i \in Slot : /\ IsOffered(h(i)) /\ Ref(h(i)) = x
                            /\ h(i).delhtlc = "FULFILL" /\ h(i).comrecv
      BY <2>1, PaidInHeld
    <3> QED BY <3>1 DEF SignsPaidIn
  <2> QED BY <2>1
<1>6. ASSUME NEW j \in Slot, SigPaidIn(g(j), r)
      PROVE  Ref(g(j)) \in s.paid_out \cup H
  <2>1. /\ IsReceived(g(j)) /\ g(j).delhtlc = "FULFILL" /\ g(j).updsend
        /\ g(j).revrecv \/ Acking(b)
    BY <1>1, <1>6 DEF SigPaidIn, Arrived
  <2>2. CASE OffererGone(g(j), s, a, b, tb)
    BY <2>1, <2>2 DEF OffererGone
  <2>3. CASE ~OffererGone(g(j), s, a, b, tb)
    <3>1. PICK i \in Slot : IsOffered(h(i)) /\ h(i).id = g(j).id
      BY <2>1, <2>3 DEF Pairing, ReceivedFit
    <3>2. Paired(h(i), g(j), a, b, ta, tb)
      BY <2>1, <3>1 DEF Pairing, PairsFit
    <3>3. DelKnown(h(i), g(j), a, b, ta, tb)
      BY <2>1, <3>2 DEF Paired, Added, DelDecided, DelSent, DelLost, Doomed
    <3>4. SignsPaidIn(h(i))
      BY <2>1, <3>1, <3>3 DEF DelKnown, SignsPaidIn
    <3>5. Ref(h(i)) = Ref(g(j))
      BY <3>2 DEF Paired
    <3> QED BY <3>4, <3>5
  <2> QED BY <2>2, <2>3
<1> HIDE DEF h, g
<1>7. H \subseteq t.paid_in \cup G /\ G \subseteq s.paid_out \cup H
  BY <1>4, <1>6
<1> QED BY <1>2, <1>3, <1>5, <1>7

\* The commitment s signs is the one t will build when it reads the signature.
LEMMA SignedFits ==
    ASSUME NEW s \in SelfType, NEW t \in SelfType,
           NEW a, NEW b \in Seq(Message), NEW ta, NEW tb, EndsFit(s, t, a, b, ta, tb),
           ~Doomable, tb = "run", SigsFit(t, b), ~Signing(b),
           NEW ms \in Seq(Message), UpdateView(s, ms), ~Signing(ms),
           NEW num, SignMsg(s, num) \in Message
    PROVE  SigsFit(t, b \o (ms \o <<SignMsg(s, num)>>))
<1> DEFINE m == SignMsg(s, num)
           w == ms \o <<m>>
           r == b \o w
           tx == create_to_remote(AfterUpdates(s), num)
<1>1. /\ EndOK(s) /\ EndOK(t) /\ Tidy(b)
      /\ Pairing(s, t, a, b, ta, tb) /\ Pairing(t, s, b, a, tb, ta)
  BY DEF EndsFit
<1>2. m.type = "commitment_signed" /\ m.tx = tx /\ m \in Message
  BY DEF SignMsg
<1>3. <<m>> \in Seq(Message) /\ <<m>>[1] = m /\ DOMAIN <<m>> = {1}
  BY <1>2
<1> HIDE DEF m, tx
<1>4. UpdateView(s, w) /\ Signing(w) /\ w \in Seq(Message)
  BY <1>2, <1>3, UpdateSignViews
<1>5. \A k \in DOMAIN w : w[k].type = "commitment_signed" => w[k] = m
  <2>1. \A k \in DOMAIN w : \/ k \in DOMAIN ms /\ w[k] = ms[k]
                            \/ k - Len(ms) \in DOMAIN <<m>> /\ w[k] = <<m>>[k - Len(ms)]
    BY <1>3, SentMessages
  <2> QED BY <1>3, <2>1 DEF Signing
<1> HIDE DEF w
<1>6. SendView(b, r, w)
  BY <1>4, SendViews
<1>7. \A k \in DOMAIN r : r[k].type = "commitment_signed" => r[k] = m
  <2>1. \A k \in DOMAIN r : \/ k \in DOMAIN b /\ r[k] = b[k]
                            \/ k - Len(b) \in DOMAIN w /\ r[k] = w[k - Len(b)]
    BY <1>4, SentMessages
  <2> QED BY <1>5, <2>1 DEF Signing
<1> HIDE DEF r
<1>8. SignView(s, b, r, w)
  BY <1>4, <1>6 DEF SignView, SendView, UpdateView
<1>9. Signs(s, tx)
  BY <1>1, SignedTx DEF tx
<1>10. SlotRefs(s, {i \in Slot : SignsOffered(s.cnl_add_htlc[i])}) = OfferedAt(t, r)
  BY <1>1, <1>8, ReaderOffers
<1>11. SlotRefs(s, {i \in Slot : SignsReceived(s.cnl_add_htlc[i])}) = ReceivedAt(t, r)
  BY <1>1, <1>8, SignerOffers
<1>12. s.paid_in \cup SlotRefs(s, {i \in Slot : SignsPaidOut(s.cnl_add_htlc[i])}) = PaidOutAt(t, r)
  BY <1>1, <1>8, ReaderPays
<1>13. s.paid_out \cup SlotRefs(s, {i \in Slot : SignsPaidIn(s.cnl_add_htlc[i])}) = PaidInAt(t, r)
  BY <1>1, <1>8, SignerPays
<1>14. SigOK(t, r, tx)
  BY <1>9, <1>10, <1>11, <1>12, <1>13 DEF SigOK, Signs
<1>15. SigsFit(t, r)
  BY <1>2, <1>7, <1>14 DEF SigsFit
<1> QED BY <1>15 DEF r, w, m

----------------------------------------------------------------------------
(* Every step keeps the signatures under way fitting.                      *)

\* Messages that the expectation does not read, behind a stream or at its head.
LEMMA QuietSigs ==
    ASSUME NEW t, NEW q, NEW r, SigsFit(t, q), SameToOfferer(q, r), SameToReceiver(q, r),
           \A k \in DOMAIN r : r[k].type = "commitment_signed" =>
              \E j \in DOMAIN q : q[j] = r[k]
    PROVE  SigsFit(t, r)
<1>1. SameForSig(q, r)
  BY DEF SameForSig, SameToOfferer, SameToReceiver
<1>2. SameSig(t, q, t, r)
  BY <1>1, StreamSig
<1> QED BY <1>2, SigsKept

\* Nothing the expectation reads changes in the channel state.
LEMMA FieldsSigs ==
    ASSUME NEW s, NEW u, NEW q, SigsFit(s, q), u.cnl_add_htlc = s.cnl_add_htlc,
           u.paid_out = s.paid_out, u.paid_in = s.paid_in
    PROVE  SigsFit(u, q)
<1>1. \A i \in Slot : SameCount(s.cnl_add_htlc[i], u.cnl_add_htlc[i], q, q)
  BY DEF SameCount
<1>2. SameSig(s, q, u, q)
  BY <1>1, SlotsSig
<1> QED BY <1>2, SigsKept

\* The messages ms, without a commitment_signed, go out behind q.
LEMMA SentSigns ==
    ASSUME NEW q \in Seq(Message), NEW ms \in Seq(Message), ~Signing(ms)
    PROVE  \A k \in DOMAIN (q \o ms) : (q \o ms)[k].type = "commitment_signed" =>
              \E j \in DOMAIN q : q[j] = (q \o ms)[k]
<1>1. \A k \in DOMAIN (q \o ms) :
         \/ k \in DOMAIN q /\ (q \o ms)[k] = q[k]
         \/ k - Len(q) \in DOMAIN ms /\ (q \o ms)[k] = ms[k - Len(q)]
  BY SentMessages
<1> QED BY <1>1 DEF Signing

\* A revoke_and_ack goes out behind a commitment_signed, or there is none.
LEMMA AcceptSigs ==
    ASSUME NEW t, NEW b \in Seq(Message), SigsFit(t, b), ~Acking(b),
           NEW m \in Message, m.type = "revoke_and_ack"
    PROVE  SigsFit(t, b \o <<m>>)
<1> DEFINE ms == <<m>>
           r == b \o ms
<1>1. ms \in Seq(Message)
  OBVIOUS
<1>2. m.type \notin UpdateType
  BY DEF UpdateType
<1>3. /\ \A x : ~AddingRef(ms, x)
      /\ \A n : \A del \in Deletion : ~Deleting(ms, n, del)
      /\ ~Signing(ms) /\ Acking(ms)
  BY <1>2, OneMessage
<1>4. \A k \in DOMAIN r : r[k].type = "commitment_signed" => \E j \in DOMAIN b : b[j] = r[k]
  BY <1>1, <1>3, SentSigns
<1>5. SendView(b, r, ms)
  BY <1>1, SendViews
<1> HIDE DEF ms, r
<1>6. CASE ~Signing(b)
  <2>1. ~Signing(r)
    BY <1>3, <1>5, <1>6 DEF SendView
  <2> QED BY <2>1, NoSigs DEF r, ms
<1>7. CASE Signing(b)
  <2>1. ~AckAhead(b)
    BY DEF Acking, AckAhead
  <2>2. ~AckAhead(r)
    BY <1>3, <1>5, <1>7 DEF SendView
  <2>3. /\ \A n : \A del \in Deletion : Deleting(r, n, del) <=> Deleting(b, n, del)
        /\ \A x : AddingRef(r, x) <=> AddingRef(b, x)
    BY <1>3, <1>5 DEF SendView
  <2>4. SameForSig(b, r)
    BY <2>1, <2>2, <2>3 DEF SameForSig
  <2>5. SameSig(t, b, t, r)
    BY <2>4, StreamSig
  <2>6. SigsFit(t, r)
    BY <1>4, <2>5, SigsKept
  <2> QED BY <2>6 DEF r, ms
<1> QED BY <1>6, <1>7

\* Every move keeps the signatures to both ends fitting.
LEMMA MoveSigs ==
    ASSUME NEW s \in SelfType, NEW t \in SelfType,
           NEW a \in Seq(Message), NEW b \in Seq(Message), NEW ta, NEW tb,
           NEW u, NEW a2, NEW b2, NEW ta2,
           EndsFit(s, t, a, b, ta, tb), ~Doomable, SigsFit(s, a), SigsFit(t, b),
           Move(s, a, b, ta, tb, u, a2, b2, ta2)
    PROVE  SigsFit(u, a2) /\ SigsFit(t, b2)
<1> USE DEF Put
<1>0. EndOK(s) /\ Tidy(a) /\ Tidy(b)
  BY DEF EndsFit
<1>1. CASE a2 = a /\ b2 = b /\ OfferMove(s, u)
  <2>1. \A amt \in Amounts : amt \in Nat /\ amt # 0
    BY ParameterAssumption
  <2> QED BY <1>1, <2>1, OfferSigs DEF OfferMove
<1>2. CASE a2 = a /\ b2 = b /\ StartMove(s, u)
  BY <1>2, StartSigs DEF StartMove
<1>3. CASE a2 = a /\ b2 = b /\ BackwindMove(s, u)
  <2>1. PICK i \in Slot : /\ Forwarded(s.cnl_add_htlc[i])
                          /\ u = ln_fulfill_htlc_set(s, i) \/ u = ln_fail_htlc_set(s, i)
    BY <1>3 DEF BackwindMove
  <2>2. Exchanged(s.cnl_add_htlc[i])
    BY <2>1 DEF Forwarded
  <2>3. PICK del \in {"FULFILL", "FAIL"} :
           SlotPut(s, u, i, clear_htlc_comrevflag(s.cnl_add_htlc[i], del))
    BY <2>1, <2>2, OtherPut, FailPut
  <2>4. del \in Deletion
    BY DEF Deletion, DelHtlc
  <2>5. SigsFit(u, a)
    BY <1>0, <2>1, <2>3, <2>4, BackwindSigs
  <2> QED BY <1>3, <2>5
<1>4. CASE a2 = a /\ b2 = b /\ FinalMove(s, u)
  BY <1>4, FinalSigs DEF FinalMove
<1>5. CASE a2 = a /\ PassMove(s, a, b, tb, u, b2)
  <2>1. ~ComSiging(s) /\ ~Signing(b) /\ ~Acking(a)
    BY <1>5 DEF PassMove
  <2>2. PICK ms \in Seq(Message) :
          /\ UpdateView(s, ms) /\ ~Signing(ms)
          /\ \/ u = AfterUpdates(s) /\ b2 = Put(b, tb, ms)
             \/ \E num \in Nat :
                  /\ SignMsg(s, num) \in Message
                  /\ u = AfterSendCommitmentSigned(AfterUpdates(s), SignMsg(s, num).tx)
                  /\ b2 = Put(b, tb, ms \o <<SignMsg(s, num)>>)
    BY <1>5 DEF PassMove
  <2>3. CASE u = AfterUpdates(s) /\ b2 = Put(b, tb, ms)
    <3>1. SigsFit(u, a)
      <4>1. u = IF FALSE THEN AfterSendCommitmentSigned(AfterUpdates(s), 0) ELSE AfterUpdates(s)
        BY <2>3
      <4> QED BY <1>0, <2>1, <4>1, PassSigs
    <3>2. ~Signing(b \o ms)
      <4>1. SendView(b, b \o ms, ms)
        BY SendViews
      <4> QED BY <2>1, <2>2, <4>1 DEF SendView
    <3>3. SigsFit(t, b2)
      BY <2>3, <3>2, NoSigs
    <3> QED BY <1>5, <3>1, <3>3
  <2>4. ASSUME NEW num \in Nat, SignMsg(s, num) \in Message,
               u = AfterSendCommitmentSigned(AfterUpdates(s), SignMsg(s, num).tx),
               b2 = Put(b, tb, ms \o <<SignMsg(s, num)>>)
        PROVE  SigsFit(u, a2) /\ SigsFit(t, b2)
    <3> DEFINE tx == SignMsg(s, num).tx
    <3>1. SigsFit(u, a)
      <4>1. u = IF TRUE THEN AfterSendCommitmentSigned(AfterUpdates(s), tx) ELSE AfterUpdates(s)
        BY <2>4
      <4> HIDE DEF tx
      <4> QED BY <1>0, <2>1, <4>1, PassSigs
    <3>2. SigsFit(t, b2)
      BY <2>1, <2>2, <2>4, SignedFits
    <3> QED BY <1>5, <3>1, <3>2
  <2> QED BY <2>2, <2>3, <2>4
<1>6. CASE b2 = b /\ AddMove(s, a, ta, u, a2)
  BY <1>6, AddSigs DEF AddMove, Reads
<1>7. CASE b2 = b /\ DelMove(s, a, ta, u, a2)
  BY <1>7, DelSigs DEF DelMove, Reads
<1>8. CASE b2 = b /\ AckMove(s, a, ta, u, a2)
  BY <1>0, <1>8, AckSigs DEF AckMove, Reads
<1>9. CASE AcceptMove(s, a, b, ta, tb, u, a2, b2)
  <2>1. a # <<>> /\ Head(a).type = "commitment_signed" /\ a2 = Tail(a) /\ ~Acking(b)
    BY <1>9 DEF AcceptMove, Reads
  <2>2. ReadView(a, Tail(a), Head(a))
    BY <1>0, <2>1, ReadViews
  <2>3. ~Signing(a2)
    BY <2>1, <2>2 DEF ReadView
  <2>4. PICK m \in Message : m.type = "revoke_and_ack" /\ b2 = Put(b, tb, <<m>>)
    BY <1>9 DEF AcceptMove
  <2>5. SigsFit(t, b \o <<m>>)
    BY <2>1, <2>4, AcceptSigs
  <2> QED BY <2>3, <2>4, <2>5, NoSigs
<1>10. CASE CloseMove(s, a, b, ta, tb, u, a2, b2)
  <2>1. SigsFit(s, a2)
    <3>1. CASE a2 # a
      <4>1. PICK type \in CloseMsg : Reads(a, ta, type, a2)
        BY <1>10, <3>1 DEF CloseMove
      <4>2. a # <<>> /\ Head(a).type \in CloseMsg /\ a2 = Tail(a)
        BY <4>1 DEF Reads
      <4>3. SameToOfferer(a, a2) /\ SameToReceiver(a, a2)
        BY <1>0, <4>2, QuietRead
      <4>4. \A k \in DOMAIN a2 : a2[k].type = "commitment_signed" =>
               \E j \in DOMAIN a : a[j] = a2[k]
        BY <4>2, TailSigns
      <4> QED BY <4>3, <4>4, QuietSigs
    <3> QED BY <3>1
  <2>2. SigsFit(u, a2)
    BY <1>10, <2>1, FieldsSigs DEF CloseMove
  <2>3. PICK ms \in Seq(Message) : /\ \A k \in DOMAIN ms : ms[k].type \in CloseMsg
                                   /\ b2 = Put(b, tb, ms)
    BY <1>10 DEF CloseMove
  <2>4. SigsFit(t, b \o ms)
    <3>1. SameToOfferer(b, b \o ms) /\ SameToReceiver(b, b \o ms)
      BY <1>0, <2>3, QuietSend
    <3>2. ~Signing(ms)
      BY <2>3 DEF Signing, CloseMsg
    <3>3. \A k \in DOMAIN (b \o ms) : (b \o ms)[k].type = "commitment_signed" =>
             \E j \in DOMAIN b : b[j] = (b \o ms)[k]
      BY <3>2, SentSigns
    <3> DEFINE r == b \o ms
    <3> HIDE DEF r
    <3>4. SigsFit(t, r)
      BY <3>1, <3>3, QuietSigs DEF r
    <3> QED BY <3>4 DEF r
  <2> QED BY <2>2, <2>3, <2>4
<1>11. CASE b2 = b /\ StopMove(s, u, a2, ta2)
  <2>1. ~Signing(a2)
    BY <1>11, EmptyView DEF StopMove
  <2> QED BY <1>11, <2>1, NoSigs
<1> QED
  BY <1>1, <1>2, <1>3, <1>4, <1>5, <1>6, <1>7, <1>8, <1>9, <1>10, <1>11 DEF Move

\* What is expected when the commitment_signed is the next message is what
\* create_to_local builds.
LEMMA HeadSig ==
    ASSUME NEW s, NEW q, NEW tx \in CommitTxType, SigOK(s, q, tx), ~AckAhead(q),
           \A n : ~Adding(q, n) /\ NotDeleting(q, n)
    PROVE  tx = create_to_local(s, tx.num)
<1> DEFINE h(i) == s.cnl_add_htlc[i]
           c == create_to_local(s, tx.num)
<1>1. AddRefs(q) = {}
  <2>1. \A x : ~AddingRef(q, x)
    BY DEF Adding, AddingRef
  <2> QED BY <2>1, AddRefsView
<1>2. \A n : ~Deleting(q, n, "FULFILL")
  BY DEF NotDeleting, Deletion, DelHtlc
<1>3. \A i \in Slot :
         /\ SigOffered(h(i), q) <=>
               LN_HTLC_ENABLE(h(i)) /\ LN_HTLC_ENABLE_LOCAL_ADDHTLC_OFFER(h(i))
         /\ SigReceived(h(i), q) <=>
               LN_HTLC_ENABLE(h(i)) /\ LN_HTLC_ENABLE_LOCAL_ADDHTLC_RECV(h(i))
         /\ SigPaidOut(h(i), q) <=>
               LN_HTLC_ENABLE(h(i)) /\ LN_HTLC_ENABLE_LOCAL_FULFILL_OFFER(h(i))
         /\ SigPaidIn(h(i), q) <=>
               LN_HTLC_ENABLE(h(i)) /\ LN_HTLC_ENABLE_LOCAL_FULFILL_RECV(h(i))
  <2> HIDE DEF h
  <2> QED BY <1>2 DEF SigOffered, SigReceived, SigPaidOut, SigPaidIn, Arrived,
          IsOffered, IsReceived, LN_HTLC_ENABLE, LN_HTLC_EMPTY,
          LN_HTLC_ENABLE_LOCAL_ADDHTLC_OFFER, LN_HTLC_ENABLE_LOCAL_ADDHTLC_RECV,
          LN_HTLC_ENABLE_LOCAL_FULFILL_OFFER, LN_HTLC_ENABLE_LOCAL_FULFILL_RECV
<1>4. tx.offered = Refs(s, LN_HTLC_ENABLE_LOCAL_ADDHTLC_OFFER)
  BY <1>3 DEF SigOK, OfferedAt, Refs
<1>5. tx.received = Refs(s, LN_HTLC_ENABLE_LOCAL_ADDHTLC_RECV)
  BY <1>1, <1>3 DEF SigOK, ReceivedAt, Refs
<1>6. tx.paid_out = s.paid_out \cup Refs(s, LN_HTLC_ENABLE_LOCAL_FULFILL_OFFER)
  BY <1>3 DEF SigOK, PaidOutAt, Refs
<1>7. tx.paid_in = s.paid_in \cup Refs(s, LN_HTLC_ENABLE_LOCAL_FULFILL_RECV)
  BY <1>3 DEF SigOK, PaidInAt, Refs
<1>8. tx = [ num |-> tx.num, offered |-> tx.offered, received |-> tx.received,
             paid_out |-> tx.paid_out, paid_in |-> tx.paid_in ]
  BY DEF CommitTxType
<1> QED BY <1>4, <1>5, <1>6, <1>7, <1>8 DEF create_to_local

\* The invariant, seen from one end.
SigsFitAt(p) == SigsFit(self[p], net[p]) /\ SigsFit(self[Other(p)], net[Other(p)])
\* The invariant, from either end.
SomeSigsFit == \E p \in Peer : SigsFitAt(p)

\* One end is enough.
LEMMA SomeSigs == SomeSigsFit => SigInv
<1>1. \A p \in Peer : Peer = {p, Other(p)}
  BY PeerFacts DEF Peer, Other
<1> QED BY <1>1 DEF SomeSigsFit, SigsFitAt, SigInv

\* When no HTLC is refused before its addition is exchanged, every
\* commitment_signed under way is about the commitment its reader will build
\* from its flags and the messages ahead of it.
THEOREM SignaturesFit ==
    ASSUME "NEXT_SHUTDOWN" \notin Fates
    PROVE  Spec => []SigInv
<1>1. TypeOK /\ ExchangeInv /\ PairInv /\ SigInv /\ [Next]_vars => SigInv'
  <2> SUFFICES ASSUME TypeOK, ExchangeInv, PairInv, SigInv, [Next]_vars
               PROVE  SigInv'
    OBVIOUS
  <2>1. (\A p \in Peer : EndOK(self[p])) /\ ~Doomable
    BY DEF PairInv, Doomable
  <2>2. CASE UNCHANGED <<self, net, thread>>
    BY <2>2 DEF SigInv
  <2>3. ASSUME NEW p \in Peer, MoveOf(p)
        PROVE  SigInv'
    <3> DEFINE q == Other(p)
    <3>1. /\ self[p] \in SelfType /\ self[q] \in SelfType
          /\ net[p] \in Seq(Message) /\ net[q] \in Seq(Message)
      BY PeerFacts DEF TypeOK
    <3>2. /\ self'[q] = self[q] /\ thread'[q] = thread[q]
          /\ Move(self[p], net[p], net[q], thread[p], thread[q],
                  self'[p], net'[p], net'[q], thread'[p])
      BY <2>3 DEF MoveOf
    <3>3. EndsFit(self[p], self[q], net[p], net[q], thread[p], thread[q])
      BY FitBoth DEF Fit
    <3>4. SigsFit(self[p], net[p]) /\ SigsFit(self[q], net[q])
      BY PeerFacts DEF SigInv
    <3>5. SigsFit(self'[p], net'[p]) /\ SigsFit(self[q], net'[q])
      BY <2>1, <3>1, <3>2, <3>3, <3>4, MoveSigs
    <3>6. SomeSigsFit'
      BY <3>2, <3>5 DEF SomeSigsFit, SigsFitAt
    <3>7. SomeSigsFit' => SigInv'
      BY SomeSigs, PTL
    <3> QED BY <3>6, <3>7
  <2> QED BY <2>1, <2>2, <2>3, StepMoves
<1>2. Init => SigInv
  <2> SUFFICES ASSUME Init PROVE SigInv
    OBVIOUS
  <2>1. \A p \in Peer : net[p] = <<>>
    BY DEF Init
  <2> QED BY <2>1, EmptyView, NoSigs DEF SigInv
<1> QED BY <1>1, <1>2, ExchangeInvariant, PairInvariant, PTL DEF Spec

\* When no HTLC is refused before its addition is exchanged, both ends derive
\* the same commitment transaction from their own HTLC flags: create_to_local
\* accepts every commitment_signed of an honest peer, for every number of
\* slots and HTLCs and in every interleaving.
THEOREM SignaturesAgree ==
    ASSUME "NEXT_SHUTDOWN" \notin Fates
    PROVE  Spec => []SignatureAgrees
<1>1. TypeOK /\ ExchangeInv /\ PairInv /\ SigInv => SignatureAgrees
  <2> SUFFICES ASSUME TypeOK, ExchangeInv, PairInv, SigInv, NEW p \in Peer,
                      Receiving(p, "commitment_signed")
               PROVE  Head(net[p]).tx = create_to_local(self[p], Commit(p).commit_num + 1)
    BY DEF SignatureAgrees
  <2> DEFINE a == net[p]
             m == Head(a)
  <2>1. a \in Seq(Message) /\ a # <<>> /\ m.type = "commitment_signed"
    BY DEF TypeOK, Receiving
  <2>2. 1 \in DOMAIN a /\ m = a[1] /\ m \in Message
    BY <2>1
  <2>3. m.tx \in CommitTxType
    BY <2>1, <2>2, MessageFields
  <2>4. ReadView(a, Tail(a), m)
    <3>1. Tidy(a)
      BY DEF PairInv
    <3> QED BY <2>1, <3>1, ReadViews
  <2>5. SigOK(self[p], a, m.tx)
    BY <2>1, <2>2 DEF SigInv, SigsFit
  <2>6. ~AckAhead(a) /\ \A n : ~Adding(a, n) /\ NotDeleting(a, n)
    BY <2>1, <2>4 DEF ReadView
  <2>7. m.tx.num = Commit(p).commit_num + 1
    <3>1. Other(p) \in Peer /\ Other(Other(p)) = p
      BY PeerFacts
    <3>2. 1 \in Carried(p, "commitment_signed")
      BY <2>1, <2>2 DEF Carried
    <3>3. SignatureUnderWay(Other(p))
      BY <3>1 DEF ExchangeInv
    <3> QED BY <2>2, <3>1, <3>2, <3>3 DEF SignatureUnderWay
  <2>8. m.tx = create_to_local(self[p], m.tx.num)
    BY <2>3, <2>5, <2>6, HeadSig
  <2> QED BY <2>7, <2>8
<1> QED BY <1>1, ExchangeInvariant, PairInvariant, SignaturesFit, PTL

----------------------------------------------------------------------------
(* The HTLCs of a commitment that was accepted, and the database.          *)

\* An HTLC this end offered and its present commitment may hold: the addition
\* is signed for, its deletion is not yet.
Committed(h) == IsOffered(h) /\ h.updsend /\ (h.delhtlc = "NONE" <=> h.comrecv)

\* The present commitment holds no other offered HTLC.
SignedKept(s) ==
    LET tx == s.commit_local.signature
    IN  "num" \in DOMAIN tx =>
          \A x \in tx.offered :
             \E i \in Slot : Committed(s.cnl_add_htlc[i]) /\ Ref(s.cnl_add_htlc[i]) = x

\* An HTLC this end received and has accepted a commitment for, or is deleting.
Bound(h) == IsReceived(h) /\ (h.comrecv \/ h.delhtlc # "NONE")

\* Every such HTLC is in the database d.
SavedKept(s, d) ==
    \A i \in Slot : Bound(s.cnl_add_htlc[i]) => Ref(s.cnl_add_htlc[i]) \in Held(d, "RECV")

\* Both, at both ends.
KeptInv == \A p \in Peer : SignedKept(self[p]) /\ SavedKept(self[p], db[p])

\* The step from s to u leaves the present commitment and its HTLCs alone.
CommitmentStays(s, u) ==
    /\ u.commit_local.signature = s.commit_local.signature
    /\ \A i \in Slot :
          Committed(s.cnl_add_htlc[i]) =>
             Committed(u.cnl_add_htlc[i]) /\ Ref(u.cnl_add_htlc[i]) = Ref(s.cnl_add_htlc[i])

\* The step from s to u binds no further HTLC.
NothingBound(s, u) ==
    \A i \in Slot :
       Bound(u.cnl_add_htlc[i]) =>
          Bound(s.cnl_add_htlc[i]) /\ Ref(u.cnl_add_htlc[i]) = Ref(s.cnl_add_htlc[i])

\* The commitment keeps its HTLCs.
LEMMA StaysKept ==
    ASSUME NEW s, NEW u, SignedKept(s), CommitmentStays(s, u)
    PROVE  SignedKept(u)
BY DEF SignedKept, CommitmentStays

\* The database need not be written.
LEMMA UnboundKept ==
    ASSUME NEW s, NEW u, NEW d, SavedKept(s, d), NothingBound(s, u)
    PROVE  SavedKept(u, d)
BY DEF SavedKept, NothingBound

\* A state that was just saved is in the database.
LEMMA SaveKept ==
    ASSUME NEW u \in SelfType
    PROVE  SavedKept(u, ln_db_self_save(u))
<1>1. ln_db_self_save(u).cnl_add_htlc = u.cnl_add_htlc
  BY DEF ln_db_self_save, SelfType
<1> QED BY <1>1 DEF SavedKept, Bound, Held, IsReceived

\* The forms a step takes: a state is kept that binds nothing, or any is saved.
LEMMA KeptBy ==
    ASSUME TypeOK, TypeOK', KeptInv, NEW p \in Peer, NEW u,
           self' = [self EXCEPT ![p] = u],
           SignedKept(u),
           \/ db' = db /\ NothingBound(self[p], u)
           \/ db' = [db EXCEPT ![p] = ln_db_self_save(u)]
    PROVE  KeptInv'
<1>1. self'[p] = u /\ u \in SelfType
  BY DEF TypeOK
<1>2. \A r \in Peer \ {p} : self'[r] = self[r] /\ db'[r] = db[r]
  BY DEF TypeOK
<1>3. SavedKept(u, db'[p])
  <2>1. CASE db' = db /\ NothingBound(self[p], u)
    BY <2>1, UnboundKept DEF KeptInv
  <2>2. CASE db' = [db EXCEPT ![p] = ln_db_self_save(u)]
    <3>1. db'[p] = ln_db_self_save(u)
      BY <2>2 DEF TypeOK
    <3> QED BY <1>1, <3>1, SaveKept
  <2> QED BY <2>1, <2>2
<1> QED BY <1>1, <1>2, <1>3 DEF KeptInv

\* The signature changes only when a commitment is accepted or at the end.
LEMMA SignatureStays ==
    ASSUME NEW s \in SelfType, NEW i \in Slot, NEW amt \in Nat, NEW id, NEW del, NEW m,
           NEW fate, NEW num, NEW tx
    PROVE  LET c(u) == u.commit_local.signature
           IN  /\ c(ln_add_htlc_set(s, i, amt)) = c(s)
               /\ c(ln_add_htlc_set_fwd(s, i, amt)) = c(s)
               /\ c(ln_add_htlc_start_fwd(s, i)) = c(s)
               /\ c(ln_fulfill_htlc_set(s, i)) = c(s) /\ c(ln_fail_htlc_set(s, i)) = c(s)
               /\ c(AcceptAddHtlc(s, i, m, fate)) = c(s) /\ c(DelOffered(s, id, del)) = c(s)
               /\ c(AfterUpdates(s)) = c(s) /\ c(AfterFinal(s)) = c(s)
               /\ c(AfterSendCommitmentSigned(s, tx)) = c(s)
               /\ c(AfterRevokeAndAck(s, num)) = c(s)
               /\ c(AfterCommitmentSigned(s, tx)) = tx
<1>1. /\ set_add_htlc(s, i, amt).commit_local = s.commit_local
      /\ set_add_htlc(s, i, amt) \in SelfType
  BY OfferType DEF ln_add_htlc_set_fwd, set_add_htlc, SelfType
<1>2. \A t \in SelfType : ln_add_htlc_start_fwd(t, i).commit_local = t.commit_local
  BY DEF ln_add_htlc_start_fwd, SelfType
<1>3. ln_add_htlc_set(s, i, amt) = ln_add_htlc_start_fwd(set_add_htlc(s, i, amt), i)
  BY DEF ln_add_htlc_set, ln_add_htlc_start_fwd
<1>4. ln_fulfill_htlc_set(s, i).commit_local = s.commit_local
  BY DEF ln_fulfill_htlc_set, DelHtlcIn, SelfType
<1>5. ln_fail_htlc_set(s, i).commit_local = s.commit_local
  BY DEF ln_fail_htlc_set, DelHtlcIn, SelfType
<1>6. AcceptAddHtlc(s, i, m, fate).commit_local = s.commit_local
  BY DEF AcceptAddHtlc, SelfType
<1>7. DelOffered(s, id, del).commit_local = s.commit_local
  BY DEF DelOffered, SelfType
<1>8. AfterUpdates(s).commit_local = s.commit_local
  BY DEF AfterUpdates, SelfType
<1>9. AfterFinal(s).commit_local = s.commit_local
  BY DEF AfterFinal, SelfType
<1>10. AfterSendCommitmentSigned(s, tx).commit_local = s.commit_local
  BY DEF AfterSendCommitmentSigned, SelfType
<1>11. AfterRevokeAndAck(s, num).commit_local = s.commit_local
  BY DEF AfterRevokeAndAck, SelfType
<1>12. AfterCommitmentSigned(s, tx).commit_local.signature = tx
  BY DEF AfterCommitmentSigned, SelfType
<1> QED BY <1>1, <1>2, <1>3, <1>4, <1>5, <1>6, <1>7, <1>8, <1>9, <1>10, <1>11, <1>12
        DEF ln_add_htlc_set_fwd

----------------------------------------------------------------------------
(* What each operation does to them.                                       *)

\* An operation on one slot that holds no committed HTLC.
LEMMA PutStays ==
    ASSUME NEW s, NEW u, NEW i \in Slot, NEW h, SlotPut(s, u, i, h),
           u.commit_local.signature = s.commit_local.signature,
           ~Committed(s.cnl_add_htlc[i])
    PROVE  CommitmentStays(s, u)
BY DEF CommitmentStays, SlotPut

\* An operation on one slot that binds nothing there.
LEMMA PutBinds ==
    ASSUME NEW s, NEW u, NEW i \in Slot, NEW h, SlotPut(s, u, i, h),
           Bound(h) => Bound(s.cnl_add_htlc[i]) /\ Ref(h) = Ref(s.cnl_add_htlc[i])
    PROVE  NothingBound(s, u)
BY DEF NothingBound, SlotPut

\* Offering an HTLC.
LEMMA OfferStays ==
    ASSUME NEW s \in SelfType, EndOK(s), NEW u, OfferMove(s, u) \/ StartMove(s, u)
    PROVE  CommitmentStays(s, u) /\ NothingBound(s, u)
<1>1. CASE OfferMove(s, u)
  <2>1. PICK i \in Slot, amt \in Amounts :
           /\ FreeSlot(s, i)
           /\ u = ln_add_htlc_set(s, i, amt) \/ u = ln_add_htlc_set_fwd(s, i, amt)
    BY <1>1 DEF OfferMove
  <2>2. amt \in Nat
    BY ParameterAssumption
  <2>3. PICK h : SlotPut(s, u, i, h) /\ ~IsReceived(h)
    <3>1. \A n : ~IsReceived(NewOffer(n, amt)) /\ ~IsReceived(WaitingHtlc(n, amt))
      BY DEF IsReceived, NewOffer, WaitingHtlc, EmptyHtlc
    <3> QED BY <2>1, <2>2, <3>1, OfferPut
  <2>4. u.commit_local.signature = s.commit_local.signature
    BY <2>1, <2>2, SignatureStays
  <2>5. ~Committed(s.cnl_add_htlc[i])
    BY <2>1 DEF FreeSlot, LN_HTLC_EMPTY, Committed, IsOffered
  <2> QED BY <2>3, <2>4, <2>5, PutStays, PutBinds DEF Bound
<1>2. CASE StartMove(s, u)
  <2>1. PICK i \in Slot : /\ s.cnl_add_htlc[i].addhtlc = "NONE"
                          /\ u = ln_add_htlc_start_fwd(s, i)
    BY <1>2 DEF StartMove
  <2> DEFINE h == [s.cnl_add_htlc[i] EXCEPT !.addhtlc = "OFFER"]
  <2>2. SlotPut(s, u, i, h)
    BY <2>1, OtherPut
  <2>3. ~IsReceived(h) /\ ~Committed(s.cnl_add_htlc[i])
    BY <2>1, SlotHolds DEF IsReceived, Committed, IsOffered, HtlcType
  <2>4. u.commit_local.signature = s.commit_local.signature
    BY <2>1, SignatureStays, 0 \in Nat
  <2> HIDE DEF h
  <2> QED BY <2>2, <2>3, <2>4, PutStays, PutBinds DEF Bound
<1> QED BY <1>1, <1>2

\* The other channel resolves a forwarded HTLC.
LEMMA BackwindStays ==
    ASSUME NEW s \in SelfType, NEW u, BackwindMove(s, u)
    PROVE  CommitmentStays(s, u) /\ NothingBound(s, u)
<1>1. PICK i \in Slot : /\ Forwarded(s.cnl_add_htlc[i])
                        /\ u = ln_fulfill_htlc_set(s, i) \/ u = ln_fail_htlc_set(s, i)
  BY DEF BackwindMove
<1> DEFINE h == s.cnl_add_htlc[i]
<1>2. Exchanged(h) /\ IsReceived(h) /\ h \in HtlcType
  BY <1>1, SlotHolds DEF Forwarded, IsReceived
<1>3. PICK del : SlotPut(s, u, i, clear_htlc_comrevflag(h, del))
  BY <1>1, <1>2, OtherPut, FailPut
<1>4. u.commit_local.signature = s.commit_local.signature
  BY <1>1, SignatureStays, 0 \in Nat
<1>5. Bound(h) /\ ~Committed(h)
  BY <1>2 DEF Bound, Committed, IsReceived, IsOffered, Exchanged
<1>6. Ref(clear_htlc_comrevflag(h, del)) = Ref(h)
  BY <1>2 DEF clear_htlc_comrevflag, Ref, HtlcType
<1> QED BY <1>3, <1>4, <1>5, <1>6, PutStays, PutBinds

\* A new HTLC is not bound, unless it is refused at once.
LEMMA AddStays ==
    ASSUME NEW s \in SelfType, EndOK(s), NEW i \in Slot, FreeSlot(s, i), NEW m,
           NEW fate \in Fates, ~Doomable
    PROVE  LET u == AcceptAddHtlc(s, i, m, fate)
           IN  CommitmentStays(s, u) /\ NothingBound(s, u)
<1> DEFINE u == AcceptAddHtlc(s, i, m, fate)
           g == AcceptedHtlc(s.cnl_add_htlc[i], m, fate)
<1>1. SlotPut(s, u, i, g)
  BY AcceptPut
<1>2. s.cnl_add_htlc[i] = EmptyHtlc /\ fate # "NEXT_SHUTDOWN"
  BY DEF EndOK, SlotOK, FreeSlot, Doomable
<1>3. g.delhtlc = "NONE" /\ g.comrecv = FALSE
  BY <1>2 DEF AcceptedHtlc, EmptyHtlc
<1>4. ~Committed(EmptyHtlc)
  BY DEF Committed, IsOffered, EmptyHtlc
<1>5. u.commit_local.signature = s.commit_local.signature
  BY SignatureStays, 0 \in Nat
<1> HIDE DEF u, g
<1>6. CommitmentStays(s, u) /\ NothingBound(s, u)
  BY <1>1, <1>2, <1>3, <1>4, <1>5, PutStays, PutBinds DEF Bound
<1> QED BY <1>6 DEF u

\* A deletion arrives: the commitment still holds the HTLC.
LEMMA DelStays ==
    ASSUME NEW s \in SelfType, EndOK(s), NEW n, NEW del \in Deletion
    PROVE  LET u == DelOffered(s, n, del)
           IN  CommitmentStays(s, u) /\ NothingBound(s, u)
<1> DEFINE u == DelOffered(s, n, del)
<1>1. u.commit_local.signature = s.commit_local.signature
  <2>1. 0 \in Slot /\ 0 \in Nat
    BY HtlcMaxAssumption DEF Slot
  <2> QED BY <2>1, SignatureStays
<1>2. ASSUME NEW i \in Slot
      PROVE  LET h == s.cnl_add_htlc[i]
                 g == u.cnl_add_htlc[i]
             IN  /\ Committed(h) => Committed(g) /\ Ref(g) = Ref(h)
                 /\ Bound(g) => Bound(h) /\ Ref(g) = Ref(h)
  <2> DEFINE h == s.cnl_add_htlc[i]
             g == u.cnl_add_htlc[i]
  <2>1. /\ FlagsOnly(s, u)
        /\ IsOffered(h) => DelArrived(h, g, n, del)
        /\ ~IsOffered(h) => g = h
    BY DelMap
  <2>2. g.addhtlc = h.addhtlc
    BY <2>1 DEF FlagsOnly, SameSlots
  <2>3. del # "NONE"
    BY DEF Deletion
  <2> SUFFICES /\ Committed(h) => Committed(g) /\ Ref(g) = Ref(h)
               /\ Bound(g) => Bound(h) /\ Ref(g) = Ref(h)
    OBVIOUS
  <2> HIDE DEF h, g, u
  <2>4. CASE IsOffered(h)
    <3>1. DelArrived(h, g, n, del) /\ ~Bound(g)
      BY <2>1, <2>2, <2>4 DEF Bound, IsOffered, IsReceived
    <3> QED BY <2>3, <3>1 DEF DelArrived, SameHtlc, Committed, IsOffered, Ref, Exchanged
  <2>5. CASE ~IsOffered(h)
    BY <2>1, <2>5
  <2> QED BY <2>4, <2>5
<1> HIDE DEF u
<1>3. CommitmentStays(s, u) /\ NothingBound(s, u)
  BY <1>1, <1>2 DEF CommitmentStays, NothingBound
<1> QED BY <1>3 DEF u

\* recv_idle_proc_final clears no HTLC that the present commitment holds.
LEMMA FinalStays ==
    ASSUME NEW s \in SelfType, EndOK(s), Final(s)
    PROVE  CommitmentStays(s, AfterFinal(s))
<1> DEFINE u == AfterFinal(s)
<1>1. u.commit_local.signature = s.commit_local.signature
  <2>1. 0 \in Slot /\ 0 \in Nat
    BY HtlcMaxAssumption DEF Slot
  <2> QED BY <2>1, SignatureStays
<1>2. ASSUME NEW i \in Slot, Committed(s.cnl_add_htlc[i])
      PROVE  /\ Committed(u.cnl_add_htlc[i])
             /\ Ref(u.cnl_add_htlc[i]) = Ref(s.cnl_add_htlc[i])
  <2> DEFINE h == s.cnl_add_htlc[i]
             g == u.cnl_add_htlc[i]
  <2>1. FinalSlot(s, h, g, i)
    BY FinalSlots
  <2> HIDE DEF g, h
  <2>2. SameHtlc(h, g)
    BY <1>2, <2>1 DEF FinalSlot, DeletionStarts, Committed, IsOffered, IsReceived, h
  <2> QED BY <1>2, <2>2 DEF SameHtlc, Committed, IsOffered, Ref, g, h
<1> HIDE DEF u
<1>3. CommitmentStays(s, u)
  BY <1>1, <1>2 DEF CommitmentStays
<1> QED BY <1>3 DEF u

\* A pass of recv_idle_proc_nonfinal and a revoke_and_ack set other flags.
LEMMA FlagsStay ==
    ASSUME NEW s, NEW u, FlagsOnly(s, u),
           u.commit_local.signature = s.commit_local.signature,
           \A i \in Slot : LET h == s.cnl_add_htlc[i]
                               g == u.cnl_add_htlc[i]
                           IN  /\ g.delhtlc = h.delhtlc /\ g.comrecv = h.comrecv
                               /\ h.updsend => g.updsend
    PROVE  CommitmentStays(s, u) /\ NothingBound(s, u)
<1>1. \A i \in Slot : Ref(u.cnl_add_htlc[i]) = Ref(s.cnl_add_htlc[i])
  BY DEF FlagsOnly, SameSlots, Ref
<1>2. \A i \in Slot : u.cnl_add_htlc[i].addhtlc = s.cnl_add_htlc[i].addhtlc
  BY DEF FlagsOnly, SameSlots
<1>3. CommitmentStays(s, u)
  BY <1>1, <1>2 DEF CommitmentStays, Committed, IsOffered
<1>4. NothingBound(s, u)
  BY <1>1, <1>2 DEF NothingBound, Bound, IsReceived
<1> QED BY <1>3, <1>4

\* The two forms of a pass, and revoke_and_ack.
LEMMA ExchangeStays ==
    ASSUME NEW s \in SelfType, EndOK(s), NEW tx, NEW num
    PROVE  /\ CommitmentStays(s, AfterUpdates(s)) /\ NothingBound(s, AfterUpdates(s))
           /\ CommitmentStays(s, AfterSendCommitmentSigned(AfterUpdates(s), tx))
           /\ CommitmentStays(s, AfterRevokeAndAck(s, num))
<1>0. 0 \in Slot /\ 0 \in Nat
  BY HtlcMaxAssumption DEF Slot
<1>1. \A t \in SelfType :
         /\ AfterUpdates(t).commit_local.signature = t.commit_local.signature
         /\ AfterSendCommitmentSigned(t, tx).commit_local.signature = t.commit_local.signature
         /\ AfterRevokeAndAck(t, num).commit_local.signature = t.commit_local.signature
  BY <1>0, SignatureStays
<1>2. AfterUpdates(s) \in SelfType
  BY UpdatesType
<1>3. CommitmentStays(s, AfterUpdates(s)) /\ NothingBound(s, AfterUpdates(s))
  <2> DEFINE u == AfterUpdates(s)
  <2>1. /\ FlagsOnly(s, u)
        /\ \A i \in Slot : PassSlot(s, s.cnl_add_htlc[i], u.cnl_add_htlc[i], FALSE)
    <3>1. u = IF FALSE THEN AfterSendCommitmentSigned(AfterUpdates(s), tx) ELSE AfterUpdates(s)
      OBVIOUS
    <3> QED BY <3>1, PassSlots
  <2>2. u.commit_local.signature = s.commit_local.signature
    BY <1>1
  <2> HIDE DEF u
  <2>3. CommitmentStays(s, u) /\ NothingBound(s, u)
    BY <2>1, <2>2, FlagsStay DEF PassSlot
  <2> QED BY <2>3 DEF u
<1>4. CommitmentStays(s, AfterSendCommitmentSigned(AfterUpdates(s), tx))
  <2> DEFINE u == AfterSendCommitmentSigned(AfterUpdates(s), tx)
  <2>1. /\ FlagsOnly(s, u)
        /\ \A i \in Slot : PassSlot(s, s.cnl_add_htlc[i], u.cnl_add_htlc[i], TRUE)
    <3>1. u = IF TRUE THEN AfterSendCommitmentSigned(AfterUpdates(s), tx) ELSE AfterUpdates(s)
      OBVIOUS
    <3> QED BY <3>1, PassSlots
  <2>2. u.commit_local.signature = s.commit_local.signature
    BY <1>1, <1>2
  <2> HIDE DEF u
  <2>3. CommitmentStays(s, u)
    BY <2>1, <2>2, FlagsStay DEF PassSlot
  <2> QED BY <2>3 DEF u
<1>5. CommitmentStays(s, AfterRevokeAndAck(s, num))
  <2> DEFINE u == AfterRevokeAndAck(s, num)
  <2>1. /\ FlagsOnly(s, u)
        /\ \A i \in Slot :
              LET h == s.cnl_add_htlc[i]
                  g == u.cnl_add_htlc[i]
              IN  g.delhtlc = h.delhtlc /\ g.updsend = h.updsend /\ g.comrecv = h.comrecv
    BY AckMap
  <2>2. u.commit_local.signature = s.commit_local.signature
    BY <1>1
  <2> HIDE DEF u
  <2>3. CommitmentStays(s, u)
    BY <2>1, <2>2, FlagsStay
  <2> QED BY <2>3 DEF u
<1> QED BY <1>3, <1>4, <1>5

\* recv_commitment_signed marks the HTLCs of the commitment it accepts.
LEMMA AcceptedKept ==
    ASSUME NEW s \in SelfType, NEW n
    PROVE  SignedKept(AfterCommitmentSigned(s, create_to_local(s, n)))
<1> DEFINE tx == create_to_local(s, n)
           u == AfterCommitmentSigned(s, tx)
<1>1. tx.offered = Refs(s, LN_HTLC_ENABLE_LOCAL_ADDHTLC_OFFER)
  BY DEF create_to_local
<1> HIDE DEF tx
<1>2. u.commit_local.signature = tx
  <2>1. 0 \in Slot /\ 0 \in Nat
    BY HtlcMaxAssumption DEF Slot
  <2> QED BY <2>1, SignatureStays
<1>3. ASSUME NEW x \in tx.offered
      PROVE  \E i \in Slot : Committed(u.cnl_add_htlc[i]) /\ Ref(u.cnl_add_htlc[i]) = x
  <2>1. PICK i \in Slot : /\ LN_HTLC_ENABLE(s.cnl_add_htlc[i])
                          /\ LN_HTLC_ENABLE_LOCAL_ADDHTLC_OFFER(s.cnl_add_htlc[i])
                          /\ x = Ref(s.cnl_add_htlc[i])
    BY <1>1, <1>3 DEF Refs
  <2> DEFINE h == s.cnl_add_htlc[i]
             g == u.cnl_add_htlc[i]
  <2>2. InLocalExchange(h)
    BY <2>1 DEF InLocalExchange
  <2>3. /\ FlagsOnly(s, u) /\ g.delhtlc = h.delhtlc /\ g.updsend = h.updsend
        /\ g.comrecv = TRUE
    BY <2>2, AcceptMap
  <2>4. g.addhtlc = h.addhtlc /\ Ref(g) = Ref(h)
    BY <2>3 DEF FlagsOnly, SameSlots, Ref
  <2>5. h.addhtlc = "OFFER" /\ h.delhtlc = "NONE" /\ h.updsend
    BY <2>1 DEF LN_HTLC_ENABLE_LOCAL_ADDHTLC_OFFER
  <2> HIDE DEF u
  <2> QED BY <2>1, <2>3, <2>4, <2>5 DEF Committed, IsOffered
<1> HIDE DEF u
<1>4. SignedKept(u)
  BY <1>2, <1>3 DEF SignedKept
<1> QED BY <1>4 DEF u, tx

----------------------------------------------------------------------------
(* Every step keeps them.                                                  *)

\* Payments and the callers of other channels.
LEMMA OfferStepKept ==
    ASSUME TypeOK, TypeOK', KeptInv, NEW p \in Peer, EndOK(self[p]),
           Offer(p) \/ OtherChannel(p)
    PROVE  KeptInv'
<1> DEFINE s == self[p]
<1>1. s \in SelfType /\ SignedKept(s)
  BY DEF TypeOK, KeptInv
<1>2. ASSUME NEW u, self' = [self EXCEPT ![p] = u],
             CommitmentStays(s, u) /\ NothingBound(s, u),
             db' = db \/ db' = [db EXCEPT ![p] = ln_db_self_save(u)]
      PROVE  KeptInv'
  BY <1>1, <1>2, StaysKept, KeptBy
<1>3. ASSUME NEW amt \in Amounts, Pay(p, amt) \/ FwdAdd(p, amt)
      PROVE  KeptInv'
  <2>1. PICK i \in Slot : /\ FreeSlot(s, i)
                          /\ \/ Keep(p, ln_add_htlc_set(s, i, amt))
                             \/ Keep(p, ln_add_htlc_set_fwd(s, i, amt))
    BY <1>3 DEF Pay, FwdAdd
  <2>2. db' = db
    BY <1>3 DEF Pay, FwdAdd
  <2>3. OfferMove(s, ln_add_htlc_set(s, i, amt)) /\ OfferMove(s, ln_add_htlc_set_fwd(s, i, amt))
    BY <2>1 DEF OfferMove
  <2> QED BY <1>1, <1>2, <2>1, <2>2, <2>3, OfferStays DEF Keep
<1>4. ASSUME NEW i \in Slot, FwdStart(p, i)
      PROVE  KeptInv'
  <2>1. StartMove(s, ln_add_htlc_start_fwd(s, i))
    BY <1>4 DEF FwdStart, StartMove
  <2> QED BY <1>1, <1>2, <1>4, <2>1, OfferStays DEF FwdStart, Keep
<1>5. ASSUME NEW i \in Slot, FulfillBackwind(p, i)
      PROVE  KeptInv'
  <2>1. BackwindMove(s, ln_fulfill_htlc_set(s, i))
    BY <1>5 DEF FulfillBackwind, BackwindMove
  <2> QED BY <1>1, <1>2, <1>5, <2>1, BackwindStays DEF FulfillBackwind, Save
<1>6. ASSUME NEW i \in Slot, FailBackwind(p, i)
      PROVE  KeptInv'
  <2>1. BackwindMove(s, ln_fail_htlc_set(s, i))
    BY <1>6 DEF FailBackwind, BackwindMove
  <2> QED BY <1>1, <1>2, <1>6, <2>1, BackwindStays DEF FailBackwind, Keep
<1> QED BY <1>3, <1>4, <1>5, <1>6 DEF Offer, OtherChannel

\* The idle procedure: it saves whenever it clears a slot.
LEMMA IdleStepKept ==
    ASSUME TypeOK, TypeOK', KeptInv, NEW p \in Peer, EndOK(self[p]), Idle(p)
    PROVE  KeptInv'
<1> DEFINE s == self[p]
           upd == AfterUpdates(s)
           tx == create_to_remote(upd, s.commit_remote.commit_num + 1)
<1>1. s \in SelfType /\ SignedKept(s)
  BY DEF TypeOK, KeptInv
<1>2. CASE IdleFinal(p)
  <2> DEFINE u == AfterFinal(s)
  <2>1. /\ self' = [self EXCEPT ![p] = u] /\ db' = [db EXCEPT ![p] = ln_db_self_save(u)]
        /\ Final(s)
    BY <1>2 DEF IdleFinal, Save
  <2>2. CommitmentStays(s, u)
    BY <1>1, <2>1, FinalStays
  <2> HIDE DEF u
  <2> QED BY <1>1, <2>1, <2>2, StaysKept, KeptBy
<1>3. CASE IdleNonfinal(p)
  <2>1. \/ Save(p, AfterSendCommitmentSigned(upd, tx))
        \/ Keep(p, upd) /\ db' = db
    BY <1>3 DEF IdleNonfinal
  <2>2. /\ CommitmentStays(s, upd) /\ NothingBound(s, upd)
        /\ CommitmentStays(s, AfterSendCommitmentSigned(upd, tx))
    <3> HIDE DEF tx
    <3> QED BY <1>1, ExchangeStays
  <2> HIDE DEF upd, tx
  <2> QED BY <1>1, <2>1, <2>2, StaysKept, KeptBy DEF Save, Keep
<1> QED BY <1>2, <1>3 DEF Idle

\* The handlers of update messages.
LEMMA UpdateStepKept ==
    ASSUME TypeOK, TypeOK', KeptInv, ~Doomable, NEW p \in Peer, EndOK(self[p]),
           \/ RecvAddHtlc(p) \/ RecvFulfillHtlc(p)
           \/ RecvFailHtlc(p) \/ RecvFailMalformedHtlc(p)
    PROVE  KeptInv'
<1> DEFINE s == self[p]
           m == Head(net[p])
<1>1. s \in SelfType /\ SignedKept(s)
  BY DEF TypeOK, KeptInv
<1>2. CASE FailChannel(p)
  BY <1>2 DEF FailChannel, KeptInv
<1>3. CASE ~FailChannel(p) /\ RecvAddHtlc(p)
  <2>1. PICK i \in Slot, fate \in Fates :
          FreeSlot(s, i) /\ Keep(p, AcceptAddHtlc(s, i, m, fate))
    BY <1>3 DEF RecvAddHtlc
  <2>2. db' = db
    BY <1>3 DEF RecvAddHtlc
  <2> DEFINE u == AcceptAddHtlc(s, i, m, fate)
  <2>3. CommitmentStays(s, u) /\ NothingBound(s, u)
    BY <1>1, <2>1, AddStays
  <2> HIDE DEF u
  <2>4. self' = [self EXCEPT ![p] = u]
    BY <2>1 DEF Keep, u
  <2> QED BY <1>1, <2>2, <2>3, <2>4, StaysKept, KeptBy
<1>4. ASSUME NEW type, NEW del \in Deletion, RecvDelHtlc(p, type, del), ~FailChannel(p)
      PROVE  KeptInv'
  <2> DEFINE u == DelOffered(s, m.id, del)
  <2>1. self' = [self EXCEPT ![p] = u] /\ db' = db
    BY <1>4 DEF RecvDelHtlc, Keep
  <2>2. CommitmentStays(s, u) /\ NothingBound(s, u)
    BY <1>1, DelStays
  <2> HIDE DEF u
  <2> QED BY <1>1, <2>1, <2>2, StaysKept, KeptBy
<1>5. "FULFILL" \in Deletion /\ "FAIL" \in Deletion /\ "MALFORMED" \in Deletion
  BY DEF Deletion, DelHtlc
<1> QED BY <1>2, <1>3, <1>4, <1>5 DEF RecvFulfillHtlc, RecvFailHtlc, RecvFailMalformedHtlc

\* commitment_signed and revoke_and_ack.
LEMMA CommitStepKept ==
    ASSUME TypeOK, TypeOK', KeptInv, NEW p \in Peer, EndOK(self[p]),
           RecvCommitmentSigned(p) \/ RecvRevokeAndAck(p)
    PROVE  KeptInv'
<1> DEFINE s == self[p]
           m == Head(net[p])
           tx == create_to_local(s, s.commit_local.commit_num + 1)
<1>1. s \in SelfType /\ SignedKept(s)
  BY DEF TypeOK, KeptInv
<1>2. CASE FailChannel(p)
  BY <1>2 DEF FailChannel, KeptInv
<1>3. CASE ~FailChannel(p)
  <2>1. \/ Save(p, AfterCommitmentSigned(s, tx))
        \/ Save(p, AfterRevokeAndAck(s, m.num))
    BY <1>3 DEF RecvCommitmentSigned, RecvRevokeAndAck
  <2>2. SignedKept(AfterCommitmentSigned(s, tx))
    BY <1>1, AcceptedKept
  <2>3. SignedKept(AfterRevokeAndAck(s, m.num))
    BY <1>1, ExchangeStays, StaysKept
  <2> HIDE DEF tx, m
  <2> QED BY <2>1, <2>2, <2>3, KeptBy DEF Save
<1> QED BY <1>2, <1>3

\* The signature of the closing transaction replaces that of the commitment.
LEMMA CloseStepKept ==
    ASSUME TypeOK, TypeOK', KeptInv, NEW p \in Peer,
           CloseRpc(p) \/ RecvShutdown(p) \/ RecvClosingSigned(p)
    PROVE  KeptInv'
<1> DEFINE s == self[p]
           tx == Head(net[p]).tx
<1>1. s \in SelfType /\ SignedKept(s)
  BY DEF TypeOK, KeptInv
<1>2. CASE self' = self /\ db' = db
  BY <1>2 DEF KeptInv
<1>3. ASSUME NEW u, Save(p, u), u.cnl_add_htlc = s.cnl_add_htlc,
             \/ u.commit_local.signature = s.commit_local.signature
             \/ "num" \notin DOMAIN u.commit_local.signature
      PROVE  KeptInv'
  <2>1. SignedKept(u)
    BY <1>1, <1>3 DEF SignedKept
  <2> QED BY <1>3, <2>1, KeptBy DEF Save
<1>4. CASE CloseRpc(p)
  <2>1. /\ SendShutdown(s).cnl_add_htlc = s.cnl_add_htlc
        /\ SendShutdown(s).commit_local = s.commit_local
    BY <1>1 DEF SendShutdown, SelfType
  <2> QED BY <1>3, <1>4, <2>1 DEF CloseRpc
<1>5. CASE RecvShutdown(p) /\ ~(self' = self /\ db' = db)
  <2> DEFINE recvd == [s EXCEPT !.shutdown_flag = @ \cup {"RECV"},
                                !.close_last_fee_sat = 0]
             exch == [(IF "SEND" \notin s.shutdown_flag
                       THEN SendShutdown(recvd) ELSE recvd)
                         EXCEPT !.status = "CLOSE_WAIT"]
             last == [exch EXCEPT !.close_last_fee_sat = exch.close_fee_sat]
  <2>1. Save(p, last) \/ Save(p, exch)
    BY <1>5 DEF RecvShutdown, FailChannel
  <2>2. exch.cnl_add_htlc = s.cnl_add_htlc /\ exch.commit_local = s.commit_local
    BY <1>1 DEF SendShutdown, SelfType
  <2>3. last.cnl_add_htlc = s.cnl_add_htlc /\ last.commit_local = s.commit_local
    BY <1>1 DEF SendShutdown, SelfType
  <2> HIDE DEF exch, last
  <2> QED BY <1>3, <2>1, <2>2, <2>3
<1>6. CASE RecvClosingSigned(p) /\ ~(self' = self /\ db' = db)
  <2> DEFINE signed == [s EXCEPT !.commit_local.signature = tx]
             spent == [signed EXCEPT !.status = "CLOSE_SPENT"]
             agreed == [signed EXCEPT !.close_fee_sat = tx.fee_sat,
                                      !.close_last_fee_sat = tx.fee_sat]
  <2>1. Save(p, spent) \/ Save(p, agreed)
    BY <1>6 DEF RecvClosingSigned, FailChannel
  <2>2. /\ spent.cnl_add_htlc = s.cnl_add_htlc /\ spent.commit_local.signature = tx
        /\ agreed.cnl_add_htlc = s.cnl_add_htlc /\ agreed.commit_local.signature = tx
    BY <1>1 DEF SelfType, CommitLocalType
  <2>3. "num" \notin DOMAIN tx
    <3>1. Head(net[p]) \in Message /\ Head(net[p]).type = "closing_signed"
      BY <1>6 DEF RecvClosingSigned, Receiving, TypeOK
    <3>2. tx \in ClosingTxType
      BY <3>1, MessageFields
    <3> HIDE DEF tx
    <3> QED BY <3>2 DEF ClosingTxType
  <2> HIDE DEF spent, agreed
  <2> QED BY <1>3, <2>1, <2>2, <2>3
<1> QED BY <1>2, <1>4, <1>5, <1>6

\* When no HTLC is refused before its addition is exchanged, the signature of a
\* commitment covers no HTLC its owner has cleared or is past deleting, and the
\* database holds every received HTLC of an accepted commitment.
THEOREM KeptInvariant ==
    ASSUME "NEXT_SHUTDOWN" \notin Fates
    PROVE  Spec => []KeptInv
<1>1. TypeOK /\ TypeOK' /\ PairInv /\ KeptInv /\ [Next]_vars => KeptInv'
  <2> SUFFICES ASSUME TypeOK, TypeOK', PairInv, KeptInv, [Next]_vars
               PROVE  KeptInv'
    OBVIOUS
  <2>1. (\A p \in Peer : EndOK(self[p])) /\ ~Doomable
    BY DEF PairInv, Doomable
  <2>2. CASE self' = self /\ db' = db
    BY <2>2 DEF KeptInv
  <2>3. CASE UNCHANGED vars
    BY <2>2, <2>3 DEF vars
  <2>4. ASSUME NEW p \in Peer, CloseForce(p) \/ PeerGone(p)
        PROVE  KeptInv'
    BY <2>2, <2>4 DEF CloseForce, ForceLoad, ForceBroadcast, ForceStop, PeerGone
  <2>5. ASSUME NEW p \in Peer,
               Offer(p) \/ OtherChannel(p) \/ Idle(p) \/ Receive(p) \/ CloseRpc(p)
        PROVE  KeptInv'
    BY <2>1, <2>5, OfferStepKept, IdleStepKept, UpdateStepKept, CommitStepKept, CloseStepKept
       DEF Receive
  <2> QED BY <2>3, <2>4, <2>5 DEF Next
<1>2. Init => KeptInv
  <2> SUFFICES ASSUME Init, NEW p \in Peer
               PROVE  SignedKept(self[p]) /\ SavedKept(self[p], db[p])
    BY DEF KeptInv
  <2>1. self[p] = InitSelf
    BY DEF Init
  <2>2. InitSelf.commit_local.signature.offered = {}
    BY DEF InitSelf
  <2>3. \A i \in Slot : InitSelf.cnl_add_htlc[i] = EmptyHtlc
    BY DEF InitSelf
  <2>4. ~Bound(EmptyHtlc)
    BY DEF Bound, IsReceived, EmptyHtlc
  <2> QED BY <2>1, <2>2, <2>3, <2>4 DEF SignedKept, SavedKept
<1> QED BY <1>1, <1>2, TypeCorrect, PairInvariant, PTL DEF Spec

----------------------------------------------------------------------------
(* What follows for the channel.                                           *)

\* The receiver still holds an HTLC of the offerer's present commitment, and
\* of one that is about to replace it.
LEMMA ReceiverHolds ==
    ASSUME NEW O, NEW R, NEW a, NEW b, NEW ta, NEW tb, ~Doomable, EndOK(O),
           Pairing(O, R, a, b, ta, tb), NEW i \in Slot,
           Committed(O.cnl_add_htlc[i]) \/ SigOffered(O.cnl_add_htlc[i], a)
    PROVE  \E j \in Slot : /\ Bound(R.cnl_add_htlc[j])
                           /\ Ref(R.cnl_add_htlc[j]) = Ref(O.cnl_add_htlc[i])
<1> DEFINE h == O.cnl_add_htlc[i]
<1>1. IsOffered(h) /\ h.updsend
  BY DEF Committed, SigOffered
<1>2. Arrived(h, a) => h.revrecv \/ Acking(a)
  BY DEF Arrived, AckAhead, Acking
<1>3. ~AddSent(h, a, b)
  BY <1>2 DEF AddSent, Committed, SigOffered
<1>4. ~ReceiverGone(h, R, a, b, tb)
  BY <1>2 DEF ReceiverGone, Committed, SigOffered
<1>5. PICK j \in Slot : IsReceived(R.cnl_add_htlc[j]) /\ R.cnl_add_htlc[j].id = h.id
  BY <1>1, <1>3, <1>4 DEF Pairing, OffersFit
<1> DEFINE g == R.cnl_add_htlc[j]
<1>6. Paired(h, g, a, b, ta, tb)
  BY <1>1, <1>5 DEF Pairing, PairsFit
<1>7. Ref(h) = Ref(g)
  BY <1>6 DEF Paired
<1>8. g.comrecv \/ g.delhtlc # "NONE"
  <2>1. CASE Added(h, g, a, b, ta, tb)
    <3>1. h.comrecv \/ h.revrecv \/ Acking(a)
      BY <1>2, <2>1 DEF Added, Committed, SigOffered
    <3> QED BY <2>1, <3>1 DEF Added
  <2>2. CASE ~Added(h, g, a, b, ta, tb)
    BY <1>6, <2>2 DEF Paired, DelDecided, DelSent, DelKnown, DelLost, Doomed, Deletion
  <2> QED BY <2>1, <2>2
<1> QED BY <1>5, <1>7, <1>8 DEF Bound

\* When no HTLC is refused before its addition is exchanged, an end holds every
\* HTLC it received, in memory and in its database, for as long as the peer has
\* or gets a signed commitment with that HTLC: recv_idle_proc_final never
\* clears it too early, for every number of slots and HTLCs and in every
\* interleaving.
THEOREM ReceivedAlwaysKept ==
    ASSUME "NEXT_SHUTDOWN" \notin Fates
    PROVE  Spec => []ReceivedKept
<1>1. TypeOK /\ PairInv /\ SigInv /\ KeptInv => ReceivedKept
  <2> SUFFICES ASSUME TypeOK, PairInv, SigInv, KeptInv, NEW p \in Peer,
                      NEW tx \in Live(Other(p)), NEW x \in tx.offered
               PROVE  x \in Held(self[p], "RECV") /\ x \in Held(db[p], "RECV")
    BY DEF ReceivedKept
  <2> DEFINE q == Other(p)
             O == self[q]
             R == self[p]
             a == net[q]
  <2>1. q \in Peer /\ Other(q) = p
    BY PeerFacts
  <2>2. EndOK(O) /\ Pairing(O, R, a, net[p], thread[q], thread[p]) /\ ~Doomable
    BY <2>1 DEF PairInv, Doomable
  <2>3. PICK i \in Slot : /\ Ref(O.cnl_add_htlc[i]) = x
                          /\ Committed(O.cnl_add_htlc[i]) \/ SigOffered(O.cnl_add_htlc[i], a)
    <3>1. CASE tx = O.commit_local.signature /\ "num" \in DOMAIN tx
      <4>1. SignedKept(O)
        BY <2>1 DEF KeptInv
      <4> HIDE DEF O, a
      <4> QED BY <3>1, <4>1 DEF SignedKept
    <3>2. ASSUME NEW k \in Carried(q, "commitment_signed"), tx = a[k].tx
          PROVE  \E i \in Slot : /\ Ref(O.cnl_add_htlc[i]) = x
                                 /\ SigOffered(O.cnl_add_htlc[i], a)
      <4>1. k \in DOMAIN a /\ a[k].type = "commitment_signed"
        BY <3>2 DEF Carried
      <4>2. SigOK(O, a, tx)
        BY <2>1, <3>2, <4>1 DEF SigInv, SigsFit
      <4>3. x \in OfferedAt(O, a)
        BY <4>2 DEF SigOK
      <4> HIDE DEF O, a
      <4> QED BY <4>3 DEF OfferedAt
    <3> QED BY <3>1, <3>2 DEF Live, Commit
  <2>4. PICK j \in Slot : Bound(R.cnl_add_htlc[j]) /\ Ref(R.cnl_add_htlc[j]) = x
    <3> HIDE DEF O, R, a
    <3> QED BY <2>2, <2>3, ReceiverHolds
  <2>5. x \in Held(R, "RECV")
    BY <2>4 DEF Held, Bound, IsReceived
  <2>6. x \in Held(db[p], "RECV")
    BY <2>4 DEF KeptInv, SavedKept
  <2> QED BY <2>5, <2>6
<1> QED BY <1>1, TypeCorrect, PairInvariant, SignaturesFit, KeptInvariant, PTL

\* When no HTLC is refused before its addition is exchanged, a receive thread
\* ends only over an HTLC it has no room for, over a mutual close, on request
\* or after its peer: neither a commitment_signed nor a deletion makes a
\* handler of ln_recv return false between honest ends.
THEOREM StopsForReasons ==
    ASSUME "NEXT_SHUTDOWN" \notin Fates
    PROVE  Spec => StopReasons
<1> DEFINE Reason(p) ==
             \/ /\ Receiving(p, "update_add_htlc")
                /\ \/ ~check_recv_add_htlc_bolt2(p, Head(net[p]))
                   \/ \A i \in Slot : ~FreeSlot(self[p], i)
             \/ Receiving(p, "shutdown") \/ Receiving(p, "closing_signed")
             \/ rpc[p].stage = "sent"
             \/ ~Running(Other(p))
           A == \A p \in Peer : Running(p) /\ thread'[p] # "run" => Reason(p)
<1>1. TypeOK /\ SignatureAgrees /\ DeletionApplies /\ [Next]_vars => A
  <2> SUFFICES ASSUME TypeOK, SignatureAgrees, DeletionApplies, [Next]_vars,
                      NEW p \in Peer, Running(p), thread'[p] # "run"
               PROVE  Reason(p)
    OBVIOUS
  <2>1. thread' # thread
    BY DEF Running
  <2>2. PICK r \in Peer : \/ Offer(r) \/ OtherChannel(r) \/ Idle(r) \/ Receive(r)
                          \/ CloseRpc(r) \/ CloseForce(r) \/ PeerGone(r)
    BY <2>1 DEF Next, vars
  <2>3. ASSUME NEW how, Stop(r, how)
        PROVE  r = p
    <3>1. r # p => thread'[p] = thread[p]
      BY <2>3 DEF Stop, TypeOK
    <3> QED BY <3>1 DEF Running
  <2>4. CASE CloseForce(r) \/ PeerGone(r)
    <3>1. ForceStop(r) \/ PeerGone(r)
      BY <2>1, <2>4 DEF CloseForce, ForceLoad, ForceBroadcast
    <3>2. \E how : Stop(r, how)
      BY <2>1, <3>1 DEF ForceStop, PeerGone
    <3> QED BY <2>3, <3>1, <3>2 DEF ForceStop, PeerGone
  <2>5. ASSUME NEW type, NEW del, RecvDelHtlc(r, type, del), type \in UpdateType
        PROVE  FALSE
    <3>1. \E i \in Slot : OfferedSlot(self[r], Head(net[r]).id, i)
      BY <2>5 DEF RecvDelHtlc, DeletionApplies
    <3> QED BY <2>1, <2>5, <3>1 DEF RecvDelHtlc, Environment
  <2>6. CASE RecvFulfillHtlc(r) \/ RecvFailHtlc(r) \/ RecvFailMalformedHtlc(r)
    BY <2>5, <2>6 DEF RecvFulfillHtlc, RecvFailHtlc, RecvFailMalformedHtlc, UpdateType
  <2>7. CASE RecvCommitmentSigned(r)
    <3>1. Head(net[r]).tx = create_to_local(self[r], self[r].commit_local.commit_num + 1)
      BY <2>7 DEF RecvCommitmentSigned, SignatureAgrees, Commit
    <3> QED BY <2>1, <2>7, <3>1 DEF RecvCommitmentSigned, Environment
  <2>8. CASE RecvRevokeAndAck(r)
    BY <2>1, <2>8 DEF RecvRevokeAndAck, Environment
  <2>9. CASE RecvAddHtlc(r)
    <3>1. /\ FailChannel(r) /\ Receiving(r, "update_add_htlc")
          /\ \/ ~check_recv_add_htlc_bolt2(r, Head(net[r]))
             \/ \A i \in Slot : ~FreeSlot(self[r], i)
      BY <2>1, <2>9 DEF RecvAddHtlc, Environment
    <3> QED BY <2>3, <3>1 DEF FailChannel
  <2>10. CASE RecvShutdown(r)
    <3>1. FailChannel(r) /\ Receiving(r, "shutdown")
      BY <2>1, <2>10 DEF RecvShutdown, Environment
    <3> QED BY <2>3, <3>1 DEF FailChannel
  <2>11. CASE RecvClosingSigned(r)
    <3>1. (FailChannel(r) \/ Stop(r, "aborted")) /\ Receiving(r, "closing_signed")
      BY <2>1, <2>11 DEF RecvClosingSigned, Environment
    <3> QED BY <2>3, <3>1 DEF FailChannel
  <2>12. CASE Offer(r) \/ OtherChannel(r) \/ Idle(r) \/ CloseRpc(r)
    BY <2>1, <2>12 DEF Offer, Pay, FwdAdd, OtherChannel, FwdStart, FulfillBackwind,
       FailBackwind, Idle, IdleFinal, IdleNonfinal, CloseRpc, Environment
  <2> QED BY <2>2, <2>4, <2>6, <2>7, <2>8, <2>9, <2>10, <2>11, <2>12 DEF Receive
<1> QED BY <1>1, TypeCorrect, SignaturesAgree, DeletionsApply, PTL DEF Spec, StopReasons
=============================================================================
