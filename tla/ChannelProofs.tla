--------------------------- MODULE ChannelProofs ---------------------------
(***************************************************************************)
(* Theorems about Channel, and about Reconnect, for every value of their   *)
(* constants.                                                              *)
(*                                                                         *)
(* Part 1: the states of the channel are well typed.  Part 2: the two ends *)
(* agree on the commitment numbers, and Channel implements CommitLockstep. *)
(* Part 3: the channel can always be closed safely.  Part 4: the databases *)
(* of the ends fit wherever the first connection breaks.                   *)
(***************************************************************************)
EXTENDS Reconnect, FiniteSetTheorems, SequenceTheorems, TLAPS

----------------------------------------------------------------------------
(* Part 1.  The operators of LnSelf preserve the type of a channel state.  *)

\* Slots are a finite set of numbers (cnl_add_htlc[LN_HTLC_MAX]).
LEMMA SlotFinite == Slot \subseteq Nat /\ IsFiniteSet(Slot)
BY FS_Interval, HtlcMaxAssumption DEF Slot

\* The HTLCs in some of the slots are finitely many references.
LEMMA RefsType ==
    ASSUME NEW s \in SelfType, NEW S \in SUBSET Slot
    PROVE  /\ {Ref(s.cnl_add_htlc[i]) : i \in S} \in SUBSET RefType
           /\ IsFiniteSet({Ref(s.cnl_add_htlc[i]) : i \in S})
<1> DEFINE T == {Ref(s.cnl_add_htlc[i]) : i \in S}
           f == [i \in S |-> Ref(s.cnl_add_htlc[i])]
<1>1. T \in SUBSET RefType
  BY DEF SelfType, HtlcType, RefType, Ref
<1>2. f \in Surjection(S, T)
  BY DEF Surjection
<1>3. IsFiniteSet(S)
  BY SlotFinite, FS_Subset
<1>4. IsFiniteSet(T)
  BY <1>2, <1>3, FS_Surjection
<1> QED BY <1>1, <1>4

\* Both commitment transactions are well formed and have countably many HTLCs.
LEMMA CreateToLocalType ==
    ASSUME NEW s \in SelfType, NEW n \in Nat
    PROVE  /\ create_to_local(s, n) \in CommitTxType
           /\ HtlcNum(create_to_local(s, n)) \in Nat
<1> DEFINE h(i) == s.cnl_add_htlc[i]
           A == {j \in Slot : LN_HTLC_ENABLE(h(j)) /\ LN_HTLC_ENABLE_LOCAL_ADDHTLC_OFFER(h(j))}
           B == {j \in Slot : LN_HTLC_ENABLE(h(j)) /\ LN_HTLC_ENABLE_LOCAL_ADDHTLC_RECV(h(j))}
           C == {j \in Slot : LN_HTLC_ENABLE(h(j)) /\ LN_HTLC_ENABLE_LOCAL_FULFILL_OFFER(h(j))}
           D == {j \in Slot : LN_HTLC_ENABLE(h(j)) /\ LN_HTLC_ENABLE_LOCAL_FULFILL_RECV(h(j))}
           R(S) == {Ref(s.cnl_add_htlc[i]) : i \in S}
<1>1. create_to_local(s, n) =
        [num |-> n, offered |-> R(A), received |-> R(B),
         paid_out |-> s.paid_out \cup R(C), paid_in |-> s.paid_in \cup R(D)]
  BY DEF create_to_local, Refs
<1>2. \A S \in SUBSET Slot : R(S) \in SUBSET RefType /\ IsFiniteSet(R(S))
  BY RefsType
<1>3. A \in SUBSET Slot /\ B \in SUBSET Slot /\ C \in SUBSET Slot /\ D \in SUBSET Slot
  OBVIOUS
<1> HIDE DEF A, B, C, D, R
<1>4. s.paid_out \in SUBSET RefType /\ s.paid_in \in SUBSET RefType
  BY DEF SelfType
<1>5. Cardinality(R(A)) \in Nat /\ Cardinality(R(B)) \in Nat
  BY <1>2, <1>3, FS_CardinalityType
<1> QED BY <1>1, <1>2, <1>3, <1>4, <1>5 DEF CommitTxType, HtlcNum

\* The same for the peer's commitment transaction.
LEMMA CreateToRemoteType ==
    ASSUME NEW s \in SelfType, NEW n \in Nat
    PROVE  /\ create_to_remote(s, n) \in CommitTxType
           /\ HtlcNum(create_to_remote(s, n)) \in Nat
<1> DEFINE h(i) == s.cnl_add_htlc[i]
           A == {j \in Slot : LN_HTLC_ENABLE(h(j)) /\ LN_HTLC_ENABLE_REMOTE_ADDHTLC_RECV(h(j))}
           B == {j \in Slot : LN_HTLC_ENABLE(h(j)) /\ LN_HTLC_ENABLE_REMOTE_ADDHTLC_OFFER(h(j))}
           C == {j \in Slot : LN_HTLC_ENABLE(h(j)) /\ LN_HTLC_ENABLE_REMOTE_FULFILL_RECV(h(j))}
           D == {j \in Slot : LN_HTLC_ENABLE(h(j)) /\ LN_HTLC_ENABLE_REMOTE_FULFILL_OFFER(h(j))}
           R(S) == {Ref(s.cnl_add_htlc[i]) : i \in S}
<1>1. create_to_remote(s, n) =
        [num |-> n, offered |-> R(A), received |-> R(B),
         paid_out |-> s.paid_in \cup R(C), paid_in |-> s.paid_out \cup R(D)]
  BY DEF create_to_remote, Refs
<1>2. \A S \in SUBSET Slot : R(S) \in SUBSET RefType /\ IsFiniteSet(R(S))
  BY RefsType
<1>3. A \in SUBSET Slot /\ B \in SUBSET Slot /\ C \in SUBSET Slot /\ D \in SUBSET Slot
  OBVIOUS
<1> HIDE DEF A, B, C, D, R
<1>4. s.paid_out \in SUBSET RefType /\ s.paid_in \in SUBSET RefType
  BY DEF SelfType
<1>5. Cardinality(R(A)) \in Nat /\ Cardinality(R(B)) \in Nat
  BY <1>2, <1>3, FS_CardinalityType
<1> QED BY <1>1, <1>2, <1>3, <1>4, <1>5 DEF CommitTxType, HtlcNum

\* Starting the deletion of an HTLC keeps its type.
LEMMA ClearFlagType ==
    ASSUME NEW h \in HtlcType, NEW del \in DelHtlc
    PROVE  clear_htlc_comrevflag(h, del) \in HtlcType
BY DEF clear_htlc_comrevflag, HtlcType

\* Replacing the slots of a channel state by well-formed slots keeps its type.
LEMMA SlotsType ==
    ASSUME NEW s \in SelfType, NEW f \in [Slot -> HtlcType]
    PROVE  [s EXCEPT !.cnl_add_htlc = f] \in SelfType
BY DEF SelfType

\* The same when the numbers of our commitment are updated too.
LEMMA LocalNumbersType ==
    ASSUME NEW s \in SelfType, NEW f \in [Slot -> HtlcType],
           NEW l \in CommitLocalType
    PROVE  [s EXCEPT !.cnl_add_htlc = f, !.commit_local = l] \in SelfType
BY DEF SelfType

\* The same for the numbers of the peer's commitment.
LEMMA RemoteNumbersType ==
    ASSUME NEW s \in SelfType, NEW f \in [Slot -> HtlcType],
           NEW r \in CommitRemoteType
    PROVE  [s EXCEPT !.cnl_add_htlc = f, !.commit_remote = r] \in SelfType
BY DEF SelfType

\* The same with a secret of the peer stored.
LEMMA SecretType ==
    ASSUME NEW s \in SelfType, NEW f \in [Slot -> HtlcType],
           NEW n \in SUBSET Nat, NEW r \in CommitRemoteType
    PROVE  [s EXCEPT !.cnl_add_htlc = f, !.peer_storage = n, !.commit_remote = r]
             \in SelfType
BY DEF SelfType

\* Replacing one slot of a channel state by a well-formed one keeps its type.
LEMMA SlotType ==
    ASSUME NEW s \in SelfType, NEW i \in Slot, NEW h \in HtlcType
    PROVE  [s EXCEPT !.cnl_add_htlc[i] = h] \in SelfType
BY DEF SelfType

\* Every slot of a channel state holds a well-formed HTLC.
LEMMA SlotHolds ==
    ASSUME NEW s \in SelfType, NEW i \in Slot
    PROVE  s.cnl_add_htlc[i] \in HtlcType
BY DEF SelfType

\* Giving an HTLC its direction or one of its flags keeps its type.
LEMMA FlagType ==
    ASSUME NEW h \in HtlcType
    PROVE  /\ [h EXCEPT !.addhtlc = "OFFER"] \in HtlcType
           /\ [h EXCEPT !.delhtlc = "FAIL"] \in HtlcType
           /\ [h EXCEPT !.updsend = TRUE] \in HtlcType
           /\ [h EXCEPT !.comsend = TRUE] \in HtlcType
           /\ [h EXCEPT !.revrecv = TRUE] \in HtlcType
           /\ [h EXCEPT !.comrecv = TRUE, !.revsend = TRUE] \in HtlcType
BY DEF HtlcType, AddHtlc, DelHtlc

\* Offering an HTLC, for a payment of this node or for another channel.
LEMMA OfferType ==
    ASSUME NEW s \in SelfType, NEW i \in Slot, NEW amt \in Nat
    PROVE  /\ ln_add_htlc_set(s, i, amt) \in SelfType
           /\ ln_add_htlc_set_fwd(s, i, amt) \in SelfType
           /\ ln_add_htlc_start_fwd(s, i) \in SelfType
<1>1. \A t \in SelfType : ln_add_htlc_start_fwd(t, i) \in SelfType
  <2> TAKE t \in SelfType
  <2>1. [t.cnl_add_htlc[i] EXCEPT !.addhtlc = "OFFER"] \in HtlcType
    BY SlotHolds, FlagType
  <2> QED BY <2>1, SlotType DEF ln_add_htlc_start_fwd
<1>2. set_add_htlc(s, i, amt) \in SelfType
  <2> DEFINE h == [s.cnl_add_htlc[i] EXCEPT !.id = s.htlc_id_num, !.amount_msat = amt]
  <2>1. s.htlc_id_num \in Nat
    BY DEF SelfType
  <2>2. h \in HtlcType
    BY <2>1, SlotHolds DEF HtlcType
  <2>3. set_add_htlc(s, i, amt) =
          [s EXCEPT !.cnl_add_htlc[i] = h, !.htlc_id_num = s.htlc_id_num + 1]
    BY DEF set_add_htlc
  <2>4. \A g \in HtlcType, n \in Nat :
          [s EXCEPT !.cnl_add_htlc[i] = g, !.htlc_id_num = n] \in SelfType
    BY DEF SelfType
  <2>5. s.htlc_id_num + 1 \in Nat
    BY <2>1
  <2> HIDE DEF h
  <2> QED BY <2>2, <2>3, <2>4, <2>5
<1> QED BY <1>1, <1>2 DEF ln_add_htlc_set, ln_add_htlc_set_fwd, ln_add_htlc_start_fwd

\* Accepting an update_add_htlc, whatever is to happen to it.
LEMMA AcceptType ==
    ASSUME NEW s \in SelfType, NEW i \in Slot, NEW fate \in Fate,
           NEW m, m.id \in Nat, m.amount_msat \in Nat
    PROVE  AcceptAddHtlc(s, i, m, fate) \in SelfType
<1> DEFINE h == s.cnl_add_htlc[i]
<1>1. h \in HtlcType
  BY SlotHolds
<1> HIDE DEF h
<1>2. AcceptedHtlc(h, m, fate) \in HtlcType
  <2>1. CASE fate = "FORWARD"
    BY <1>1, <2>1 DEF AcceptedHtlc, HtlcType, AddHtlc, DelHtlc
  <2>2. CASE fate = "NEXT_SHUTDOWN"
    BY <1>1, <2>2 DEF AcceptedHtlc, HtlcType, AddHtlc, DelHtlc
  <2>3. CASE fate \in {"FULFILL", "FAIL", "MALFORMED"}
    <3>1. AcceptedHtlc(h, m, fate) =
            [h EXCEPT !.id = m.id, !.amount_msat = m.amount_msat, !.addhtlc = "RECV",
                      !.delhtlc = h.delhtlc, !.fin_delhtlc = fate, !.next = FALSE]
      BY <2>3 DEF AcceptedHtlc
    <3>2. fate \in DelHtlc
      BY <2>3 DEF DelHtlc
    <3> QED BY <1>1, <3>1, <3>2 DEF HtlcType, AddHtlc
  <2> QED BY <2>1, <2>2, <2>3 DEF Fate
<1> QED BY <1>2, SlotType DEF AcceptAddHtlc, h

\* Deleting an HTLC, at the receiver or at the offerer.
LEMMA DeleteType ==
    ASSUME NEW s \in SelfType, NEW i \in Slot, NEW id, NEW del \in DelHtlc
    PROVE  /\ ln_fulfill_htlc_set(s, i) \in SelfType
           /\ ln_fail_htlc_set(s, i) \in SelfType
           /\ DelOffered(s, id, del) \in SelfType
<1>1. \A j \in Slot, d \in DelHtlc :
        clear_htlc_comrevflag(s.cnl_add_htlc[j], d) \in HtlcType
  BY SlotHolds, ClearFlagType
<1>2. \A d \in DelHtlc : DelHtlcIn(s, i, d) \in SelfType
  BY <1>1, SlotType DEF DelHtlcIn
<1>3. ln_fulfill_htlc_set(s, i) \in SelfType
  BY <1>2 DEF ln_fulfill_htlc_set, DelHtlc
<1>4. ln_fail_htlc_set(s, i) \in SelfType
  <2> DEFINE t == DelHtlcIn(s, i, "FAIL")
  <2>1. t \in SelfType
    BY <1>2 DEF DelHtlc
  <2>2. ln_fail_htlc_set(s, i) =
          [t EXCEPT !.cnl_add_htlc[i] = [t.cnl_add_htlc[i] EXCEPT !.delhtlc = "FAIL"]]
    BY DEF ln_fail_htlc_set
  <2> HIDE DEF t
  <2>3. [t.cnl_add_htlc[i] EXCEPT !.delhtlc = "FAIL"] \in HtlcType
    BY <2>1, SlotHolds, FlagType
  <2> QED BY <2>1, <2>2, <2>3, SlotType
<1>5. DelOffered(s, id, del) \in SelfType
  <2> DEFINE f == [j \in Slot |-> IF OfferedSlot(s, id, j)
                        THEN clear_htlc_comrevflag(s.cnl_add_htlc[j], del)
                        ELSE s.cnl_add_htlc[j]]
  <2>1. f \in [Slot -> HtlcType]
    BY <1>1, SlotHolds
  <2>2. DelOffered(s, id, del) = [s EXCEPT !.cnl_add_htlc = f]
    BY DEF DelOffered
  <2> HIDE DEF f
  <2> QED BY <2>1, <2>2, SlotsType
<1> QED BY <1>3, <1>4, <1>5

\* Sending the update messages sets flags only.
LEMMA UpdatesType ==
    ASSUME NEW s \in SelfType
    PROVE  AfterUpdates(s) \in SelfType
<1> DEFINE f == [i \in Slot |-> IF i \in WillUpdate(s)
                                THEN [s.cnl_add_htlc[i] EXCEPT !.updsend = TRUE]
                                ELSE s.cnl_add_htlc[i]]
<1>1. f \in [Slot -> HtlcType]
  BY SlotHolds, FlagType
<1>2. AfterUpdates(s) = [s EXCEPT !.cnl_add_htlc = f]
  BY DEF AfterUpdates
<1> HIDE DEF f
<1> QED BY <1>1, <1>2, SlotsType

\* Sending a commitment_signed advances the number of the peer's commitment.
LEMMA SendCommitmentType ==
    ASSUME NEW s \in SelfType, NEW tx, HtlcNum(tx) \in Nat
    PROVE  AfterSendCommitmentSigned(s, tx) \in SelfType
<1> DEFINE f == [i \in Slot |-> IF InRemoteExchange(s.cnl_add_htlc[i])
                                THEN [s.cnl_add_htlc[i] EXCEPT !.comsend = TRUE]
                                ELSE s.cnl_add_htlc[i]]
           num == s.commit_remote.commit_num
           n == HtlcNum(tx)
           r == [s.commit_remote EXCEPT !.commit_num = num + 1, !.htlc_num = n]
<1>1. f \in [Slot -> HtlcType]
  BY SlotHolds, FlagType
<1>2. s.commit_remote \in CommitRemoteType /\ num \in Nat
  BY DEF SelfType, CommitRemoteType
<1>3. AfterSendCommitmentSigned(s, tx) =
        [s EXCEPT !.cnl_add_htlc = f, !.commit_remote = r]
  BY DEF AfterSendCommitmentSigned
<1>4. r \in CommitRemoteType
  <2>1. \A c \in CommitRemoteType, j, k \in Nat :
          [c EXCEPT !.commit_num = j, !.htlc_num = k] \in CommitRemoteType
    BY DEF CommitRemoteType
  <2>2. n \in Nat /\ num + 1 \in Nat
    BY <1>2
  <2> HIDE DEF num, n
  <2> QED BY <1>2, <2>1, <2>2
<1> HIDE DEF f, r
<1>5. [s EXCEPT !.cnl_add_htlc = f, !.commit_remote = r] \in SelfType
  BY <1>1, <1>4, RemoteNumbersType
<1> QED BY <1>3, <1>5

\* Receiving a commitment_signed advances the number of our commitment.
LEMMA RecvCommitmentType ==
    ASSUME NEW s \in SelfType, NEW tx \in CommitTxType, HtlcNum(tx) \in Nat
    PROVE  AfterCommitmentSigned(s, tx) \in SelfType
<1> DEFINE f == [i \in Slot |-> IF InLocalExchange(s.cnl_add_htlc[i])
                  THEN [s.cnl_add_htlc[i] EXCEPT !.comrecv = TRUE, !.revsend = TRUE]
                  ELSE s.cnl_add_htlc[i]]
           l == [ commit_num |-> s.commit_local.commit_num + 1,
                  revoke_num |-> s.commit_local.commit_num,
                  htlc_num |-> HtlcNum(tx), signature |-> tx ]
<1>1. f \in [Slot -> HtlcType]
  BY SlotHolds, FlagType
<1>2. s.commit_local.commit_num \in Nat
  BY DEF SelfType, CommitLocalType
<1>3. l \in CommitLocalType
  BY <1>2 DEF CommitLocalType
<1>4. AfterCommitmentSigned(s, tx) =
        [s EXCEPT !.cnl_add_htlc = f, !.commit_local = l]
  BY DEF AfterCommitmentSigned
<1> HIDE DEF f, l
<1>5. [s EXCEPT !.cnl_add_htlc = f, !.commit_local = l] \in SelfType
  BY <1>1, <1>3, LocalNumbersType
<1> QED BY <1>4, <1>5

\* Receiving a revoke_and_ack stores the secret.
LEMMA RecvRevokeType ==
    ASSUME NEW s \in SelfType, NEW num \in Nat
    PROVE  AfterRevokeAndAck(s, num) \in SelfType
<1> DEFINE f == [i \in Slot |-> IF InRemoteExchange(s.cnl_add_htlc[i])
                                THEN [s.cnl_add_htlc[i] EXCEPT !.revrecv = TRUE]
                                ELSE s.cnl_add_htlc[i]]
           n == s.peer_storage \cup {num}
           c == s.commit_remote.commit_num
           r == [s.commit_remote EXCEPT !.revoke_num = c - 1]
<1>1. f \in [Slot -> HtlcType]
  BY SlotHolds, FlagType
<1>2. n \in SUBSET Nat
  BY DEF SelfType
<1>3. s.commit_remote \in CommitRemoteType /\ c \in Nat
  BY DEF SelfType, CommitRemoteType
<1>4. AfterRevokeAndAck(s, num) =
        [s EXCEPT !.cnl_add_htlc = f, !.peer_storage = n, !.commit_remote = r]
  BY DEF AfterRevokeAndAck
<1>5. r \in CommitRemoteType
  <2> HIDE DEF c
  <2> QED BY <1>3 DEF CommitRemoteType
<1> HIDE DEF f, n, r
<1>6. [s EXCEPT !.cnl_add_htlc = f, !.peer_storage = n, !.commit_remote = r]
        \in SelfType
  BY <1>1, <1>2, <1>5, SecretType
<1> QED BY <1>4, <1>6

\* The end of an exchange: HTLCs are removed, paid, or start their deletion.
LEMMA FinalType ==
    ASSUME NEW s \in SelfType
    PROVE  AfterFinal(s) \in SelfType
<1> DEFINE f == [i \in Slot |->
                   CASE i \in Removable(s) -> clear_htlc(s.cnl_add_htlc[i])
                     [] i \in Startable(s) -> StartHtlc(s.cnl_add_htlc[i])
                     [] OTHER -> s.cnl_add_htlc[i]]
<1>1. \A i \in Slot : s.cnl_add_htlc[i] \in HtlcType
  BY DEF SelfType
<1>2. \A h \in HtlcType : StartHtlc(h) \in HtlcType
  <2> TAKE h \in HtlcType
  <2>1. [h EXCEPT !.next = FALSE] \in HtlcType /\ h.fin_delhtlc \in DelHtlc
    BY DEF HtlcType
  <2> QED BY <2>1, ClearFlagType DEF StartHtlc
<1>3. \A h : clear_htlc(h) \in HtlcType
  BY DEF clear_htlc, EmptyHtlc, HtlcType, AddHtlc, DelHtlc
<1>4. f \in [Slot -> HtlcType]
  BY <1>1, <1>2, <1>3
<1>5. \A add : FulfilledRefs(s, add) \in SUBSET RefType
  <2> TAKE add
  <2>1. {j \in Removable(s) : /\ s.cnl_add_htlc[j].addhtlc = add
                              /\ s.cnl_add_htlc[j].delhtlc = "FULFILL"} \in SUBSET Slot
    BY DEF Removable, Enabled
  <2> QED BY <2>1, RefsType DEF FulfilledRefs
<1> HIDE DEF f
<1>6. AfterFinal(s) =
        [s EXCEPT !.cnl_add_htlc = f,
                  !.paid_out = s.paid_out \cup FulfilledRefs(s, "OFFER"),
                  !.paid_in = s.paid_in \cup FulfilledRefs(s, "RECV")]
  BY DEF AfterFinal, f
<1>7. \A o, n \in SUBSET RefType :
        [s EXCEPT !.cnl_add_htlc = f, !.paid_out = o, !.paid_in = n] \in SelfType
  BY <1>4 DEF SelfType
<1>8. /\ s.paid_out \cup FulfilledRefs(s, "OFFER") \in SUBSET RefType
      /\ s.paid_in \cup FulfilledRefs(s, "RECV") \in SUBSET RefType
  BY <1>5 DEF SelfType
<1> QED BY <1>6, <1>7, <1>8

\* Saving, closing and the initial state.
LEMMA CloseType ==
    ASSUME NEW s \in SelfType
    PROVE  /\ ln_db_self_save(s) \in SelfType
           /\ SendShutdown(s) \in SelfType
           /\ \A fee \in Nat : PeerClosingTx(s, fee) \in ClosingTxType
BY ParameterAssumption DEF ln_db_self_save, SendShutdown, PeerClosingTx, SelfType, ClosingTxType

\* The state of a channel that has just been opened.
LEMMA InitSelfType == InitSelf \in SelfType
BY DEF InitSelf, SelfType, EmptyHtlc, HtlcType, AddHtlc, DelHtlc, CommitTxType, Status,
       CommitLocalType, CommitRemoteType

----------------------------------------------------------------------------
(* Type correctness.                                                       *)

\* A channel has two ends.
LEMMA PeerFacts ==
    ASSUME NEW p \in Peer
    PROVE  Other(p) \in Peer /\ Other(p) # p /\ Other(Other(p)) = p
BY PeerAssumption DEF Peer, Other

\* Sending and reading keep the streams well formed.
LEMMA StreamType ==
    ASSUME NEW streams \in [Peer -> Seq(Message)], NEW p \in Peer
    PROVE  /\ \A ms \in Seq(Message) :
                 Sent(streams, p, ms) \in [Peer -> Seq(Message)]
           /\ streams[p] # <<>> => Read(streams, p) \in [Peer -> Seq(Message)]
           /\ streams[p] # <<>> => Head(streams[p]) \in Message
<1>1. \A ms \in Seq(Message) : Sent(streams, p, ms) \in [Peer -> Seq(Message)]
  <2> TAKE ms \in Seq(Message)
  <2>1. streams[Other(p)] \o ms \in Seq(Message)
    BY PeerFacts
  <2> QED BY <2>1, PeerFacts DEF Sent
<1>2. streams[p] # <<>> => Tail(streams[p]) \in Seq(Message)
  OBVIOUS
<1>3. streams[p] # <<>> => Head(streams[p]) \in Message
  OBVIOUS
<1> QED BY <1>1, <1>2, <1>3 DEF Read

\* What a message of each type carries.
LEMMA MessageFields ==
    ASSUME NEW m \in Message
    PROVE  /\ m.type = "update_add_htlc" => m.id \in Nat /\ m.amount_msat \in Nat
           /\ m.type = "commitment_signed" => m.tx \in CommitTxType
           /\ m.type = "revoke_and_ack" => m.num \in Nat
           /\ m.type = "closing_signed" => m.tx \in ClosingTxType
BY DEF Message, UpdateType

\* Every message the handlers build is well formed.
LEMMA MessageBuilt ==
    /\ [type |-> "shutdown"] \in Message
    /\ \A n \in Nat : [type |-> "revoke_and_ack", num |-> n] \in Message
    /\ \A tx \in CommitTxType : [type |-> "commitment_signed", tx |-> tx] \in Message
    /\ \A tx \in ClosingTxType : [type |-> "closing_signed", tx |-> tx] \in Message
BY DEF Message

\* The update messages of recv_idle_proc_nonfinal.
LEMMA UpdateMsgsType ==
    ASSUME NEW s \in SelfType, NEW n \in Nat,
           NEW order \in [1 .. n -> WillUpdate(s)]
    PROVE  UpdateMsgs(s, order) \in Seq(Message)
<1>1. \A h \in HtlcType : UpdateMsg(h) \in Message
  BY DEF HtlcType, UpdateMsg, Message, UpdateType
<1>2. \A k \in 1 .. n : s.cnl_add_htlc[order[k]] \in HtlcType
  BY SlotHolds DEF WillUpdate, Enabled
<1>3. UpdateMsgs(s, order) \in [1 .. n -> Message]
  BY <1>1, <1>2 DEF UpdateMsgs
<1> QED BY <1>3

\* A transaction that is broadcast when a channel is closed unilaterally.
LEMMA UnilateralType ==
    ASSUME TypeOK, NEW p \in Peer, NEW s \in SelfType
    PROVE  UnilateralClose(p, s) \in [Peer -> SUBSET BroadcastType]
<1>1. s.commit_local.commit_num \in Nat
  BY DEF SelfType, CommitLocalType
<1>2. [type |-> "commit", num |-> s.commit_local.commit_num] \in BroadcastType
  BY <1>1 DEF BroadcastType
<1> QED BY <1>2 DEF UnilateralClose, TypeOK

\* A handler that fails leaves a well-formed state.
LEMMA FailType ==
    ASSUME TypeOK, NEW p \in Peer, FailChannel(p)
    PROVE  TypeOK'
<1>1. UnilateralClose(p, db[p]) \in [Peer -> SUBSET BroadcastType]
  BY UnilateralType DEF TypeOK
<1>2. <<>> \in Seq(Message) /\ "stopped" \in Thread
  BY DEF Thread
<1> QED BY <1>1, <1>2 DEF FailChannel, Stop, TypeOK

\* An action that saves a well-formed channel state.
LEMMA SaveType ==
    ASSUME TypeOK, NEW p \in Peer, NEW s \in SelfType,
           self' = [self EXCEPT ![p] = s],
           db' = db \/ db' = [db EXCEPT ![p] = ln_db_self_save(s)]
    PROVE  self' \in [Peer -> SelfType] /\ db' \in [Peer -> SelfType]
BY CloseType DEF TypeOK

\* Offering and forwarding keep the state well formed.
LEMMA OfferStepType ==
    ASSUME TypeOK, NEW p \in Peer, Offer(p) \/ OtherChannel(p)
    PROVE  TypeOK'
<1>1. self[p] \in SelfType
  BY DEF TypeOK
<1>2. ASSUME NEW amt \in Amounts, Pay(p, amt) \/ FwdAdd(p, amt)
      PROVE  TypeOK'
  <2>1. amt \in Nat
    BY ParameterAssumption
  <2>2. PICK i \in Slot : \/ Keep(p, ln_add_htlc_set(self[p], i, amt))
                          \/ Keep(p, ln_add_htlc_set_fwd(self[p], i, amt))
    BY <1>2 DEF Pay, FwdAdd
  <2>3. self' \in [Peer -> SelfType]
    <3>1. /\ ln_add_htlc_set(self[p], i, amt) \in SelfType
          /\ ln_add_htlc_set_fwd(self[p], i, amt) \in SelfType
      BY <1>1, <2>1, OfferType
    <3> QED BY <2>2, <3>1 DEF Keep, TypeOK
  <2> QED BY <1>2, <2>3 DEF Pay, FwdAdd, Environment, TypeOK
<1>3. ASSUME NEW i \in Slot, FwdStart(p, i)
      PROVE  TypeOK'
  <2>1. ln_add_htlc_start_fwd(self[p], i) \in SelfType
    BY <1>1, OfferType, 0 \in Nat
  <2> QED BY <1>3, <2>1 DEF FwdStart, Keep, Environment, TypeOK
<1>4. ASSUME NEW i \in Slot, FulfillBackwind(p, i)
      PROVE  TypeOK'
  <2>1. ln_fulfill_htlc_set(self[p], i) \in SelfType
    BY <1>1, DeleteType, "FAIL" \in DelHtlc DEF DelHtlc
  <2>2. self' \in [Peer -> SelfType] /\ db' \in [Peer -> SelfType]
    BY <1>4, <2>1, SaveType DEF FulfillBackwind, Save
  <2> QED BY <1>4, <2>2 DEF FulfillBackwind, Environment, TypeOK
<1>5. ASSUME NEW i \in Slot, FailBackwind(p, i)
      PROVE  TypeOK'
  <2>1. ln_fail_htlc_set(self[p], i) \in SelfType
    BY <1>1, DeleteType, "FAIL" \in DelHtlc DEF DelHtlc
  <2> QED BY <1>5, <2>1 DEF FailBackwind, Keep, Environment, TypeOK
<1> QED BY <1>2, <1>3, <1>4, <1>5 DEF Offer, OtherChannel

\* The slots an idle pass sends updates for are counted by a number.
LEMMA WillUpdateFinite ==
    ASSUME NEW s
    PROVE  Cardinality(WillUpdate(s)) \in Nat
<1>1. IsFiniteSet(WillUpdate(s))
  BY SlotFinite, FS_Subset DEF WillUpdate, Enabled
<1> QED BY <1>1, FS_CardinalityType

\* The idle procedure keeps the state well formed.
LEMMA IdleStepType ==
    ASSUME TypeOK, NEW p \in Peer, Idle(p)
    PROVE  TypeOK'
<1> DEFINE s == self[p]
<1>1. s \in SelfType /\ net \in [Peer -> Seq(Message)]
  BY DEF TypeOK
<1>2. CASE IdleFinal(p)
  <2>1. AfterFinal(s) \in SelfType
    BY <1>1, FinalType
  <2>2. self' \in [Peer -> SelfType] /\ db' \in [Peer -> SelfType]
    BY <1>2, <2>1, SaveType DEF IdleFinal, Save
  <2> QED BY <1>2, <2>2 DEF IdleFinal, Environment, TypeOK
<1>3. CASE IdleNonfinal(p)
  <2> DEFINE upd == AfterUpdates(s)
             tx == create_to_remote(upd, s.commit_remote.commit_num + 1)
             n == Cardinality(WillUpdate(s))
  <2>1. s.commit_remote.commit_num + 1 \in Nat
    BY <1>1 DEF SelfType, CommitRemoteType
  <2>2. upd \in SelfType
    BY <1>1, UpdatesType
  <2>3. tx \in CommitTxType /\ HtlcNum(tx) \in Nat
    BY <2>1, <2>2, CreateToRemoteType
  <2>4. AfterSendCommitmentSigned(upd, tx) \in SelfType
    BY <2>2, <2>3, SendCommitmentType
  <2>5. n \in Nat
    BY WillUpdateFinite
  <2>6. PICK order \in [1 .. n -> WillUpdate(s)] :
          \/ /\ Save(p, AfterSendCommitmentSigned(upd, tx))
             /\ net' = Sent(net, p, UpdateMsgs(s, order) \o
                                <<[type |-> "commitment_signed", tx |-> tx]>>)
          \/ /\ Keep(p, upd) /\ net' = Sent(net, p, UpdateMsgs(s, order))
             /\ UNCHANGED db
    BY <1>3 DEF IdleNonfinal
  <2>7. UNCHANGED Environment
    BY <1>3 DEF IdleNonfinal
  <2>8. UpdateMsgs(s, order) \in Seq(Message)
    BY <1>1, <2>5, UpdateMsgsType
  <2>9. [type |-> "commitment_signed", tx |-> tx] \in Message
    BY <2>3, MessageBuilt
  <2> HIDE DEF upd, tx, n
  <2>10. UpdateMsgs(s, order) \o <<[type |-> "commitment_signed", tx |-> tx]>>
           \in Seq(Message)
    BY <2>8, <2>9
  <2>11. net' \in [Peer -> Seq(Message)]
    <3>1. \A ms \in Seq(Message) : Sent(net, p, ms) \in [Peer -> Seq(Message)]
      BY <1>1, StreamType
    <3> HIDE DEF s
    <3>2. /\ Sent(net, p, UpdateMsgs(s, order)) \in [Peer -> Seq(Message)]
          /\ Sent(net, p, UpdateMsgs(s, order) \o
                         <<[type |-> "commitment_signed", tx |-> tx]>>)
               \in [Peer -> Seq(Message)]
      BY <2>8, <2>10, <3>1
    <3> QED BY <2>6, <3>2
  <2>12. self' \in [Peer -> SelfType] /\ db' \in [Peer -> SelfType]
    BY <2>2, <2>4, <2>6, SaveType DEF Save, Keep
  <2> QED BY <2>7, <2>11, <2>12 DEF Environment, TypeOK
<1> QED BY <1>2, <1>3 DEF Idle

\* The handlers of update messages keep the state well formed.
LEMMA UpdateStepType ==
    ASSUME TypeOK, NEW p \in Peer,
           \/ RecvAddHtlc(p) \/ RecvFulfillHtlc(p)
           \/ RecvFailHtlc(p) \/ RecvFailMalformedHtlc(p)
    PROVE  TypeOK'
<1>1. self[p] \in SelfType /\ net \in [Peer -> Seq(Message)]
  BY DEF TypeOK
<1>2. CASE RecvAddHtlc(p)
  <2>1. Head(net[p]) \in Message /\ Read(net, p) \in [Peer -> Seq(Message)]
    BY <1>1, <1>2, StreamType DEF RecvAddHtlc, Receiving
  <2>2. Head(net[p]).id \in Nat /\ Head(net[p]).amount_msat \in Nat
    BY <1>2, <2>1, MessageFields DEF RecvAddHtlc, Receiving
  <2>3. CASE FailChannel(p)
    BY <2>3, FailType
  <2>4. CASE ~FailChannel(p)
    <3>1. PICK i \in Slot, fate \in Fates :
            Keep(p, AcceptAddHtlc(self[p], i, Head(net[p]), fate))
      BY <1>2, <2>4 DEF RecvAddHtlc
    <3>2. net' = Read(net, p) /\ UNCHANGED <<db, Environment>>
      BY <1>2, <2>4 DEF RecvAddHtlc
    <3>3. fate \in Fate
      BY ParameterAssumption
    <3>4. AcceptAddHtlc(self[p], i, Head(net[p]), fate) \in SelfType
      BY <1>1, <2>2, <3>3, AcceptType
    <3> QED BY <2>1, <3>1, <3>2, <3>4 DEF Keep, Environment, TypeOK
  <2> QED BY <2>3, <2>4
<1>3. ASSUME NEW type, NEW del \in DelHtlc, RecvDelHtlc(p, type, del)
      PROVE  TypeOK'
  <2>1. CASE FailChannel(p)
    BY <2>1, FailType
  <2>2. CASE ~FailChannel(p)
    <3>1. /\ Keep(p, DelOffered(self[p], Head(net[p]).id, del))
          /\ net' = Read(net, p) /\ UNCHANGED <<db, Environment>>
      BY <1>3, <2>2 DEF RecvDelHtlc
    <3>2. PICK i : i \in Slot
      BY HtlcMaxAssumption, 0 \in Slot DEF Slot
    <3>3. DelOffered(self[p], Head(net[p]).id, del) \in SelfType
      BY <1>1, <3>2, DeleteType
    <3>4. Read(net, p) \in [Peer -> Seq(Message)]
      BY <1>1, <1>3, StreamType DEF RecvDelHtlc, Receiving
    <3> QED BY <3>1, <3>3, <3>4 DEF Keep, Environment, TypeOK
  <2> QED BY <2>1, <2>2
<1> QED BY <1>2, <1>3
        DEF RecvFulfillHtlc, RecvFailHtlc, RecvFailMalformedHtlc, DelHtlc

\* commitment_signed and revoke_and_ack keep the state well formed.
LEMMA CommitStepType ==
    ASSUME TypeOK, NEW p \in Peer, RecvCommitmentSigned(p) \/ RecvRevokeAndAck(p)
    PROVE  TypeOK'
<1> DEFINE s == self[p]
           m == Head(net[p])
<1>1. s \in SelfType /\ net \in [Peer -> Seq(Message)]
  BY DEF TypeOK
<1>2. m \in Message /\ Read(net, p) \in [Peer -> Seq(Message)]
  BY <1>1, StreamType DEF RecvCommitmentSigned, RecvRevokeAndAck, Receiving
<1>3. CASE RecvCommitmentSigned(p)
  <2> DEFINE num == s.commit_local.commit_num
             ack == <<[type |-> "revoke_and_ack", num |-> num]>>
  <2>1. CASE FailChannel(p)
    BY <2>1, FailType
  <2>2. CASE ~FailChannel(p)
    <3>1. /\ m.tx = create_to_local(s, num + 1)
          /\ Save(p, AfterCommitmentSigned(s, m.tx))
          /\ net' = Sent(Read(net, p), p, ack)
          /\ UNCHANGED Environment
      BY <1>3, <2>2 DEF RecvCommitmentSigned
    <3>2. num \in Nat
      BY <1>1 DEF SelfType, CommitLocalType
    <3>3. m.tx \in CommitTxType /\ HtlcNum(m.tx) \in Nat
      BY <1>1, <3>1, <3>2, CreateToLocalType
    <3>4. AfterCommitmentSigned(s, m.tx) \in SelfType
      BY <1>1, <3>3, RecvCommitmentType
    <3>5. ack \in Seq(Message)
      BY <3>2, MessageBuilt
    <3> HIDE DEF ack, m
    <3>6. net' \in [Peer -> Seq(Message)]
      BY <1>2, <3>1, <3>5, StreamType
    <3>7. self' \in [Peer -> SelfType] /\ db' \in [Peer -> SelfType]
      BY <3>1, <3>4, SaveType DEF Save
    <3> QED BY <3>1, <3>6, <3>7 DEF Environment, TypeOK
  <2> QED BY <2>1, <2>2
<1>4. CASE RecvRevokeAndAck(p)
  <2>1. m.num \in Nat
    BY <1>2, <1>4, MessageFields DEF RecvRevokeAndAck, Receiving
  <2>2. AfterRevokeAndAck(s, m.num) \in SelfType
    BY <1>1, <2>1, RecvRevokeType
  <2>3. self' \in [Peer -> SelfType] /\ db' \in [Peer -> SelfType]
    BY <1>4, <2>2, SaveType DEF RecvRevokeAndAck, Save
  <2> QED BY <1>2, <1>4, <2>3 DEF RecvRevokeAndAck, Environment, TypeOK
<1> QED BY <1>3, <1>4

\* The mutual close keeps the state well formed.
LEMMA CloseStepType ==
    ASSUME TypeOK, NEW p \in Peer,
           CloseRpc(p) \/ RecvShutdown(p) \/ RecvClosingSigned(p)
    PROVE  TypeOK'
<1> DEFINE s == self[p]
           m == Head(net[p])
<1>1. s \in SelfType /\ net \in [Peer -> Seq(Message)]
  BY DEF TypeOK
<1>2. <<[type |-> "shutdown"]>> \in Seq(Message) /\ <<>> \in Seq(Message)
  BY MessageBuilt
<1>3. CASE CloseRpc(p)
  <2>1. SendShutdown(s) \in SelfType
    BY <1>1, CloseType
  <2>2. self' \in [Peer -> SelfType] /\ db' \in [Peer -> SelfType]
    BY <1>3, <2>1, SaveType DEF CloseRpc, Save
  <2>3. net' \in [Peer -> Seq(Message)]
    BY <1>1, <1>2, <1>3, StreamType DEF CloseRpc
  <2>4. closes' \in [Peer -> Nat] /\ UNCHANGED <<thread, broadcast, rpc>>
    BY <1>3 DEF CloseRpc, TypeOK
  <2> QED BY <2>2, <2>3, <2>4 DEF TypeOK
<1>4. CASE RecvShutdown(p)
  <2> DEFINE answer == "SEND" \notin s.shutdown_flag
             recvd == [s EXCEPT !.shutdown_flag = @ \cup {"RECV"},
                                !.close_last_fee_sat = 0]
             exch == [(IF answer THEN SendShutdown(recvd) ELSE recvd)
                         EXCEPT !.status = "CLOSE_WAIT"]
             last == [exch EXCEPT !.close_last_fee_sat = exch.close_fee_sat]
             reply == IF answer THEN <<[type |-> "shutdown"]>> ELSE <<>>
             closing == [ type |-> "closing_signed",
                          tx |-> PeerClosingTx(s, exch.close_fee_sat) ]
  <2>1. CASE FailChannel(p)
    BY <2>1, FailType
  <2>2. CASE ~FailChannel(p)
    <3>1. recvd \in SelfType
      BY <1>1 DEF SelfType
    <3>2. exch \in SelfType
      <4> HIDE DEF recvd
      <4>1. SendShutdown(recvd) \in SelfType
        BY <3>1, CloseType
      <4>2. \A t \in SelfType : [t EXCEPT !.status = "CLOSE_WAIT"] \in SelfType
        BY DEF SelfType, Status
      <4> QED BY <3>1, <4>1, <4>2
    <3> HIDE DEF recvd, exch
    <3>3. exch.close_fee_sat \in Nat /\ last \in SelfType
      BY <3>2 DEF SelfType
    <3>4. PeerClosingTx(s, exch.close_fee_sat) \in ClosingTxType
      BY <1>1, <3>3, CloseType
    <3>5. closing \in Message
      BY <3>4, MessageBuilt
    <3>6. reply \in Seq(Message)
      BY <1>2
    <3> HIDE DEF closing, reply, last
    <3>7. Append(reply, closing) \in Seq(Message)
      BY <3>5, <3>6
    <3>8. Read(net, p) \in [Peer -> Seq(Message)]
      BY <1>1, <1>4, StreamType DEF RecvShutdown, Receiving
    <3>9. /\ UNCHANGED Environment
          /\ \/ Save(p, last) /\ net' = Sent(Read(net, p), p, Append(reply, closing))
             \/ Save(p, exch) /\ net' = Sent(Read(net, p), p, reply)
      BY <1>4, <2>2 DEF RecvShutdown, last, exch, recvd, reply, closing
    <3>10. net' \in [Peer -> Seq(Message)]
      <4>1. \A ms \in Seq(Message) :
              Sent(Read(net, p), p, ms) \in [Peer -> Seq(Message)]
        BY <3>8, StreamType
      <4> QED BY <3>6, <3>7, <3>9, <4>1
    <3>11. self' \in [Peer -> SelfType] /\ db' \in [Peer -> SelfType]
      BY <3>2, <3>3, <3>9, SaveType DEF Save
    <3> QED BY <3>9, <3>10, <3>11 DEF Environment, TypeOK
  <2> QED BY <2>1, <2>2
<1>5. CASE RecvClosingSigned(p)
  <2> DEFINE tx == m.tx
             signed == [s EXCEPT !.commit_local.signature = tx]
             spent == [signed EXCEPT !.status = "CLOSE_SPENT"]
             agreed == [signed EXCEPT !.close_fee_sat = tx.fee_sat,
                                      !.close_last_fee_sat = tx.fee_sat]
             closing == [ type |-> "closing_signed",
                          tx |-> PeerClosingTx(s, tx.fee_sat) ]
             spend == [type |-> "closing", fee_sat |-> tx.fee_sat]
  <2>1. m \in Message /\ Read(net, p) \in [Peer -> Seq(Message)]
    BY <1>1, <1>5, StreamType DEF RecvClosingSigned, Receiving
  <2>2. tx \in ClosingTxType /\ tx.fee_sat \in Nat
    BY <1>5, <2>1, MessageFields DEF RecvClosingSigned, Receiving, ClosingTxType
  <2>3. signed \in SelfType
    <3>1. \A c \in CommitLocalType, t \in ClosingTxType :
            [c EXCEPT !.signature = t] \in CommitLocalType
      BY DEF CommitLocalType
    <3>2. \A c \in CommitLocalType : [s EXCEPT !.commit_local = c] \in SelfType
      BY <1>1 DEF SelfType
    <3>3. s.commit_local \in CommitLocalType
      BY <1>1 DEF SelfType
    <3>4. signed = [s EXCEPT !.commit_local = [s.commit_local EXCEPT !.signature = tx]]
      OBVIOUS
    <3> QED BY <2>2, <3>1, <3>2, <3>3, <3>4
  <2> HIDE DEF m, signed
  <2>4. spent \in SelfType
    BY <2>3 DEF SelfType, Status
  <2>5. agreed \in SelfType
    BY <2>2, <2>3 DEF SelfType
  <2>6. <<closing>> \in Seq(Message)
    <3>1. PeerClosingTx(s, tx.fee_sat) \in ClosingTxType
      BY <1>1, <2>2, CloseType
    <3>2. closing \in Message
      BY <3>1, MessageBuilt
    <3> QED BY <3>2
  <2>7. spend \in BroadcastType
    BY <2>2 DEF BroadcastType
  <2> HIDE DEF spent, agreed, closing, spend
  <2>8. \/ FailChannel(p)
        \/ Stop(p, "aborted") /\ UNCHANGED <<self, db, broadcast, rpc, closes>>
        \/ /\ Save(p, spent) /\ net' = Read(net, p)
           /\ broadcast' = [broadcast EXCEPT ![p] = @ \cup {spend}]
           /\ UNCHANGED <<thread, rpc, closes>>
        \/ /\ Save(p, agreed) /\ net' = Sent(Read(net, p), p, <<closing>>)
           /\ UNCHANGED Environment
    BY <1>5 DEF RecvClosingSigned, m, signed, spent, agreed, closing, spend
  <2>9. CASE FailChannel(p)
    BY <2>9, FailType
  <2>10. CASE Stop(p, "aborted") /\ UNCHANGED <<self, db, broadcast, rpc, closes>>
    BY <1>2, <2>10 DEF Stop, Thread, TypeOK
  <2>11. CASE /\ Save(p, spent) /\ net' = Read(net, p)
              /\ broadcast' = [broadcast EXCEPT ![p] = @ \cup {spend}]
              /\ UNCHANGED <<thread, rpc, closes>>
    <3>1. self' \in [Peer -> SelfType] /\ db' \in [Peer -> SelfType]
      BY <2>4, <2>11, SaveType DEF Save
    <3>2. broadcast' \in [Peer -> SUBSET BroadcastType]
      BY <2>7, <2>11 DEF TypeOK
    <3> QED BY <2>1, <2>11, <3>1, <3>2 DEF TypeOK
  <2>12. CASE /\ Save(p, agreed) /\ net' = Sent(Read(net, p), p, <<closing>>)
              /\ UNCHANGED Environment
    <3>1. self' \in [Peer -> SelfType] /\ db' \in [Peer -> SelfType]
      BY <2>5, <2>12, SaveType DEF Save
    <3>2. net' \in [Peer -> Seq(Message)]
      BY <2>1, <2>6, <2>12, StreamType
    <3> QED BY <2>12, <3>1, <3>2 DEF Environment, TypeOK
  <2> QED BY <2>8, <2>9, <2>10, <2>11, <2>12
<1> QED BY <1>3, <1>4, <1>5

\* Closing unilaterally and losing the connection keep the state well formed.
LEMMA ForceStepType ==
    ASSUME TypeOK, NEW p \in Peer, CloseForce(p) \/ PeerGone(p)
    PROVE  TypeOK'
<1>1. CASE ForceLoad(p)
  BY <1>1 DEF ForceLoad, TypeOK, Stage
<1>2. CASE ForceBroadcast(p)
  <2>1. UnilateralClose(p, rpc[p].loaded) \in [Peer -> SUBSET BroadcastType]
    BY UnilateralType DEF TypeOK
  <2>2. rpc' \in [Peer -> [stage : Stage, loaded : SelfType]]
    BY <1>2 DEF ForceBroadcast, TypeOK, Stage
  <2> QED BY <1>2, <2>1, <2>2 DEF ForceBroadcast, TypeOK
<1>3. CASE ForceStop(p)
  <2>1. rpc' \in [Peer -> [stage : Stage, loaded : SelfType]]
    BY <1>3 DEF ForceStop, TypeOK, Stage
  <2>2. net' \in [Peer -> Seq(Message)] /\ thread' \in [Peer -> Thread]
    <3>1. CASE Running(p)
      <4>1. Stop(p, "stopped")
        BY <1>3, <3>1 DEF ForceStop
      <4> QED BY <4>1 DEF Stop, Thread, TypeOK
    <3>2. CASE ~Running(p)
      BY <1>3, <3>2 DEF ForceStop, TypeOK
    <3> QED BY <3>1, <3>2
  <2> QED BY <1>3, <2>1, <2>2 DEF ForceStop, TypeOK
<1>4. CASE PeerGone(p)
  BY <1>4 DEF PeerGone, Stop, Thread, TypeOK
<1> QED BY <1>1, <1>2, <1>3, <1>4 DEF CloseForce

\* Type correctness: no handler ever leaves a field of ln_self_t, a message or
\* a database record outside the values the code reads.
THEOREM TypeCorrect == Spec => []TypeOK
<1>1. Init => TypeOK
  <2>1. InitSelf \in SelfType /\ <<>> \in Seq(Message)
    BY InitSelfType
  <2> QED BY <2>1 DEF Init, TypeOK, Thread, Stage
<1>2. TypeOK /\ [Next]_vars => TypeOK'
  <2> SUFFICES ASSUME TypeOK, [Next]_vars PROVE TypeOK'
    OBVIOUS
  <2>1. CASE UNCHANGED vars
    BY <2>1 DEF vars, TypeOK
  <2>2. ASSUME NEW p \in Peer,
               \/ Offer(p) \/ OtherChannel(p) \/ Idle(p) \/ Receive(p)
               \/ CloseRpc(p) \/ CloseForce(p) \/ PeerGone(p)
        PROVE  TypeOK'
    BY <2>2, OfferStepType, IdleStepType, UpdateStepType, CommitStepType,
       CloseStepType, ForceStepType DEF Receive
  <2> QED BY <2>1, <2>2 DEF Next
<1> QED BY <1>1, <1>2, PTL DEF Spec

----------------------------------------------------------------------------
(***************************************************************************)
(* Part 2.  The exchange of commitment_signed and revoke_and_ack: the two  *)
(* ends agree on the commitment numbers, and Channel implements            *)
(* CommitLockstep.                                                         *)
(*                                                                         *)
(* The argument.  Every step of Channel is, as far as the numbers and the  *)
(* two messages are concerned, one of four: an end signs (SignStep), the   *)
(* peer accepts (AcceptStep), the end sees the acknowledgement (AckStep),  *)
(* or nothing happens (QuietStep).  What keeps the four in lockstep is a   *)
(* fact about the HTLC flags: between signing and acknowledgement some     *)
(* slot has comsend set and revrecv clear, so b_comsiging of               *)
(* recv_idle_proc_nonfinal keeps the end from signing again.               *)
(***************************************************************************)

----------------------------------------------------------------------------
(* The inductive invariant.                                                *)

\* A slot of s that waits for a revoke_and_ack.
AwaitingSlots(s) ==
    {i \in Slot : s.cnl_add_htlc[i].comsend /\ ~s.cnl_add_htlc[i].revrecv}

Awaiting(p) == AwaitingSlots(self[p]) # {}

\* Settled, signed (the commitment_signed is under way), or accepted (the
\* revoke_and_ack is under way).
ExchangePhase(p) ==
    LET c == Commit(Other(p)).commit_num
    IN  \/ Remote(p).commit_num = c /\ Remote(p).revoke_num = c - 1
        \/ /\ Remote(p).commit_num = c + 1 /\ Remote(p).revoke_num = c - 1
           /\ Awaiting(p)
        \/ /\ Remote(p).commit_num = c /\ Remote(p).revoke_num = c - 2
           /\ Awaiting(p)

SignatureUnderWay(p) ==
    LET q == Other(p)
    IN  \A k \in Carried(q, "commitment_signed") :
            /\ net[q][k].tx.num = Commit(q).commit_num + 1
            /\ Remote(p).commit_num = Commit(q).commit_num + 1
            /\ \A j \in Carried(q, "commitment_signed") : j = k

AckUnderWay(p) ==
    LET q == Other(p)
    IN  \A k \in Carried(p, "revoke_and_ack") :
            /\ net[p][k].num = Commit(q).commit_num - 1
            /\ Remote(p).commit_num = Commit(q).commit_num
            /\ Remote(p).revoke_num = Commit(q).commit_num - 2
            /\ \A j \in Carried(p, "revoke_and_ack") : j = k

ExchangeInv ==
    \A p \in Peer : ExchangePhase(p) /\ SignatureUnderWay(p) /\ AckUnderWay(p)

----------------------------------------------------------------------------
(* The four kinds of steps.                                                *)

\* No message of that type is new in p's stream; the oldest message may have
\* been read.
NoNew(p, type) ==
    \E d \in {0, 1} :
        \A k \in Carried(p, type)' :
            k + d \in DOMAIN net[p] /\ net'[p][k] = net[p][k + d]

NumbersKept(s, t) ==
    /\ t.commit_local.commit_num = s.commit_local.commit_num
    /\ t.commit_remote.commit_num = s.commit_remote.commit_num
    /\ t.commit_remote.revoke_num = s.commit_remote.revoke_num

\* Slots that wait for a revoke_and_ack go on waiting.
WaitKept(s, t) == AwaitingSlots(s) \subseteq AwaitingSlots(t)

SelfKept(p) ==
    NumbersKept(self[p], self'[p]) /\ (Awaiting(p) => Awaiting(p)')

Exchange == {"commitment_signed", "revoke_and_ack"}

QuietStep ==
    \A p \in Peer : /\ SelfKept(p)
                    /\ \A type \in Exchange : NoNew(p, type)

\* p signs the peer's next commitment; the peer may be gone.
SignStep(p) ==
    LET q == Other(p)
    IN  /\ ~Awaiting(p) /\ Awaiting(p)'
        /\ SelfKept(q)
        /\ Commit(p)'.commit_num = Commit(p).commit_num
        /\ Remote(p)'.commit_num = Remote(p).commit_num + 1
        /\ Remote(p)'.revoke_num = Remote(p).revoke_num
        /\ NoNew(p, "commitment_signed")
        /\ NoNew(p, "revoke_and_ack") /\ NoNew(q, "revoke_and_ack")
        /\ \A k \in Carried(q, "commitment_signed")' :
              \/ k \in DOMAIN net[q] /\ net'[q][k] = net[q][k]
              \/ /\ k = Len(net'[q])
                 /\ net'[q][k].tx.num = Remote(p).commit_num + 1

\* p accepts the commitment the peer has signed, and acknowledges.
AcceptStep(p) ==
    LET q == Other(p)
    IN  /\ net[p] # <<>> /\ Head(net[p]).type = "commitment_signed"
        /\ net'[p] = Tail(net[p])
        /\ SelfKept(q)
        /\ Awaiting(p) => Awaiting(p)'
        /\ Commit(p)'.commit_num = Commit(p).commit_num + 1
        /\ Remote(p)'.commit_num = Remote(p).commit_num
        /\ Remote(p)'.revoke_num = Remote(p).revoke_num
        /\ NoNew(q, "commitment_signed")
        /\ \A k \in Carried(q, "revoke_and_ack")' :
              \/ k \in DOMAIN net[q] /\ net'[q][k] = net[q][k]
              \/ /\ k = Len(net'[q])
                 /\ net'[q][k].num = Commit(p).commit_num

\* p sees the acknowledgement of the peer.
AckStep(p) ==
    LET q == Other(p)
    IN  /\ net[p] # <<>> /\ Head(net[p]).type = "revoke_and_ack"
        /\ net'[p] = Tail(net[p])
        /\ net'[q] = net[q]
        /\ SelfKept(q)
        /\ Commit(p)'.commit_num = Commit(p).commit_num
        /\ Remote(p)'.commit_num = Remote(p).commit_num
        /\ Remote(p)'.revoke_num = Remote(p).commit_num - 1

ExchangeStep ==
    QuietStep \/ \E p \in Peer : SignStep(p) \/ AcceptStep(p) \/ AckStep(p)

----------------------------------------------------------------------------
(* The four kinds of steps preserve the invariant.                         *)

\* What TypeOK says of the numbers and the streams.
LEMMA NumberTypes ==
    ASSUME TypeOK, NEW p \in Peer
    PROVE  /\ Commit(p).commit_num \in Nat
           /\ Remote(p).commit_num \in Nat /\ Remote(p).revoke_num \in Int
           /\ net[p] \in Seq(Message)
BY DEF TypeOK, SelfType, CommitLocalType, CommitRemoteType, Commit, Remote

\* The positions of the messages of one type are positions of the stream.
LEMMA CarriedType ==
    ASSUME TypeOK, NEW p \in Peer, NEW type
    PROVE  /\ DOMAIN net[p] = 1 .. Len(net[p]) /\ Len(net[p]) \in Nat
           /\ Carried(p, type) \subseteq DOMAIN net[p]
BY NumberTypes DEF Carried

\* A message that is not new was there before, at a position that determines
\* where it is now.
LEMMA NoNewCarried ==
    ASSUME NEW p \in Peer, NEW type, NoNew(p, type)
    PROVE  \E d \in {0, 1} : \A k \in Carried(p, type)' :
               k + d \in Carried(p, type) /\ net'[p][k] = net[p][k + d]
BY DEF NoNew, Carried

\* Nothing happens to the numbers.
LEMMA QuietKeeps ==
    ASSUME TypeOK, TypeOK', ExchangeInv, QuietStep
    PROVE  ExchangeInv'
<1> SUFFICES ASSUME NEW p \in Peer
             PROVE  ExchangePhase(p)' /\ SignatureUnderWay(p)' /\ AckUnderWay(p)'
  BY DEF ExchangeInv
<1> DEFINE q == Other(p)
<1>1. q \in Peer
  BY PeerFacts
<1>2. ExchangePhase(p) /\ SignatureUnderWay(p) /\ AckUnderWay(p)
  BY DEF ExchangeInv
<1>3. /\ Commit(q)'.commit_num = Commit(q).commit_num
      /\ Remote(p)'.commit_num = Remote(p).commit_num
      /\ Remote(p)'.revoke_num = Remote(p).revoke_num
      /\ Awaiting(p) => Awaiting(p)'
  BY <1>1 DEF QuietStep, SelfKept, NumbersKept, Commit, Remote
<1>4. ExchangePhase(p)'
  BY <1>2, <1>3 DEF ExchangePhase
<1>5. SignatureUnderWay(p)'
  <2>1. PICK d \in {0, 1} : \A k \in Carried(q, "commitment_signed")' :
          /\ k + d \in Carried(q, "commitment_signed")
          /\ net'[q][k] = net[q][k + d]
    BY <1>1, NoNewCarried DEF QuietStep, Exchange
  <2>2. \A k \in Carried(q, "commitment_signed")' : k \in Nat
    BY <1>1, CarriedType DEF Carried, TypeOK
  <2> QED BY <1>2, <1>3, <2>1, <2>2 DEF SignatureUnderWay
<1>6. AckUnderWay(p)'
  <2>1. PICK d \in {0, 1} : \A k \in Carried(p, "revoke_and_ack")' :
          /\ k + d \in Carried(p, "revoke_and_ack")
          /\ net'[p][k] = net[p][k + d]
    BY NoNewCarried DEF QuietStep, Exchange
  <2>2. \A k \in Carried(p, "revoke_and_ack")' : k \in Nat
    BY CarriedType DEF Carried, TypeOK
  <2> QED BY <1>2, <1>3, <2>1, <2>2 DEF AckUnderWay
<1> QED BY <1>4, <1>5, <1>6

\* When no slot waits, the numbers are settled and nothing is under way.
LEMMA NotAwaiting ==
    ASSUME TypeOK, ExchangeInv, NEW p \in Peer, ~Awaiting(p)
    PROVE  /\ Remote(p).commit_num = Commit(Other(p)).commit_num
           /\ Remote(p).revoke_num = Commit(Other(p)).commit_num - 1
           /\ Carried(Other(p), "commitment_signed") = {}
           /\ Carried(p, "revoke_and_ack") = {}
<1> DEFINE q == Other(p)
<1>1. /\ Commit(q).commit_num \in Nat
      /\ ExchangePhase(p) /\ SignatureUnderWay(p) /\ AckUnderWay(p)
  BY PeerFacts, NumberTypes DEF ExchangeInv
<1>2. /\ Remote(p).commit_num = Commit(q).commit_num
      /\ Remote(p).revoke_num = Commit(q).commit_num - 1
  BY <1>1 DEF ExchangePhase
<1>3. Carried(q, "commitment_signed") = {}
  BY <1>1, <1>2 DEF SignatureUnderWay
<1>4. Carried(p, "revoke_and_ack") = {}
  BY <1>1, <1>2 DEF AckUnderWay
<1> QED BY <1>2, <1>3, <1>4

\* An end signs: recv_idle_proc_nonfinal sends a commitment_signed.
LEMMA SignKeeps ==
    ASSUME TypeOK, TypeOK', ExchangeInv, NEW p \in Peer, SignStep(p)
    PROVE  ExchangeInv'
<1> DEFINE q == Other(p)
           c == Commit(q).commit_num
<1>1. q \in Peer /\ q # p /\ Other(q) = p /\ Peer = {p, q}
  BY PeerFacts DEF Peer, Other
<1>2. /\ Remote(p).commit_num = c /\ Remote(p).revoke_num = c - 1
      /\ Carried(q, "commitment_signed") = {}
      /\ Carried(p, "revoke_and_ack") = {}
  BY NotAwaiting DEF SignStep
<1>3. /\ Commit(q)'.commit_num = c
      /\ Remote(p)'.commit_num = c + 1 /\ Remote(p)'.revoke_num = c - 1
      /\ Awaiting(p)'
  BY <1>2 DEF SignStep, SelfKept, NumbersKept, Commit
<1>4. ExchangePhase(p)'
  BY <1>3 DEF ExchangePhase
<1>5. SignatureUnderWay(p)'
  <2>1. \A k \in Carried(q, "commitment_signed")' :
          k = Len(net'[q]) /\ net'[q][k].tx.num = c + 1
    BY <1>2 DEF SignStep, Carried
  <2> QED BY <1>3, <2>1 DEF SignatureUnderWay
<1>6. AckUnderWay(p)'
  BY <1>2, NoNewCarried DEF SignStep, AckUnderWay
<1>7. ExchangePhase(q)' /\ SignatureUnderWay(q)' /\ AckUnderWay(q)'
  <2>1. ExchangePhase(q) /\ SignatureUnderWay(q) /\ AckUnderWay(q)
    BY <1>1 DEF ExchangeInv
  <2>2. /\ Commit(p)'.commit_num = Commit(p).commit_num
        /\ Remote(q)'.commit_num = Remote(q).commit_num
        /\ Remote(q)'.revoke_num = Remote(q).revoke_num
        /\ Awaiting(q) => Awaiting(q)'
    BY DEF SignStep, SelfKept, NumbersKept, Remote
  <2>3. ExchangePhase(q)'
    BY <1>1, <2>1, <2>2 DEF ExchangePhase
  <2>4. SignatureUnderWay(q)'
    <3>1. PICK d \in {0, 1} : \A k \in Carried(p, "commitment_signed")' :
            /\ k + d \in Carried(p, "commitment_signed")
            /\ net'[p][k] = net[p][k + d]
      BY NoNewCarried DEF SignStep
    <3>2. \A k \in Carried(p, "commitment_signed")' : k \in Nat
      BY CarriedType DEF Carried, TypeOK
    <3> QED BY <1>1, <2>1, <2>2, <3>1, <3>2 DEF SignatureUnderWay
  <2>5. AckUnderWay(q)'
    <3>1. PICK d \in {0, 1} : \A k \in Carried(q, "revoke_and_ack")' :
            /\ k + d \in Carried(q, "revoke_and_ack")
            /\ net'[q][k] = net[q][k + d]
      BY <1>1, NoNewCarried DEF SignStep
    <3>2. \A k \in Carried(q, "revoke_and_ack")' : k \in Nat
      BY <1>1, CarriedType DEF Carried, TypeOK
    <3> QED BY <1>1, <2>1, <2>2, <3>1, <3>2 DEF AckUnderWay
  <2> QED BY <2>3, <2>4, <2>5
<1> QED BY <1>1, <1>4, <1>5, <1>6, <1>7 DEF ExchangeInv

\* What the head of a stream says: its type is carried at position 1.
LEMMA HeadCarried ==
    ASSUME TypeOK, NEW p \in Peer, net[p] # <<>>,
           net'[p] = Tail(net[p])
    PROVE  /\ 1 \in Carried(p, Head(net[p]).type)
           /\ Head(net[p]) = net[p][1]
           /\ \A type : \A k \in Carried(p, type)' :
                 /\ k \in Nat \ {0}
                 /\ k + 1 \in Carried(p, type)
                 /\ net'[p][k] = net[p][k + 1]
<1>1. net[p] \in Seq(Message)
  BY NumberTypes
<1>2. 1 \in DOMAIN net[p] /\ Head(net[p]) = net[p][1]
  BY <1>1
<1>3. \A k \in DOMAIN Tail(net[p]) :
        /\ k \in Nat \ {0} /\ k + 1 \in DOMAIN net[p]
        /\ Tail(net[p])[k] = net[p][k + 1]
  BY <1>1
<1> QED BY <1>2, <1>3 DEF Carried

\* The peer accepts: recv_commitment_signed answers with revoke_and_ack.
LEMMA AcceptKeeps ==
    ASSUME TypeOK, TypeOK', ExchangeInv, NEW p \in Peer, AcceptStep(p)
    PROVE  ExchangeInv'
<1> DEFINE q == Other(p)
           c == Commit(p).commit_num
<1>1. q \in Peer /\ q # p /\ Other(q) = p /\ Peer = {p, q}
  BY PeerFacts DEF Peer, Other
<1>2. c \in Nat /\ ExchangePhase(q) /\ SignatureUnderWay(q) /\ AckUnderWay(q)
  BY <1>1, NumberTypes DEF ExchangeInv
<1>3. /\ 1 \in Carried(p, "commitment_signed")
      /\ \A type : \A k \in Carried(p, type)' :
            /\ k \in Nat \ {0} /\ k + 1 \in Carried(p, type)
            /\ net'[p][k] = net[p][k + 1]
  BY HeadCarried DEF AcceptStep
<1>4. /\ Remote(q).commit_num = c + 1 /\ Remote(q).revoke_num = c - 1
      /\ Awaiting(q)
      /\ \A j \in Carried(p, "commitment_signed") : j = 1
      /\ Carried(q, "revoke_and_ack") = {}
  <2>1. /\ Remote(q).commit_num = c + 1
        /\ \A j \in Carried(p, "commitment_signed") : j = 1
    BY <1>1, <1>2, <1>3 DEF SignatureUnderWay
  <2>2. Remote(q).revoke_num = c - 1 /\ Awaiting(q)
    BY <1>1, <1>2, <2>1 DEF ExchangePhase
  <2>3. Carried(q, "revoke_and_ack") = {}
    BY <1>1, <1>2, <2>1 DEF AckUnderWay
  <2> QED BY <2>1, <2>2, <2>3
<1>5. /\ Commit(p)'.commit_num = c + 1
      /\ Remote(q)'.commit_num = c + 1 /\ Remote(q)'.revoke_num = c - 1
      /\ Awaiting(q)'
  BY <1>4 DEF AcceptStep, SelfKept, NumbersKept, Remote
<1>6. ExchangePhase(q)'
  BY <1>1, <1>2, <1>5 DEF ExchangePhase
<1>7. SignatureUnderWay(q)'
  <2>1. Carried(p, "commitment_signed")' = {}
    BY <1>3, <1>4
  <2> QED BY <1>1, <2>1 DEF SignatureUnderWay
<1>8. AckUnderWay(q)'
  <2>1. \A k \in Carried(q, "revoke_and_ack")' :
          k = Len(net'[q]) /\ net'[q][k].num = c
    BY <1>4 DEF AcceptStep, Carried
  <2> QED BY <1>1, <1>2, <1>5, <2>1 DEF AckUnderWay
<1>9. ExchangePhase(p)' /\ SignatureUnderWay(p)' /\ AckUnderWay(p)'
  <2>1. ExchangePhase(p) /\ SignatureUnderWay(p) /\ AckUnderWay(p)
    BY DEF ExchangeInv
  <2>2. /\ Commit(q)'.commit_num = Commit(q).commit_num
        /\ Remote(p)'.commit_num = Remote(p).commit_num
        /\ Remote(p)'.revoke_num = Remote(p).revoke_num
        /\ Awaiting(p) => Awaiting(p)'
    BY DEF AcceptStep, SelfKept, NumbersKept, Commit
  <2>3. ExchangePhase(p)'
    BY <2>1, <2>2 DEF ExchangePhase
  <2>4. SignatureUnderWay(p)'
    <3>1. PICK d \in {0, 1} : \A k \in Carried(q, "commitment_signed")' :
            /\ k + d \in Carried(q, "commitment_signed")
            /\ net'[q][k] = net[q][k + d]
      BY <1>1, NoNewCarried DEF AcceptStep
    <3>2. \A k \in Carried(q, "commitment_signed")' : k \in Nat
      BY <1>1, CarriedType DEF Carried, TypeOK
    <3> QED BY <2>1, <2>2, <3>1, <3>2 DEF SignatureUnderWay
  <2>5. AckUnderWay(p)'
    BY <1>3, <2>1, <2>2 DEF AckUnderWay
  <2> QED BY <2>3, <2>4, <2>5
<1> QED BY <1>1, <1>6, <1>7, <1>8, <1>9 DEF ExchangeInv

\* The end sees the acknowledgement: recv_revoke_and_ack.
LEMMA AckKeeps ==
    ASSUME TypeOK, TypeOK', ExchangeInv, NEW p \in Peer, AckStep(p)
    PROVE  ExchangeInv'
<1> DEFINE q == Other(p)
           c == Commit(q).commit_num
<1>1. q \in Peer /\ q # p /\ Other(q) = p /\ Peer = {p, q}
  BY PeerFacts DEF Peer, Other
<1>2. c \in Nat /\ ExchangePhase(p) /\ SignatureUnderWay(p) /\ AckUnderWay(p)
  BY <1>1, NumberTypes DEF ExchangeInv
<1>3. /\ 1 \in Carried(p, "revoke_and_ack")
      /\ \A type : \A k \in Carried(p, type)' :
            /\ k \in Nat \ {0} /\ k + 1 \in Carried(p, type)
            /\ net'[p][k] = net[p][k + 1]
  BY HeadCarried DEF AckStep
<1>4. /\ Remote(p).commit_num = c
      /\ \A j \in Carried(p, "revoke_and_ack") : j = 1
      /\ Carried(q, "commitment_signed") = {}
  <2>1. /\ Remote(p).commit_num = c
        /\ \A j \in Carried(p, "revoke_and_ack") : j = 1
    BY <1>2, <1>3 DEF AckUnderWay
  <2>2. Carried(q, "commitment_signed") = {}
    BY <1>2, <2>1 DEF SignatureUnderWay
  <2> QED BY <2>1, <2>2
<1>5. /\ Commit(q)'.commit_num = c
      /\ Remote(p)'.commit_num = c /\ Remote(p)'.revoke_num = c - 1
  BY <1>4 DEF AckStep, SelfKept, NumbersKept, Commit
<1>6. ExchangePhase(p)'
  BY <1>5 DEF ExchangePhase
<1>7. SignatureUnderWay(p)'
  <2>1. Carried(q, "commitment_signed")' = {}
    BY <1>4 DEF AckStep, Carried
  <2> QED BY <2>1 DEF SignatureUnderWay
<1>8. AckUnderWay(p)'
  <2>1. Carried(p, "revoke_and_ack")' = {}
    BY <1>3, <1>4
  <2> QED BY <2>1 DEF AckUnderWay
<1>9. ExchangePhase(q)' /\ SignatureUnderWay(q)' /\ AckUnderWay(q)'
  <2>1. ExchangePhase(q) /\ SignatureUnderWay(q) /\ AckUnderWay(q)
    BY <1>1 DEF ExchangeInv
  <2>2. /\ Commit(p)'.commit_num = Commit(p).commit_num
        /\ Remote(q)'.commit_num = Remote(q).commit_num
        /\ Remote(q)'.revoke_num = Remote(q).revoke_num
        /\ Awaiting(q) => Awaiting(q)'
    BY DEF AckStep, SelfKept, NumbersKept, Remote
  <2>3. ExchangePhase(q)'
    BY <1>1, <2>1, <2>2 DEF ExchangePhase
  <2>4. SignatureUnderWay(q)'
    BY <1>1, <1>3, <2>1, <2>2 DEF SignatureUnderWay
  <2>5. AckUnderWay(q)'
    BY <1>1, <2>1, <2>2 DEF AckStep, AckUnderWay, Carried
  <2> QED BY <2>3, <2>4, <2>5
<1> QED BY <1>1, <1>6, <1>7, <1>8, <1>9 DEF ExchangeInv

----------------------------------------------------------------------------
(* What the functions of ln.c do to the numbers and the waiting slots.     *)

\* HTLC operations on one slot leave comsend and revrecv of a waiting slot.
LEMMA OneSlotKept ==
    ASSUME NEW s \in SelfType, NEW i \in Slot, NEW h,
           s.cnl_add_htlc[i].comsend /\ ~s.cnl_add_htlc[i].revrecv
             => h.comsend /\ ~h.revrecv
    PROVE  /\ NumbersKept(s, [s EXCEPT !.cnl_add_htlc[i] = h])
           /\ WaitKept(s, [s EXCEPT !.cnl_add_htlc[i] = h])
BY DEF SelfType, NumbersKept, WaitKept, AwaitingSlots

\* The same for an operation on all slots.
LEMMA AllSlotsKept ==
    ASSUME NEW s \in SelfType, NEW f,
           \A i \in Slot : s.cnl_add_htlc[i].comsend /\ ~s.cnl_add_htlc[i].revrecv
                             => f[i].comsend /\ ~f[i].revrecv
    PROVE  /\ NumbersKept(s, [s EXCEPT !.cnl_add_htlc = f])
           /\ WaitKept(s, [s EXCEPT !.cnl_add_htlc = f])
BY DEF SelfType, NumbersKept, WaitKept, AwaitingSlots

\* Both relations are transitive.
LEMMA KeptTwice ==
    ASSUME NEW s, NEW t, NEW u, NumbersKept(s, t), NumbersKept(t, u),
           WaitKept(s, t), WaitKept(t, u)
    PROVE  NumbersKept(s, u) /\ WaitKept(s, u)
BY DEF NumbersKept, WaitKept

\* clear_htlc_comrevflag leaves a slot that waits for a revoke_and_ack alone.
LEMMA ClearWaits ==
    ASSUME NEW h \in HtlcType, NEW del, h.comsend, ~h.revrecv
    PROVE  clear_htlc_comrevflag(h, del) = h
BY DEF clear_htlc_comrevflag, Exchanged, HtlcType

\* Offering and accepting an HTLC.
LEMMA OfferKept ==
    ASSUME NEW s \in SelfType, NEW i \in Slot, NEW amt \in Nat
    PROVE  /\ NumbersKept(s, ln_add_htlc_set(s, i, amt))
           /\ WaitKept(s, ln_add_htlc_set(s, i, amt))
           /\ NumbersKept(s, ln_add_htlc_set_fwd(s, i, amt))
           /\ WaitKept(s, ln_add_htlc_set_fwd(s, i, amt))
           /\ NumbersKept(s, ln_add_htlc_start_fwd(s, i))
           /\ WaitKept(s, ln_add_htlc_start_fwd(s, i))
<1>1. \A t \in SelfType : /\ NumbersKept(t, ln_add_htlc_start_fwd(t, i))
                          /\ WaitKept(t, ln_add_htlc_start_fwd(t, i))
  <2> TAKE t \in SelfType
  <2> DEFINE h == [t.cnl_add_htlc[i] EXCEPT !.addhtlc = "OFFER"]
  <2>1. t.cnl_add_htlc[i] \in HtlcType
    BY SlotHolds
  <2>2. /\ h.comsend = t.cnl_add_htlc[i].comsend
        /\ h.revrecv = t.cnl_add_htlc[i].revrecv
    BY <2>1 DEF HtlcType
  <2>3. ln_add_htlc_start_fwd(t, i) = [t EXCEPT !.cnl_add_htlc[i] = h]
    BY DEF ln_add_htlc_start_fwd
  <2> HIDE DEF h
  <2> QED BY <2>2, <2>3, OneSlotKept
<1>2. NumbersKept(s, set_add_htlc(s, i, amt)) /\ WaitKept(s, set_add_htlc(s, i, amt))
  <2> DEFINE h == [s.cnl_add_htlc[i] EXCEPT !.id = s.htlc_id_num, !.amount_msat = amt]
             t == [s EXCEPT !.cnl_add_htlc[i] = h, !.htlc_id_num = s.htlc_id_num + 1]
  <2>1. s.cnl_add_htlc[i] \in HtlcType
    BY SlotHolds
  <2>2. /\ h.comsend = s.cnl_add_htlc[i].comsend
        /\ h.revrecv = s.cnl_add_htlc[i].revrecv
    BY <2>1 DEF HtlcType
  <2>3. set_add_htlc(s, i, amt) = t
    BY DEF set_add_htlc
  <2> HIDE DEF h
  <2>4. NumbersKept(s, t) /\ WaitKept(s, t)
    BY <2>2 DEF SelfType, NumbersKept, WaitKept, AwaitingSlots
  <2> QED BY <2>3, <2>4
<1>3. set_add_htlc(s, i, amt) \in SelfType
  BY OfferType DEF ln_add_htlc_set_fwd
<1>4. ln_add_htlc_set(s, i, amt) = ln_add_htlc_start_fwd(set_add_htlc(s, i, amt), i)
  BY DEF ln_add_htlc_set, ln_add_htlc_start_fwd
<1>5. /\ NumbersKept(s, ln_add_htlc_set(s, i, amt))
      /\ WaitKept(s, ln_add_htlc_set(s, i, amt))
  BY <1>1, <1>2, <1>3, <1>4, KeptTwice
<1> QED BY <1>1, <1>2, <1>5 DEF ln_add_htlc_set_fwd

\* Accepting an update_add_htlc.
LEMMA AcceptKept ==
    ASSUME NEW s \in SelfType, NEW i \in Slot, NEW fate, NEW m
    PROVE  /\ NumbersKept(s, AcceptAddHtlc(s, i, m, fate))
           /\ WaitKept(s, AcceptAddHtlc(s, i, m, fate))
<1> DEFINE h == AcceptedHtlc(s.cnl_add_htlc[i], m, fate)
<1>1. s.cnl_add_htlc[i] \in HtlcType
  BY SlotHolds
<1>2. h.comsend = s.cnl_add_htlc[i].comsend /\ h.revrecv = s.cnl_add_htlc[i].revrecv
  BY <1>1 DEF AcceptedHtlc, HtlcType
<1>3. AcceptAddHtlc(s, i, m, fate) = [s EXCEPT !.cnl_add_htlc[i] = h]
  BY DEF AcceptAddHtlc
<1> HIDE DEF h
<1> QED BY <1>2, <1>3, OneSlotKept

\* Deleting an HTLC.
LEMMA DeleteKept ==
    ASSUME NEW s \in SelfType, NEW i \in Slot, NEW id, NEW del
    PROVE  /\ NumbersKept(s, ln_fulfill_htlc_set(s, i))
           /\ WaitKept(s, ln_fulfill_htlc_set(s, i))
           /\ NumbersKept(s, ln_fail_htlc_set(s, i))
           /\ WaitKept(s, ln_fail_htlc_set(s, i))
           /\ NumbersKept(s, DelOffered(s, id, del))
           /\ WaitKept(s, DelOffered(s, id, del))
<1>1. \A j \in Slot : \A d :
        s.cnl_add_htlc[j].comsend /\ ~s.cnl_add_htlc[j].revrecv
          => clear_htlc_comrevflag(s.cnl_add_htlc[j], d) = s.cnl_add_htlc[j]
  BY SlotHolds, ClearWaits
<1>2. \A d : NumbersKept(s, DelHtlcIn(s, i, d)) /\ WaitKept(s, DelHtlcIn(s, i, d))
  BY <1>1, OneSlotKept DEF DelHtlcIn
<1>3. NumbersKept(s, ln_fail_htlc_set(s, i)) /\ WaitKept(s, ln_fail_htlc_set(s, i))
  <2> DEFINE t == DelHtlcIn(s, i, "FAIL")
             h == [t.cnl_add_htlc[i] EXCEPT !.delhtlc = "FAIL"]
  <2>1. t \in SelfType
    <3>1. clear_htlc_comrevflag(s.cnl_add_htlc[i], "FAIL") \in HtlcType
      BY SlotHolds, ClearFlagType DEF DelHtlc
    <3> QED BY <3>1, SlotType DEF DelHtlcIn
  <2>2. NumbersKept(s, t) /\ WaitKept(s, t)
    BY <1>2
  <2>3. ln_fail_htlc_set(s, i) = [t EXCEPT !.cnl_add_htlc[i] = h]
    BY DEF ln_fail_htlc_set
  <2> HIDE DEF t
  <2>4. t.cnl_add_htlc[i] \in HtlcType
    BY <2>1, SlotHolds
  <2>5. h.comsend = t.cnl_add_htlc[i].comsend /\ h.revrecv = t.cnl_add_htlc[i].revrecv
    BY <2>4 DEF HtlcType
  <2> HIDE DEF h
  <2> QED BY <2>1, <2>2, <2>3, <2>5, OneSlotKept, KeptTwice
<1>4. NumbersKept(s, DelOffered(s, id, del)) /\ WaitKept(s, DelOffered(s, id, del))
  <2> DEFINE f == [j \in Slot |-> IF OfferedSlot(s, id, j)
                        THEN clear_htlc_comrevflag(s.cnl_add_htlc[j], del)
                        ELSE s.cnl_add_htlc[j]]
  <2>1. \A j \in Slot : s.cnl_add_htlc[j].comsend /\ ~s.cnl_add_htlc[j].revrecv
                          => f[j].comsend /\ ~f[j].revrecv
    BY <1>1
  <2>2. DelOffered(s, id, del) = [s EXCEPT !.cnl_add_htlc = f]
    BY DEF DelOffered
  <2> HIDE DEF f
  <2> QED BY <2>1, <2>2, AllSlotsKept
<1> QED BY <1>2, <1>3, <1>4 DEF ln_fulfill_htlc_set

\* Sending update messages.
LEMMA UpdatesKept ==
    ASSUME NEW s \in SelfType
    PROVE  NumbersKept(s, AfterUpdates(s)) /\ WaitKept(s, AfterUpdates(s))
<1> DEFINE f == [i \in Slot |-> IF i \in WillUpdate(s)
                                THEN [s.cnl_add_htlc[i] EXCEPT !.updsend = TRUE]
                                ELSE s.cnl_add_htlc[i]]
<1>1. \A i \in Slot : s.cnl_add_htlc[i] \in HtlcType
  BY SlotHolds
<1>2. \A i \in Slot : s.cnl_add_htlc[i].comsend /\ ~s.cnl_add_htlc[i].revrecv
                        => f[i].comsend /\ ~f[i].revrecv
  BY <1>1 DEF HtlcType
<1>3. AfterUpdates(s) = [s EXCEPT !.cnl_add_htlc = f]
  BY DEF AfterUpdates
<1> HIDE DEF f
<1> QED BY <1>2, <1>3, AllSlotsKept

\* The end of an exchange: no HTLC waits then, and no other slot is touched.
LEMMA FinalKept ==
    ASSUME NEW s \in SelfType, Final(s)
    PROVE  NumbersKept(s, AfterFinal(s)) /\ WaitKept(s, AfterFinal(s))
<1> DEFINE f == [i \in Slot |->
                   CASE i \in Removable(s) -> clear_htlc(s.cnl_add_htlc[i])
                     [] i \in Startable(s) -> StartHtlc(s.cnl_add_htlc[i])
                     [] OTHER -> s.cnl_add_htlc[i]]
           o == s.paid_out \cup FulfilledRefs(s, "OFFER")
           n == s.paid_in \cup FulfilledRefs(s, "RECV")
<1>1. \A i \in Slot : s.cnl_add_htlc[i].comsend /\ ~s.cnl_add_htlc[i].revrecv
                        => i \notin Removable(s) /\ i \notin Startable(s)
  BY DEF Final, Exchanged, Removable, Startable
<1>2. \A i \in Slot : s.cnl_add_htlc[i].comsend /\ ~s.cnl_add_htlc[i].revrecv
                        => f[i].comsend /\ ~f[i].revrecv
  BY <1>1
<1>3. AfterFinal(s) = [s EXCEPT !.cnl_add_htlc = f, !.paid_out = o, !.paid_in = n]
  BY DEF AfterFinal
<1> HIDE DEF f, o, n
<1> QED BY <1>2, <1>3 DEF SelfType, NumbersKept, WaitKept, AwaitingSlots

\* Closing: the numbers and the slots are left alone.
LEMMA CloseKept ==
    ASSUME NEW s \in SelfType, NEW t,
           t.cnl_add_htlc = s.cnl_add_htlc,
           t.commit_remote = s.commit_remote,
           t.commit_local.commit_num = s.commit_local.commit_num
    PROVE  NumbersKept(s, t) /\ WaitKept(s, t)
BY DEF NumbersKept, WaitKept, AwaitingSlots

----------------------------------------------------------------------------
(* What the actions do to the streams.                                     *)

\* A stream that loses its first message, or all, has nothing new.
LEMMA ReadNoNew ==
    ASSUME TypeOK, NEW p \in Peer, NEW type,
           \/ net'[p] = net[p]
           \/ net[p] # <<>> /\ net'[p] = Tail(net[p])
           \/ net'[p] = <<>>
    PROVE  NoNew(p, type)
<1>1. net[p] \in Seq(Message)
  BY NumberTypes
<1>2. CASE net'[p] = net[p]
  <2>1. \A k \in Carried(p, type)' : k + 0 \in DOMAIN net[p] /\ net'[p][k] = net[p][k + 0]
    BY <1>1, <1>2 DEF Carried
  <2> QED BY <2>1 DEF NoNew
<1>3. CASE net[p] # <<>> /\ net'[p] = Tail(net[p])
  <2>1. \A k \in Carried(p, type)' : k + 1 \in DOMAIN net[p] /\ net'[p][k] = net[p][k + 1]
    BY <1>3, HeadCarried, CarriedType
  <2> QED BY <2>1 DEF NoNew
<1>4. CASE net'[p] = <<>>
  BY <1>4 DEF NoNew, Carried
<1> QED BY <1>2, <1>3, <1>4

\* A stream that gets messages of other types has nothing new.
LEMMA SendNoNew ==
    ASSUME TypeOK, NEW p \in Peer, NEW ms \in Seq(Message), NEW type,
           \A k \in DOMAIN ms : ms[k].type # type,
           net'[p] = net[p] \/ net'[p] = net[p] \o ms
    PROVE  /\ NoNew(p, type)
           /\ \A k \in Carried(p, type)' :
                 k \in DOMAIN net[p] /\ net'[p][k] = net[p][k]
<1>1. net[p] \in Seq(Message)
  BY NumberTypes
<1>2. \A k \in Carried(p, type)' : k \in DOMAIN net[p] /\ net'[p][k] = net[p][k]
  <2>1. CASE net'[p] = net[p]
    BY <2>1 DEF Carried
  <2>2. CASE net'[p] = net[p] \o ms
    <3> SUFFICES ASSUME NEW k \in DOMAIN (net[p] \o ms), k \notin DOMAIN net[p],
                        (net[p] \o ms)[k].type = type
                 PROVE  FALSE
      BY <1>1, <2>2 DEF Carried
    <3>1. k - Len(net[p]) \in DOMAIN ms /\ (net[p] \o ms)[k] = ms[k - Len(net[p])]
      BY <1>1
    <3> QED BY <3>1
  <2> QED BY <2>1, <2>2
<1>3. \A k \in Carried(p, type)' : k \in Int
  BY <1>1, <1>2
<1>4. \A k \in Carried(p, type)' : k + 0 \in DOMAIN net[p] /\ net'[p][k] = net[p][k + 0]
  BY <1>2, <1>3
<1> QED BY <1>2, <1>4 DEF NoNew

\* Where a message of a stream that got ms comes from.
LEMMA WhereFrom ==
    ASSUME NEW a \in Seq(Message), NEW ms \in Seq(Message),
           NEW k \in DOMAIN (a \o ms)
    PROVE  \/ k \in DOMAIN a /\ (a \o ms)[k] = a[k]
           \/ /\ k - Len(a) \in DOMAIN ms /\ (a \o ms)[k] = ms[k - Len(a)]
              /\ (k - Len(a) = Len(ms) => k = Len(a \o ms))
<1>1. Len(a \o ms) = Len(a) + Len(ms) /\ Len(a) \in Nat /\ Len(ms) \in Nat
  OBVIOUS
<1>2. k \in 1 .. Len(a) + Len(ms)
  BY <1>1
<1>3. CASE k <= Len(a)
  <2>1. k \in DOMAIN a /\ (a \o ms)[k] = a[k]
    BY <1>1, <1>2, <1>3
  <2> QED BY <2>1
<1>4. CASE k > Len(a)
  <2>1. k - Len(a) \in DOMAIN ms
    BY <1>1, <1>2, <1>4
  <2>2. (a \o ms)[k] = ms[k - Len(a)]
    BY <1>1, <1>2, <1>4
  <2> QED BY <1>1, <1>2, <2>1, <2>2
<1> QED BY <1>1, <1>2, <1>3, <1>4

\* The update messages are none of the exchange.
LEMMA UpdateMsgsQuiet ==
    ASSUME NEW s, NEW order, NEW type \in Exchange
    PROVE  \A k \in DOMAIN UpdateMsgs(s, order) : UpdateMsgs(s, order)[k].type # type
BY DEF UpdateMsgs, UpdateMsg, Exchange

\* A step that changes the state of one end quietly and only reads, sends
\* messages that are none of the exchange, or stops.
LEMMA QuietBy ==
    ASSUME TypeOK, NEW p \in Peer, NEW t, NEW ms \in Seq(Message),
           NumbersKept(self[p], t), WaitKept(self[p], t),
           self' = [self EXCEPT ![p] = t],
           \A type \in Exchange : \A k \in DOMAIN ms : ms[k].type # type,
           \/ net'[p] = net[p]
           \/ net[p] # <<>> /\ net'[p] = Tail(net[p])
           \/ net'[p] = <<>>,
           \/ net'[Other(p)] = net[Other(p)]
           \/ net'[Other(p)] = net[Other(p)] \o ms
    PROVE  QuietStep
<1> DEFINE q == Other(p)
<1>1. q \in Peer /\ q # p /\ Peer = {p, q}
  BY PeerFacts DEF Peer, Other
<1>2. SelfKept(p)
  <2>1. self'[p] = t
    BY DEF TypeOK
  <2> QED BY <2>1 DEF SelfKept, Awaiting, WaitKept
<1>3. SelfKept(q)
  <2>1. self'[q] = self[q]
    BY <1>1 DEF TypeOK
  <2> QED BY <2>1 DEF SelfKept, Awaiting, NumbersKept
<1>4. \A type \in Exchange : NoNew(p, type)
  BY ReadNoNew
<1>5. \A type \in Exchange : NoNew(q, type)
  BY <1>1, SendNoNew
<1> QED BY <1>1, <1>2, <1>3, <1>4, <1>5 DEF QuietStep

\* What Sent and Read do to each stream.
LEMMA Streams ==
    ASSUME TypeOK, NEW p \in Peer, NEW ms
    PROVE  /\ Read(net, p)[p] = Tail(net[p])
           /\ Read(net, p)[Other(p)] = net[Other(p)]
           /\ Sent(net, p, ms)[p] = net[p]
           /\ Sent(net, p, ms)[Other(p)] \in {net[Other(p)], net[Other(p)] \o ms}
           /\ Sent(Read(net, p), p, ms)[p] = Tail(net[p])
           /\ Sent(Read(net, p), p, ms)[Other(p)]
                \in {net[Other(p)], net[Other(p)] \o ms}
BY PeerFacts DEF TypeOK, Read, Sent

\* A step that leaves self alone and stops an end or nothing is quiet.
LEMMA QuietStop ==
    ASSUME TypeOK, NEW p \in Peer, self' = self,
           net' = net \/ net' = [net EXCEPT ![p] = <<>>]
    PROVE  QuietStep
<1>1. self' = [self EXCEPT ![p] = self[p]]
  BY DEF TypeOK
<1>2. NumbersKept(self[p], self[p]) /\ WaitKept(self[p], self[p])
  BY DEF NumbersKept, WaitKept
<1>3. <<>> \in Seq(Message) /\ DOMAIN <<>> = {}
  OBVIOUS
<1>4. net'[p] = net[p] \/ net'[p] = <<>>
  BY DEF TypeOK
<1>5. net'[Other(p)] = net[Other(p)]
  BY PeerFacts DEF TypeOK
<1> QED BY <1>1, <1>2, <1>3, <1>4, <1>5, QuietBy

----------------------------------------------------------------------------
(* Every step of Channel is one of the four kinds.                         *)

\* A failing handler is quiet.
LEMMA FailQuiet ==
    ASSUME TypeOK, NEW p \in Peer, FailChannel(p)
    PROVE  QuietStep
BY QuietStop DEF FailChannel, Stop

\* Payments and the callers of other channels are quiet.
LEMMA OfferStepQuiet ==
    ASSUME TypeOK, NEW p \in Peer, Offer(p) \/ OtherChannel(p)
    PROVE  QuietStep
<1>1. self[p] \in SelfType
  BY DEF TypeOK
<1>2. net' = net
  BY DEF Offer, OtherChannel, Pay, FwdAdd, FwdStart, FulfillBackwind, FailBackwind
<1>3. <<>> \in Seq(Message) /\ DOMAIN <<>> = {}
  OBVIOUS
<1>4. ASSUME NEW t, self' = [self EXCEPT ![p] = t],
             NumbersKept(self[p], t), WaitKept(self[p], t)
      PROVE  QuietStep
  BY <1>2, <1>3, <1>4, QuietBy
<1>5. ASSUME NEW amt \in Amounts, Pay(p, amt) \/ FwdAdd(p, amt)
      PROVE  QuietStep
  <2>1. amt \in Nat
    BY ParameterAssumption
  <2>2. PICK i \in Slot : \/ Keep(p, ln_add_htlc_set(self[p], i, amt))
                          \/ Keep(p, ln_add_htlc_set_fwd(self[p], i, amt))
    BY <1>5 DEF Pay, FwdAdd
  <2> QED BY <1>1, <1>4, <2>1, <2>2, OfferKept DEF Keep
<1>6. ASSUME NEW i \in Slot, FwdStart(p, i)
      PROVE  QuietStep
  BY <1>1, <1>4, <1>6, OfferKept, 0 \in Nat DEF FwdStart, Keep
<1>7. ASSUME NEW i \in Slot, FulfillBackwind(p, i)
      PROVE  QuietStep
  BY <1>1, <1>4, <1>7, DeleteKept DEF FulfillBackwind, Save
<1>8. ASSUME NEW i \in Slot, FailBackwind(p, i)
      PROVE  QuietStep
  BY <1>1, <1>4, <1>8, DeleteKept DEF FailBackwind, Keep
<1> QED BY <1>5, <1>6, <1>7, <1>8 DEF Offer, OtherChannel

\* The handlers of update messages are quiet.
LEMMA UpdateStepQuiet ==
    ASSUME TypeOK, NEW p \in Peer,
           \/ RecvAddHtlc(p) \/ RecvFulfillHtlc(p)
           \/ RecvFailHtlc(p) \/ RecvFailMalformedHtlc(p)
    PROVE  QuietStep
<1>1. self[p] \in SelfType
  BY DEF TypeOK
<1>2. <<>> \in Seq(Message) /\ DOMAIN <<>> = {}
  OBVIOUS
<1>3. ASSUME NEW t, self' = [self EXCEPT ![p] = t],
             NumbersKept(self[p], t), WaitKept(self[p], t),
             net[p] # <<>>, net' = Read(net, p)
      PROVE  QuietStep
  <2>1. net'[p] = Tail(net[p]) /\ net'[Other(p)] = net[Other(p)]
    BY <1>3, Streams
  <2> QED BY <1>2, <1>3, <2>1, QuietBy
<1>4. CASE RecvAddHtlc(p)
  <2>1. CASE FailChannel(p)
    BY <2>1, FailQuiet
  <2>2. CASE ~FailChannel(p)
    <3>1. PICK i \in Slot, fate \in Fates :
            Keep(p, AcceptAddHtlc(self[p], i, Head(net[p]), fate))
      BY <1>4, <2>2 DEF RecvAddHtlc
    <3>2. net[p] # <<>> /\ net' = Read(net, p)
      BY <1>4, <2>2 DEF RecvAddHtlc, Receiving
    <3> QED BY <1>1, <1>3, <3>1, <3>2, AcceptKept DEF Keep
  <2> QED BY <2>1, <2>2
<1>5. ASSUME NEW type, NEW del, RecvDelHtlc(p, type, del)
      PROVE  QuietStep
  <2>1. CASE FailChannel(p)
    BY <2>1, FailQuiet
  <2>2. CASE ~FailChannel(p)
    <3>1. /\ Keep(p, DelOffered(self[p], Head(net[p]).id, del))
          /\ net[p] # <<>> /\ net' = Read(net, p)
      BY <1>5, <2>2 DEF RecvDelHtlc, Receiving
    <3>2. 0 \in Slot
      BY HtlcMaxAssumption DEF Slot
    <3>3. /\ NumbersKept(self[p], DelOffered(self[p], Head(net[p]).id, del))
          /\ WaitKept(self[p], DelOffered(self[p], Head(net[p]).id, del))
      BY <1>1, <3>2, DeleteKept
    <3> QED BY <1>3, <3>1, <3>3 DEF Keep
  <2> QED BY <2>1, <2>2
<1> QED BY <1>4, <1>5 DEF RecvFulfillHtlc, RecvFailHtlc, RecvFailMalformedHtlc

\* Closing unilaterally and losing the connection are quiet.
LEMMA ForceStepQuiet ==
    ASSUME TypeOK, NEW p \in Peer, CloseForce(p) \/ PeerGone(p)
    PROVE  QuietStep
<1>1. self' = self
  BY DEF CloseForce, ForceLoad, ForceBroadcast, ForceStop, PeerGone
<1>2. net' = net \/ net' = [net EXCEPT ![p] = <<>>]
  BY DEF CloseForce, ForceLoad, ForceBroadcast, ForceStop, PeerGone, Stop
<1> QED BY <1>1, <1>2, QuietStop

\* The mutual close is quiet.
LEMMA CloseStepQuiet ==
    ASSUME TypeOK, NEW p \in Peer,
           CloseRpc(p) \/ RecvShutdown(p) \/ RecvClosingSigned(p)
    PROVE  QuietStep
<1> DEFINE s == self[p]
           m == Head(net[p])
<1>1. s \in SelfType
  BY DEF TypeOK
<1>2. /\ <<[type |-> "shutdown"]>> \in Seq(Message)
      /\ \A k \in DOMAIN <<[type |-> "shutdown"]>> :
            <<[type |-> "shutdown"]>>[k].type \notin Exchange
  BY MessageBuilt DEF Exchange
<1>3. \A t \in SelfType : NumbersKept(t, SendShutdown(t)) /\ WaitKept(t, SendShutdown(t))
  <2> TAKE t \in SelfType
  <2>1. /\ SendShutdown(t).cnl_add_htlc = t.cnl_add_htlc
        /\ SendShutdown(t).commit_remote = t.commit_remote
        /\ SendShutdown(t).commit_local = t.commit_local
    BY DEF SendShutdown, SelfType
  <2> QED BY <2>1, CloseKept
<1>4. CASE CloseRpc(p)
  <2>1. self' = [self EXCEPT ![p] = SendShutdown(s)]
    BY <1>4 DEF CloseRpc, Save
  <2>2. /\ net'[p] = net[p]
        /\ net'[Other(p)] \in {net[Other(p)], net[Other(p)] \o <<[type |-> "shutdown"]>>}
    BY <1>4, Streams DEF CloseRpc
  <2> DEFINE ms == <<[type |-> "shutdown"]>>
             t == SendShutdown(s)
  <2>3. /\ ms \in Seq(Message) /\ \A k \in DOMAIN ms : ms[k].type \notin Exchange
        /\ NumbersKept(s, t) /\ WaitKept(s, t)
        /\ self' = [self EXCEPT ![p] = t]
        /\ net'[Other(p)] \in {net[Other(p)], net[Other(p)] \o ms}
    BY <1>1, <1>2, <1>3, <2>1, <2>2
  <2> HIDE DEF ms, t
  <2> QED BY <2>2, <2>3, QuietBy
<1>5. ASSUME NEW t, NEW ms \in Seq(Message), self' = [self EXCEPT ![p] = t],
             NumbersKept(s, t), WaitKept(s, t),
             \A k \in DOMAIN ms : ms[k].type \notin Exchange,
             net[p] # <<>>, net' = Sent(Read(net, p), p, ms)
      PROVE  QuietStep
  <2>1. /\ net'[p] = Tail(net[p])
        /\ net'[Other(p)] \in {net[Other(p)], net[Other(p)] \o ms}
    BY <1>5, Streams
  <2> QED BY <1>5, <2>1, QuietBy
<1>6. CASE RecvShutdown(p)
  <2> DEFINE answer == "SEND" \notin s.shutdown_flag
             recvd == [s EXCEPT !.shutdown_flag = @ \cup {"RECV"},
                                !.close_last_fee_sat = 0]
             sent == IF answer THEN SendShutdown(recvd) ELSE recvd
             exch == [sent EXCEPT !.status = "CLOSE_WAIT"]
             last == [exch EXCEPT !.close_last_fee_sat = exch.close_fee_sat]
             reply == IF answer THEN <<[type |-> "shutdown"]>> ELSE <<>>
             closing == [ type |-> "closing_signed",
                          tx |-> PeerClosingTx(s, exch.close_fee_sat) ]
  <2>1. CASE FailChannel(p)
    BY <2>1, FailQuiet
  <2>2. CASE ~FailChannel(p)
    <3>1. recvd \in SelfType /\ NumbersKept(s, recvd) /\ WaitKept(s, recvd)
      <4>1. recvd \in SelfType
        BY <1>1 DEF SelfType
      <4>2. /\ recvd.cnl_add_htlc = s.cnl_add_htlc
            /\ recvd.commit_remote = s.commit_remote
            /\ recvd.commit_local = s.commit_local
        BY <1>1 DEF SelfType
      <4> HIDE DEF recvd
      <4> QED BY <1>1, <4>1, <4>2, CloseKept
    <3> HIDE DEF recvd
    <3>2. sent \in SelfType /\ NumbersKept(s, sent) /\ WaitKept(s, sent)
      <4>1. SendShutdown(recvd) \in SelfType
        BY <3>1, CloseType
      <4>2. NumbersKept(s, SendShutdown(recvd)) /\ WaitKept(s, SendShutdown(recvd))
        BY <1>3, <3>1, KeptTwice
      <4> QED BY <3>1, <4>1, <4>2
    <3> HIDE DEF sent
    <3>3. exch \in SelfType /\ NumbersKept(s, exch) /\ WaitKept(s, exch)
      <4>1. exch \in SelfType
        BY <3>2 DEF SelfType, Status
      <4>2. /\ exch.cnl_add_htlc = sent.cnl_add_htlc
            /\ exch.commit_remote = sent.commit_remote
            /\ exch.commit_local = sent.commit_local
        BY <3>2 DEF SelfType
      <4> HIDE DEF exch
      <4> QED BY <3>2, <4>1, <4>2, CloseKept, KeptTwice
    <3> HIDE DEF exch
    <3>4. exch.close_fee_sat \in Nat /\ NumbersKept(s, last) /\ WaitKept(s, last)
      <4>1. /\ last.cnl_add_htlc = exch.cnl_add_htlc
            /\ last.commit_remote = exch.commit_remote
            /\ last.commit_local = exch.commit_local
            /\ exch.close_fee_sat \in Nat
        BY <3>3 DEF SelfType
      <4> HIDE DEF last
      <4> QED BY <3>3, <4>1, CloseKept, KeptTwice
    <3>5. closing \in Message /\ closing.type \notin Exchange
      <4>1. PeerClosingTx(s, exch.close_fee_sat) \in ClosingTxType
        BY <1>1, <3>4, CloseType
      <4> QED BY <4>1, MessageBuilt DEF Exchange
    <3>6. reply \in Seq(Message) /\ \A k \in DOMAIN reply : reply[k].type \notin Exchange
      BY <1>2
    <3> HIDE DEF closing, reply, last
    <3>7. /\ Append(reply, closing) \in Seq(Message)
          /\ \A k \in DOMAIN Append(reply, closing) :
                Append(reply, closing)[k].type \notin Exchange
      BY <3>5, <3>6
    <3>8. /\ net[p] # <<>>
          /\ \/ Save(p, last) /\ net' = Sent(Read(net, p), p, Append(reply, closing))
             \/ Save(p, exch) /\ net' = Sent(Read(net, p), p, reply)
      BY <1>6, <2>2 DEF RecvShutdown, Receiving, last, exch, sent, recvd, reply, closing
    <3> QED BY <1>5, <3>3, <3>4, <3>6, <3>7, <3>8 DEF Save
  <2> QED BY <2>1, <2>2
<1>7. CASE RecvClosingSigned(p)
  <2> DEFINE tx == m.tx
             signed == [s EXCEPT !.commit_local.signature = tx]
             spent == [signed EXCEPT !.status = "CLOSE_SPENT"]
             agreed == [signed EXCEPT !.close_fee_sat = tx.fee_sat,
                                      !.close_last_fee_sat = tx.fee_sat]
             closing == [ type |-> "closing_signed",
                          tx |-> PeerClosingTx(s, tx.fee_sat) ]
  <2>1. net[p] # <<>> /\ m.type = "closing_signed" /\ m \in Message
    BY <1>7, StreamType DEF RecvClosingSigned, Receiving, TypeOK
  <2>2. tx \in ClosingTxType /\ tx.fee_sat \in Nat
    BY <2>1, MessageFields DEF ClosingTxType
  <2>3. <<closing>> \in Seq(Message) /\ <<closing>>[1].type \notin Exchange
    <3>1. PeerClosingTx(s, tx.fee_sat) \in ClosingTxType
      BY <1>1, <2>2, CloseType
    <3> QED BY <3>1, MessageBuilt DEF Exchange
  <2>4. /\ NumbersKept(s, spent) /\ WaitKept(s, spent)
        /\ NumbersKept(s, agreed) /\ WaitKept(s, agreed)
    <3>1. /\ spent.cnl_add_htlc = s.cnl_add_htlc
          /\ spent.commit_remote = s.commit_remote
          /\ spent.commit_local.commit_num = s.commit_local.commit_num
      BY <1>1 DEF SelfType, CommitLocalType
    <3>2. /\ agreed.cnl_add_htlc = s.cnl_add_htlc
          /\ agreed.commit_remote = s.commit_remote
          /\ agreed.commit_local.commit_num = s.commit_local.commit_num
      BY <1>1 DEF SelfType, CommitLocalType
    <3> HIDE DEF spent, agreed
    <3> QED BY <1>1, <3>1, <3>2, CloseKept
  <2> HIDE DEF spent, agreed, closing, m
  <2>5. \/ FailChannel(p)
        \/ Stop(p, "aborted") /\ UNCHANGED self
        \/ Save(p, spent) /\ net' = Read(net, p)
        \/ Save(p, agreed) /\ net' = Sent(Read(net, p), p, <<closing>>)
    BY <1>7 DEF RecvClosingSigned, m, spent, agreed, closing
  <2>6. CASE FailChannel(p)
    BY <2>6, FailQuiet
  <2>7. CASE Stop(p, "aborted") /\ UNCHANGED self
    BY <2>7, QuietStop DEF Stop
  <2>8. CASE Save(p, spent) /\ net' = Read(net, p)
    <3>1. net'[p] = Tail(net[p]) /\ net'[Other(p)] = net[Other(p)]
      BY <2>8, Streams
    <3>2. self' = [self EXCEPT ![p] = spent]
      BY <2>8 DEF Save
    <3>3. <<>> \in Seq(Message) /\ DOMAIN <<>> = {}
      OBVIOUS
    <3> QED BY <2>1, <2>4, <3>1, <3>2, <3>3, QuietBy
  <2>9. CASE Save(p, agreed) /\ net' = Sent(Read(net, p), p, <<closing>>)
    <3>1. self' = [self EXCEPT ![p] = agreed]
      BY <2>9 DEF Save
    <3>2. \A k \in DOMAIN <<closing>> : <<closing>>[k].type \notin Exchange
      BY <2>3
    <3> QED BY <1>5, <2>1, <2>3, <2>4, <2>9, <3>1, <3>2
  <2> QED BY <2>5, <2>6, <2>7, <2>8, <2>9
<1> QED BY <1>4, <1>6, <1>7

\* The idle procedure is quiet or signs: b_comsiging is false and b_comsig
\* true means that no slot waits before, and one does after.
LEMMA IdleStepExchange ==
    ASSUME TypeOK, NEW p \in Peer, Idle(p)
    PROVE  QuietStep \/ SignStep(p)
<1> DEFINE s == self[p]
           q == Other(p)
<1>1. s \in SelfType /\ q \in Peer /\ q # p
  BY PeerFacts DEF TypeOK
<1>2. CASE IdleFinal(p)
  <2>1. self' = [self EXCEPT ![p] = AfterFinal(s)] /\ Final(s) /\ net' = net
    BY <1>2 DEF IdleFinal, Save
  <2>2. NumbersKept(s, AfterFinal(s)) /\ WaitKept(s, AfterFinal(s))
    BY <1>1, <2>1, FinalKept
  <2>3. <<>> \in Seq(Message) /\ DOMAIN <<>> = {}
    OBVIOUS
  <2> QED BY <2>1, <2>2, <2>3, QuietBy
<1>3. CASE IdleNonfinal(p)
  <2> DEFINE upd == AfterUpdates(s)
             num == s.commit_remote.commit_num
             tx == create_to_remote(upd, num + 1)
             n == Cardinality(WillUpdate(s))
             comsig == [type |-> "commitment_signed", tx |-> tx]
             t == AfterSendCommitmentSigned(upd, tx)
  <2>1. num \in Nat /\ upd \in SelfType /\ n \in Nat
    BY <1>1, UpdatesType, WillUpdateFinite DEF SelfType, CommitRemoteType
  <2>2. tx \in CommitTxType /\ tx.num = num + 1
    BY <2>1, CreateToRemoteType DEF create_to_remote
  <2>3. PICK order \in [1 .. n -> WillUpdate(s)] :
          \/ /\ WillComSig(s) /\ ~ComSiging(s)
             /\ Save(p, t)
             /\ net' = Sent(net, p, UpdateMsgs(s, order) \o <<comsig>>)
          \/ /\ Keep(p, upd) /\ net' = Sent(net, p, UpdateMsgs(s, order))
    BY <1>3 DEF IdleNonfinal
  <2> DEFINE ms == UpdateMsgs(s, order)
  <2>4. /\ ms \in Seq(Message)
        /\ \A type \in Exchange : \A k \in DOMAIN ms : ms[k].type # type
    BY <1>1, <2>1, UpdateMsgsType, UpdateMsgsQuiet
  <2>5. comsig \in Message /\ comsig.type = "commitment_signed" /\ comsig.tx.num = num + 1
    BY <2>2, MessageBuilt
  <2>6. NumbersKept(s, upd) /\ WaitKept(s, upd)
    BY <1>1, UpdatesKept
  <2> HIDE DEF ms, comsig, n
  <2>7. CASE Keep(p, upd) /\ net' = Sent(net, p, ms)
    <3>1. /\ net'[p] = net[p]
          /\ net'[q] \in {net[q], net[q] \o ms}
      BY <2>7, Streams
    <3> HIDE DEF upd
    <3> QED BY <2>4, <2>6, <2>7, <3>1, QuietBy DEF Keep
  <2>8. CASE /\ WillComSig(s) /\ ~ComSiging(s)
             /\ Save(p, t) /\ net' = Sent(net, p, ms \o <<comsig>>)
    <3>1. self'[p] = t /\ self'[q] = self[q]
      BY <1>1, <2>8 DEF Save, TypeOK
    <3>2. /\ t.commit_local.commit_num = s.commit_local.commit_num
          /\ t.commit_remote.commit_num = num + 1
          /\ t.commit_remote.revoke_num = s.commit_remote.revoke_num
      <4>1. /\ upd.commit_local = s.commit_local
            /\ upd.commit_remote = s.commit_remote
        BY <1>1 DEF AfterUpdates, SelfType
      <4> HIDE DEF upd, tx
      <4>2. upd.commit_remote \in CommitRemoteType
        BY <2>1 DEF SelfType
      <4>3. /\ t.commit_local = upd.commit_local
            /\ t.commit_remote = [upd.commit_remote EXCEPT
                  !.commit_num = upd.commit_remote.commit_num + 1,
                  !.htlc_num = HtlcNum(tx)]
        BY <2>1 DEF AfterSendCommitmentSigned, SelfType
      <4>4. \A c \in CommitRemoteType : \A j, k :
              /\ [c EXCEPT !.commit_num = j, !.htlc_num = k].commit_num = j
              /\ [c EXCEPT !.commit_num = j, !.htlc_num = k].revoke_num = c.revoke_num
        BY DEF CommitRemoteType
      <4> HIDE DEF t
      <4> QED BY <4>1, <4>2, <4>3, <4>4
    <3>3. AwaitingSlots(s) = {}
      BY <1>1, <2>8 DEF ComSiging, AwaitingSlots, SelfType, HtlcType
    <3>4. AwaitingSlots(t) # {}
      <4>1. PICK i \in Enabled(s) \ WillUpdate(s) :
              \/ LN_HTLC_WILL_COMSIG_OFFER(s.cnl_add_htlc[i])
              \/ LN_HTLC_WILL_COMSIG_RECV(s.cnl_add_htlc[i])
        BY <2>8 DEF WillComSig
      <4> DEFINE h == s.cnl_add_htlc[i]
      <4>2. i \in Slot /\ h \in HtlcType /\ LN_HTLC_ENABLE(h)
        BY <1>1, <4>1, SlotHolds DEF Enabled
      <4>3. upd.cnl_add_htlc[i] = h
        BY <1>1, <4>1, <4>2 DEF AfterUpdates, SelfType
      <4>4. ~h.comsend /\ ~h.revrecv
        <5>1. ~h.comsend
          BY <4>1 DEF LN_HTLC_WILL_COMSIG_OFFER, LN_HTLC_WILL_COMSIG_RECV
        <5>2. ~(h.comsend # h.revrecv)
          BY <2>8, <4>2 DEF ComSiging
        <5>3. h.comsend \in BOOLEAN /\ h.revrecv \in BOOLEAN
          BY <4>2 DEF HtlcType
        <5> QED BY <5>1, <5>2, <5>3
      <4>5. InRemoteExchange(h)
        BY <4>1, <4>2
           DEF InRemoteExchange, LN_HTLC_WILL_COMSIG_OFFER, LN_HTLC_WILL_COMSIG_RECV
      <4> HIDE DEF upd, tx, h
      <4>6. t.cnl_add_htlc[i] = [h EXCEPT !.comsend = TRUE]
        BY <2>1, <4>2, <4>3, <4>5 DEF AfterSendCommitmentSigned, SelfType
      <4>7. t.cnl_add_htlc[i].comsend /\ ~t.cnl_add_htlc[i].revrecv
        BY <4>2, <4>4, <4>6 DEF HtlcType
      <4> QED BY <4>2, <4>7 DEF AwaitingSlots
    <3>5. net'[p] = net[p] /\ net'[q] \in {net[q], net[q] \o (ms \o <<comsig>>)}
      BY <2>8, Streams
    <3>6. ms \o <<comsig>> \in Seq(Message)
      BY <2>4, <2>5
    <3>7. NoNew(p, "commitment_signed") /\ NoNew(p, "revoke_and_ack")
      BY <3>5, ReadNoNew
    <3>8. NoNew(q, "revoke_and_ack")
      <4>1. \A k \in DOMAIN (ms \o <<comsig>>) :
              (ms \o <<comsig>>)[k].type # "revoke_and_ack"
        <5> SUFFICES ASSUME NEW k \in DOMAIN (ms \o <<comsig>>)
                     PROVE  (ms \o <<comsig>>)[k].type # "revoke_and_ack"
          OBVIOUS
        <5>1. \/ k \in DOMAIN ms /\ (ms \o <<comsig>>)[k] = ms[k]
              \/ (ms \o <<comsig>>)[k] = comsig
          BY <2>4, <2>5
        <5> QED BY <2>4, <2>5, <5>1 DEF Exchange
      <4> QED BY <1>1, <3>5, <3>6, <4>1, SendNoNew
    <3>9. \A k \in Carried(q, "commitment_signed")' :
            \/ k \in DOMAIN net[q] /\ net'[q][k] = net[q][k]
            \/ k = Len(net'[q]) /\ net'[q][k].tx.num = num + 1
      <4> SUFFICES ASSUME NEW k \in DOMAIN net'[q],
                          net'[q][k].type = "commitment_signed",
                          ~(k \in DOMAIN net[q] /\ net'[q][k] = net[q][k])
                   PROVE  k = Len(net'[q]) /\ net'[q][k].tx.num = num + 1
        BY DEF Carried
      <4>1. net[q] \in Seq(Message)
        BY <1>1, NumberTypes
      <4>2. net'[q] = net[q] \o (ms \o <<comsig>>)
        BY <3>5
      <4>3. k = Len(net'[q]) /\ net'[q][k] = comsig
        <5> DEFINE b == ms \o <<comsig>>
                   j == k - Len(net[q])
        <5>1. j \in DOMAIN b /\ net'[q][k] = b[j] /\ (j = Len(b) => k = Len(net'[q]))
          <6>1. b \in Seq(Message) /\ net'[q] = net[q] \o b
            BY <3>6, <4>2
          <6> DEFINE a == net[q]
          <6> HIDE DEF b, a
          <6>2. a \in Seq(Message) /\ k \in DOMAIN (a \o b)
            BY <4>1, <6>1 DEF a
          <6>3. \/ k \in DOMAIN a /\ (a \o b)[k] = a[k]
                \/ /\ k - Len(a) \in DOMAIN b /\ (a \o b)[k] = b[k - Len(a)]
                   /\ (k - Len(a) = Len(b) => k = Len(a \o b))
            BY <6>1, <6>2, WhereFrom
          <6> QED BY <6>1, <6>3 DEF a
        <5>2. <<comsig>> \in Seq(Message) /\ DOMAIN <<comsig>> = {1}
              /\ <<comsig>>[1] = comsig /\ Len(<<comsig>>) = 1
          BY <2>5
        <5>3. \/ j \in DOMAIN ms /\ b[j] = ms[j]
              \/ j - Len(ms) = 1 /\ b[j] = comsig
          <6> DEFINE last == <<comsig>>
          <6>1. last \in Seq(Message) /\ DOMAIN last = {1} /\ last[1] = comsig
            BY <5>2
          <6> HIDE DEF last, j
          <6>2. j \in DOMAIN (ms \o last)
            BY <5>1 DEF last
          <6>3. \/ j \in DOMAIN ms /\ (ms \o last)[j] = ms[j]
                \/ j - Len(ms) \in DOMAIN last /\ (ms \o last)[j] = last[j - Len(ms)]
            BY <2>4, <6>1, <6>2, WhereFrom
          <6> QED BY <6>1, <6>3 DEF last
        <5>4. j - Len(ms) = 1 /\ b[j] = comsig
          BY <2>4, <5>1, <5>3 DEF Exchange
        <5>5. Len(b) = Len(ms) + 1 /\ Len(ms) \in Nat
          BY <2>4, <5>2
        <5>6. j \in Int
          BY <5>1, <3>6
        <5> QED BY <5>1, <5>4, <5>5, <5>6
      <4> QED BY <2>5, <4>3
    <3>10. SelfKept(q)
      BY <3>1 DEF SelfKept, Awaiting, NumbersKept
    <3> HIDE DEF t
    <3> QED BY <3>1, <3>2, <3>3, <3>4, <3>7, <3>8, <3>9, <3>10
            DEF SignStep, Awaiting, Commit, Remote
  <2> QED BY <2>3, <2>7, <2>8 DEF ms
<1> QED BY <1>2, <1>3 DEF Idle

\* The two handlers of the exchange.
LEMMA CommitStepExchange ==
    ASSUME TypeOK, NEW p \in Peer, RecvCommitmentSigned(p) \/ RecvRevokeAndAck(p)
    PROVE  QuietStep \/ AcceptStep(p) \/ AckStep(p)
<1> DEFINE s == self[p]
           q == Other(p)
           m == Head(net[p])
<1>1. s \in SelfType /\ q \in Peer /\ q # p
  BY PeerFacts DEF TypeOK
<1>2. CASE RecvCommitmentSigned(p)
  <2> DEFINE num == s.commit_local.commit_num
             revack == [type |-> "revoke_and_ack", num |-> num]
             ms == <<revack>>
             t == AfterCommitmentSigned(s, m.tx)
  <2>1. CASE FailChannel(p)
    BY <2>1, FailQuiet
  <2>2. CASE ~FailChannel(p)
    <3>1. /\ net[p] # <<>> /\ m.type = "commitment_signed"
          /\ Save(p, t) /\ net' = Sent(Read(net, p), p, ms)
      BY <1>2, <2>2 DEF RecvCommitmentSigned, Receiving
    <3>2. num \in Nat
      BY <1>1 DEF SelfType, CommitLocalType
    <3>3. revack \in Message /\ revack.type = "revoke_and_ack" /\ revack.num = num
      BY <3>2, MessageBuilt
    <3> HIDE DEF revack
    <3>4. self'[p] = t /\ self'[q] = self[q]
      BY <1>1, <3>1 DEF Save, TypeOK
    <3>5. /\ t.commit_local.commit_num = num + 1
          /\ t.commit_remote = s.commit_remote
      BY <1>1 DEF AfterCommitmentSigned, SelfType
    <3>6. AwaitingSlots(s) \subseteq AwaitingSlots(t)
      <4> SUFFICES ASSUME NEW i \in Slot, s.cnl_add_htlc[i].comsend,
                          ~s.cnl_add_htlc[i].revrecv
                   PROVE  t.cnl_add_htlc[i].comsend /\ ~t.cnl_add_htlc[i].revrecv
        BY DEF AwaitingSlots
      <4> DEFINE h == s.cnl_add_htlc[i]
      <4>1. h \in HtlcType
        BY <1>1, SlotHolds
      <4>2. \/ t.cnl_add_htlc[i] = h
            \/ t.cnl_add_htlc[i] = [h EXCEPT !.comrecv = TRUE, !.revsend = TRUE]
        BY <1>1 DEF AfterCommitmentSigned, SelfType
      <4> HIDE DEF t
      <4> QED BY <4>1, <4>2 DEF HtlcType
    <3>7. net'[p] = Tail(net[p]) /\ net'[q] \in {net[q], net[q] \o ms}
      BY <3>1, Streams
    <3>8. /\ ms \in Seq(Message) /\ DOMAIN ms = {1}
          /\ ms[1].type = "revoke_and_ack" /\ ms[1].num = num
      BY <3>3
    <3> HIDE DEF ms
    <3>9. NoNew(q, "commitment_signed")
      BY <1>1, <3>7, <3>8, SendNoNew
    <3>10. \A k \in Carried(q, "revoke_and_ack")' :
             \/ k \in DOMAIN net[q] /\ net'[q][k] = net[q][k]
             \/ k = Len(net'[q]) /\ net'[q][k].num = num
      <4> SUFFICES ASSUME NEW k \in DOMAIN net'[q],
                          ~(k \in DOMAIN net[q] /\ net'[q][k] = net[q][k])
                   PROVE  k = Len(net'[q]) /\ net'[q][k].num = num
        BY DEF Carried
      <4>1. net[q] \in Seq(Message)
        BY <1>1, NumberTypes
      <4>2. net'[q] = net[q] \o ms
        BY <3>7
      <4>3. Len(ms) = 1
        BY <3>8
      <4>4. k = Len(net'[q]) /\ net'[q][k] = ms[1]
        <5> DEFINE a == net[q]
        <5>1. a \in Seq(Message) /\ net'[q] = a \o ms
          BY <4>1, <4>2
        <5> HIDE DEF a
        <5>2. k \in DOMAIN (a \o ms)
          BY <5>1
        <5>3. \/ k \in DOMAIN a /\ (a \o ms)[k] = a[k]
              \/ /\ k - Len(a) \in DOMAIN ms /\ (a \o ms)[k] = ms[k - Len(a)]
                 /\ (k - Len(a) = Len(ms) => k = Len(a \o ms))
          BY <3>8, <5>1, <5>2, WhereFrom
        <5> QED BY <3>8, <4>3, <5>1, <5>3 DEF a
      <4> QED BY <3>8, <4>4
    <3>11. SelfKept(q)
      BY <3>4 DEF SelfKept, Awaiting, NumbersKept
    <3> HIDE DEF t, m
    <3>12. AcceptStep(p)
      BY <3>1, <3>4, <3>5, <3>6, <3>7, <3>9, <3>10, <3>11
         DEF AcceptStep, Awaiting, Commit, Remote, m
    <3> QED BY <3>12
  <2> QED BY <2>1, <2>2
<1>3. CASE RecvRevokeAndAck(p)
  <2> DEFINE t == AfterRevokeAndAck(s, m.num)
             c == s.commit_remote.commit_num
  <2>1. /\ net[p] # <<>> /\ m.type = "revoke_and_ack"
        /\ Save(p, t) /\ net' = Read(net, p)
    BY <1>3 DEF RecvRevokeAndAck, Receiving
  <2>2. self'[p] = t /\ self'[q] = self[q]
    BY <1>1, <2>1 DEF Save, TypeOK
  <2>3. /\ t.commit_local = s.commit_local
        /\ t.commit_remote = [s.commit_remote EXCEPT !.revoke_num = c - 1]
    BY <1>1 DEF AfterRevokeAndAck, SelfType
  <2>4. s.commit_remote \in CommitRemoteType
    BY <1>1 DEF SelfType
  <2> HIDE DEF t
  <2>5. t.commit_remote.commit_num = c /\ t.commit_remote.revoke_num = c - 1
    BY <2>3, <2>4 DEF CommitRemoteType
  <2>6. net'[p] = Tail(net[p]) /\ net'[q] = net[q]
    BY <2>1, Streams
  <2>7. SelfKept(q)
    BY <2>2 DEF SelfKept, Awaiting, NumbersKept
  <2>8. AckStep(p)
    BY <2>1, <2>2, <2>3, <2>5, <2>6, <2>7 DEF AckStep, Commit, Remote
  <2> QED BY <2>8
<1> QED BY <1>2, <1>3

----------------------------------------------------------------------------
(* The theorems.                                                           *)

\* Every step of Channel signs, accepts, acknowledges, or is quiet.
LEMMA StepKinds ==
    ASSUME TypeOK, [Next]_vars
    PROVE  ExchangeStep
<1>1. CASE UNCHANGED vars
  <2>1. PICK p : p \in Peer
    BY DEF Peer
  <2> QED BY <1>1, <2>1, QuietStop DEF vars, ExchangeStep
<1>2. ASSUME NEW p \in Peer,
             \/ Offer(p) \/ OtherChannel(p) \/ Idle(p) \/ Receive(p)
             \/ CloseRpc(p) \/ CloseForce(p) \/ PeerGone(p)
      PROVE  ExchangeStep
  <2>1. CASE Idle(p)
    BY <2>1, IdleStepExchange DEF ExchangeStep
  <2>2. CASE RecvCommitmentSigned(p) \/ RecvRevokeAndAck(p)
    BY <2>2, CommitStepExchange DEF ExchangeStep
  <2>3. CASE ~Idle(p) /\ ~RecvCommitmentSigned(p) /\ ~RecvRevokeAndAck(p)
    BY <1>2, <2>3, OfferStepQuiet, UpdateStepQuiet, CloseStepQuiet, ForceStepQuiet
       DEF Receive, ExchangeStep
  <2> QED BY <2>1, <2>2, <2>3
<1> QED BY <1>1, <1>2 DEF Next

\* The strengthened invariant: the numbers of the two ends, the messages of
\* the exchange and the waiting slots fit together (b_comsiging of
\* recv_idle_proc_nonfinal, recv_commitment_signed, recv_revoke_and_ack).
THEOREM ExchangeInvariant == Spec => [](TypeOK /\ ExchangeInv)
<1>1. Init => ExchangeInv
  <2> SUFFICES ASSUME Init, NEW p \in Peer
               PROVE  ExchangePhase(p) /\ SignatureUnderWay(p) /\ AckUnderWay(p)
    BY DEF ExchangeInv
  <2>1. Other(p) \in Peer
    BY PeerFacts
  <2>2. /\ self[p] = InitSelf /\ self[Other(p)] = InitSelf
        /\ net[p] = <<>> /\ net[Other(p)] = <<>>
    BY <2>1 DEF Init
  <2>3. ExchangePhase(p)
    BY <2>2 DEF ExchangePhase, Commit, Remote, InitSelf
  <2>4. SignatureUnderWay(p) /\ AckUnderWay(p)
    BY <2>2 DEF SignatureUnderWay, AckUnderWay, Carried
  <2> QED BY <2>3, <2>4
<1>2. TypeOK /\ TypeOK' /\ ExchangeInv /\ [Next]_vars => ExchangeInv'
  BY StepKinds, QuietKeeps, SignKeeps, AcceptKeeps, AckKeeps DEF ExchangeStep
<1> QED BY <1>1, <1>2, TypeCorrect, PTL DEF Spec

\* The two ends agree on which commitment is next, for every number of slots
\* and HTLCs and however the channel is closed: never two unacknowledged
\* commitment_signed of one end, and a revoke_and_ack reveals the secret of
\* the commitment just replaced.
THEOREM NumbersAgree == Spec => []CommitNumbersAgree
<1>1. TypeOK /\ ExchangeInv => CommitNumbersAgree
  <2> SUFFICES ASSUME TypeOK, ExchangeInv, NEW p \in Peer
               PROVE  LET q == Other(p)
                      IN  /\ Remote(p).commit_num
                                \in {Commit(q).commit_num, Commit(q).commit_num + 1}
                          /\ \A k \in Carried(q, "commitment_signed") :
                                /\ net[q][k].tx.num = Commit(q).commit_num + 1
                                /\ Remote(p).commit_num = Commit(q).commit_num + 1
                          /\ \A k \in Carried(p, "revoke_and_ack") :
                                /\ net[p][k].num = Commit(q).commit_num - 1
                                /\ Remote(p).commit_num = Commit(q).commit_num
                          /\ \A j, k \in Carried(q, "commitment_signed") : j = k
                          /\ \A j, k \in Carried(p, "revoke_and_ack") : j = k
    BY DEF CommitNumbersAgree
  <2>1. ExchangePhase(p) /\ SignatureUnderWay(p) /\ AckUnderWay(p)
    BY DEF ExchangeInv
  <2> QED BY <2>1 DEF ExchangePhase, SignatureUnderWay, AckUnderWay
<1> QED BY <1>1, ExchangeInvariant, PTL

\* Channel implements CommitLockstep: seen as numbers, the handlers and the
\* idle procedure of ln.c only sign, accept and acknowledge in turn.
THEOREM LockstepRefined == Spec => LockstepSpec
<1> DEFINE sgn == [p \in Peer |-> self[p].commit_remote.commit_num]
           acc == [p \in Peer |-> self[p].commit_local.commit_num]
           ack == [p \in Peer |-> self[p].commit_remote.revoke_num + 1]
<1>1. Init => Lockstep!LockstepInit
  BY DEF Init, InitSelf, Lockstep!LockstepInit
<1>2. TypeOK /\ TypeOK' /\ ExchangeInv /\ [Next]_vars
        => [Lockstep!LockstepNext]_(Lockstep!exchange)
  <2> SUFFICES ASSUME TypeOK, TypeOK', ExchangeInv, ExchangeStep
               PROVE  [Lockstep!LockstepNext]_(Lockstep!exchange)
    BY StepKinds
  <2>1. CASE QuietStep
    <3>1. sgn' = sgn /\ acc' = acc /\ ack' = ack
      BY <2>1 DEF QuietStep, SelfKept, NumbersKept
    <3> QED BY <3>1 DEF Lockstep!exchange
  <2>2. ASSUME NEW p \in Peer, SignStep(p)
        PROVE  Lockstep!Sign(p)
    <3> DEFINE q == Other(p)
    <3>1. q \in Peer /\ q # p /\ Peer = {p, q}
      BY PeerFacts DEF Peer, Other
    <3>2. sgn[p] = ack[p]
      <4>1. Remote(p).commit_num = Remote(p).revoke_num + 1
        BY <2>2, <3>1, NotAwaiting, NumberTypes DEF SignStep
      <4> QED BY <4>1 DEF Remote
    <3>3. sgn' = [sgn EXCEPT ![p] = sgn[p] + 1] /\ acc' = acc /\ ack' = ack
      BY <2>2, <3>1 DEF SignStep, SelfKept, NumbersKept, Commit, Remote
    <3> QED BY <3>2, <3>3 DEF Lockstep!Sign
  <2>3. ASSUME NEW p \in Peer, AcceptStep(p)
        PROVE  Lockstep!Accept(p)
    <3> DEFINE q == Other(p)
    <3>1. q \in Peer /\ q # p /\ Peer = {p, q} /\ Other(q) = p
      BY PeerFacts DEF Peer, Other
    <3>2. sgn[q] = acc[p] + 1
      <4>1. 1 \in Carried(p, "commitment_signed") /\ SignatureUnderWay(q)
        BY <2>3, <3>1, HeadCarried DEF AcceptStep, ExchangeInv
      <4>2. Remote(q).commit_num = Commit(p).commit_num + 1
        BY <3>1, <4>1 DEF SignatureUnderWay
      <4> QED BY <3>1, <4>2 DEF Commit, Remote
    <3>3. sgn' = sgn /\ acc' = [acc EXCEPT ![p] = acc[p] + 1] /\ ack' = ack
      BY <2>3, <3>1 DEF AcceptStep, SelfKept, NumbersKept, Commit, Remote
    <3> QED BY <3>1, <3>2, <3>3 DEF Lockstep!Accept
  <2>4. ASSUME NEW p \in Peer, AckStep(p)
        PROVE  Lockstep!Acknowledge(p)
    <3> DEFINE q == Other(p)
    <3>1. q \in Peer /\ q # p /\ Peer = {p, q} /\ Commit(q).commit_num \in Nat
      BY PeerFacts, NumberTypes DEF Peer, Other
    <3>2. /\ Remote(p).commit_num = Commit(q).commit_num
          /\ Remote(p).revoke_num = Commit(q).commit_num - 2
      <4>1. 1 \in Carried(p, "revoke_and_ack") /\ AckUnderWay(p)
        BY <2>4, HeadCarried DEF AckStep, ExchangeInv
      <4> QED BY <4>1 DEF AckUnderWay
    <3>3. acc[q] = ack[p] + 1
      BY <3>1, <3>2 DEF Commit, Remote
    <3>4. Remote(p)'.revoke_num + 1 = (Remote(p).revoke_num + 1) + 1
      BY <2>4, <3>1, <3>2 DEF AckStep
    <3>5. sgn' = sgn /\ acc' = acc /\ ack' = [ack EXCEPT ![p] = ack[p] + 1]
      BY <2>4, <3>1, <3>4 DEF AckStep, SelfKept, NumbersKept, Commit, Remote
    <3> QED BY <3>1, <3>3, <3>5 DEF Lockstep!Acknowledge
  <2> QED BY <2>1, <2>2, <2>3, <2>4 DEF ExchangeStep, Lockstep!LockstepNext
<1> QED BY <1>1, <1>2, ExchangeInvariant, PTL
        DEF Spec, LockstepSpec, Lockstep!LockstepSpec

----------------------------------------------------------------------------
(***************************************************************************)
(* Part 3.  What a channel needs to be closed safely: an end can punish    *)
(* every revoked commitment of its peer (PunishmentReady), a failing       *)
(* handler never broadcasts a revoked commitment (NeverBroadcastRevoked),  *)
(* and the mutual close excludes the commitments (ClosingExclusive).       *)
(*                                                                         *)
(* The argument.  The three rest on one fact about the database: whatever  *)
(* a handler changes of the commitment number, the secrets of the peer,    *)
(* the status and the received shutdown, it saves before it is done        *)
(* (Saved), although it leaves many other fields unsaved.  A commitment    *)
(* broadcast from the database is then the newest one, and no newer one    *)
(* can follow, because the thread that broadcast it has ended.             *)
(***************************************************************************)

----------------------------------------------------------------------------
(* The inductive invariant.                                                *)

\* What of a channel state a unilateral close, a penalty and a mutual close
\* depend on is the same in s and in t.
Alike(s, t) ==
    /\ t.commit_local.commit_num = s.commit_local.commit_num
    /\ t.peer_storage = s.peer_storage
    /\ t.status = s.status
    /\ "RECV" \in t.shutdown_flag <=> "RECV" \in s.shutdown_flag

\* The database is not behind the memory in any of it.
Saved(p) == Alike(self[p], db[p])

\* The secrets on their way to p.
SecretsUnderWay(p) == {net[p][k].num : k \in Carried(p, "revoke_and_ack")}

Punishable(p) ==
    Running(p) =>
        0 .. Commit(Other(p)).commit_num - 1
            \subseteq self[p].peer_storage \cup SecretsUnderWay(p)

\* A commitment is only broadcast by a thread that ends, from an open channel.
LastCommitment(p) ==
    p \notin ForceClosers =>
        /\ rpc[p].stage = "idle"
        /\ \A b \in broadcast[p] :
              b.type = "commit" => /\ ~Running(p)
                                   /\ b.num = Commit(p).commit_num
                                   /\ self[p].status = "NORMAL"

\* What it takes to send, and then to broadcast, a closing transaction.
ShutdownSeen(p) == "RECV" \in self[p].shutdown_flag => self[p].status # "NORMAL"

ClosingOffered(p) ==
    Carried(p, "closing_signed") # {} => self[Other(p)].status # "NORMAL"

ClosingBroadcast(p) ==
    \A b \in broadcast[p] :
        b.type = "closing" => \A r \in Peer : self[r].status # "NORMAL"

CloseInv ==
    \A p \in Peer :
        /\ Saved(p) /\ Punishable(p) /\ LastCommitment(p)
        /\ ShutdownSeen(p) /\ ClosingOffered(p) /\ ClosingBroadcast(p)

----------------------------------------------------------------------------
(* What the functions of ln.c leave alone.                                 *)

\* A state is alike to itself, to what alike states are alike to, and to what
\* ln_db_self_save writes of it.
LEMMA AlikeFacts ==
    ASSUME NEW s \in SelfType, NEW t \in SelfType
    PROVE  /\ Alike(s, s) /\ Alike(s, ln_db_self_save(s))
           /\ Alike(s, t) => Alike(t, s) /\ Alike(s, ln_db_self_save(t))
BY DEF Alike, ln_db_self_save, SelfType

\* The operations on the slots.
LEMMA SlotsAlike ==
    ASSUME NEW s \in SelfType, NEW f
    PROVE  /\ Alike(s, [s EXCEPT !.cnl_add_htlc = f])
           /\ \A i : Alike(s, [s EXCEPT !.cnl_add_htlc[i] = f])
           /\ \A o, n : Alike(s, [s EXCEPT !.cnl_add_htlc = f,
                                           !.paid_out = o, !.paid_in = n])
           /\ \A i, n : Alike(s, [s EXCEPT !.cnl_add_htlc[i] = f,
                                           !.htlc_id_num = n])
           /\ \A r : Alike(s, [s EXCEPT !.cnl_add_htlc = f, !.commit_remote = r])
BY DEF Alike, SelfType

\* Offering an HTLC for a payment of this node or for another channel.
LEMMA OfferAlike ==
    ASSUME NEW s \in SelfType, NEW i \in Slot, NEW amt \in Nat
    PROVE  /\ Alike(s, ln_add_htlc_set(s, i, amt))
           /\ Alike(s, ln_add_htlc_set_fwd(s, i, amt))
           /\ Alike(s, ln_add_htlc_start_fwd(s, i))
<1>1. \A t \in SelfType : Alike(t, ln_add_htlc_start_fwd(t, i))
  BY SlotsAlike DEF ln_add_htlc_start_fwd
<1>2. Alike(s, set_add_htlc(s, i, amt))
  BY SlotsAlike DEF set_add_htlc
<1>3. set_add_htlc(s, i, amt) \in SelfType
  BY OfferType DEF ln_add_htlc_set_fwd
<1>4. ln_add_htlc_set(s, i, amt) = ln_add_htlc_start_fwd(set_add_htlc(s, i, amt), i)
  BY DEF ln_add_htlc_set, ln_add_htlc_start_fwd
<1>5. Alike(s, ln_add_htlc_set(s, i, amt))
  BY <1>1, <1>2, <1>3, <1>4 DEF Alike
<1> QED BY <1>1, <1>2, <1>5 DEF ln_add_htlc_set_fwd

\* Accepting and deleting an HTLC.
LEMMA DeleteAlike ==
    ASSUME NEW s \in SelfType, NEW i \in Slot, NEW id, NEW del, NEW m, NEW fate
    PROVE  /\ Alike(s, AcceptAddHtlc(s, i, m, fate))
           /\ Alike(s, ln_fulfill_htlc_set(s, i))
           /\ Alike(s, ln_fail_htlc_set(s, i))
           /\ Alike(s, DelOffered(s, id, del))
<1>1. Alike(s, AcceptAddHtlc(s, i, m, fate))
  BY SlotsAlike DEF AcceptAddHtlc
<1>2. Alike(s, ln_fulfill_htlc_set(s, i))
  BY SlotsAlike DEF ln_fulfill_htlc_set, DelHtlcIn
<1>3. Alike(s, ln_fail_htlc_set(s, i))
  BY DEF ln_fail_htlc_set, DelHtlcIn, Alike, SelfType
<1>4. Alike(s, DelOffered(s, id, del))
  BY SlotsAlike DEF DelOffered
<1> QED BY <1>1, <1>2, <1>3, <1>4

\* The idle procedure.
LEMMA IdleAlike ==
    ASSUME NEW s \in SelfType, NEW tx
    PROVE  /\ Alike(s, AfterFinal(s))
           /\ Alike(s, AfterUpdates(s))
           /\ Alike(s, AfterSendCommitmentSigned(s, tx))
<1>1. Alike(s, AfterFinal(s))
  BY SlotsAlike DEF AfterFinal
<1>2. Alike(s, AfterUpdates(s))
  BY SlotsAlike DEF AfterUpdates
<1>3. Alike(s, AfterSendCommitmentSigned(s, tx))
  BY SlotsAlike DEF AfterSendCommitmentSigned
<1> QED BY <1>1, <1>2, <1>3

----------------------------------------------------------------------------
(* What the actions do to the streams.                                     *)

\* No secret on its way to p is lost, and p gets no closing_signed.
StreamKept(p) ==
    /\ SecretsUnderWay(p) \subseteq SecretsUnderWay(p)'
    /\ Carried(p, "closing_signed")' # {} => Carried(p, "closing_signed") # {}

\* Where the first of the appended messages is.
LEMMA FirstSent ==
    ASSUME NEW a \in Seq(Message), NEW ms \in Seq(Message), 1 \in DOMAIN ms
    PROVE  Len(a) + 1 \in DOMAIN (a \o ms) /\ (a \o ms)[Len(a) + 1] = ms[1]
<1>1. Len(a) \in Nat /\ Len(ms) \in Nat \ {0} /\ Len(a \o ms) = Len(a) + Len(ms)
  OBVIOUS
<1>2. a \o ms \in Seq(Message)
  OBVIOUS
<1>3. Len(a) + 1 \in 1 .. Len(a \o ms)
  BY <1>1
<1>4. Len(a) + 1 \in DOMAIN (a \o ms)
  BY <1>2, <1>3
<1>5. (a \o ms)[Len(a) + 1] = ms[(Len(a) + 1) - Len(a)]
  BY <1>1, <1>3
<1>6. (Len(a) + 1) - Len(a) = 1
  BY <1>1
<1> QED BY <1>4, <1>5, <1>6

\* Messages that are appended hide none of the earlier ones.
LEMMA SentKeepsSecrets ==
    ASSUME TypeOK, NEW p \in Peer, NEW ms \in Seq(Message),
           net'[p] \in {net[p], net[p] \o ms}
    PROVE  SecretsUnderWay(p) \subseteq SecretsUnderWay(p)'
<1> SUFFICES ASSUME NEW k \in Carried(p, "revoke_and_ack")
             PROVE  k \in Carried(p, "revoke_and_ack")' /\ net'[p][k] = net[p][k]
  BY DEF SecretsUnderWay
<1>1. net[p] \in Seq(Message) /\ k \in DOMAIN net[p]
  BY NumberTypes DEF Carried
<1>2. CASE net'[p] = net[p]
  BY <1>2 DEF Carried
<1>3. CASE net'[p] = net[p] \o ms
  <2> DEFINE a == net[p]
  <2>1. a \in Seq(Message) /\ k \in DOMAIN a
    BY <1>1
  <2>2. k \in DOMAIN (a \o ms) /\ (a \o ms)[k] = a[k]
    <3> HIDE DEF a
    <3>1. DOMAIN a = 1 .. Len(a) /\ Len(a) \in Nat /\ Len(ms) \in Nat
      BY <2>1
    <3>2. DOMAIN (a \o ms) = 1 .. Len(a) + Len(ms)
      BY <2>1
    <3> QED BY <2>1, <3>1, <3>2
  <2> QED BY <1>3, <2>2 DEF Carried
<1> QED BY <1>2, <1>3

\* Reading a message of another type loses no secret.
LEMMA ReadKeepsSecrets ==
    ASSUME TypeOK, NEW p \in Peer, net[p] # <<>>, net'[p] = Tail(net[p])
    PROVE  SecretsUnderWay(p) \subseteq
             SecretsUnderWay(p)' \cup
               (IF Head(net[p]).type = "revoke_and_ack" THEN {Head(net[p]).num} ELSE {})
<1> SUFFICES ASSUME NEW k \in Carried(p, "revoke_and_ack")
             PROVE  \/ /\ Head(net[p]).type = "revoke_and_ack"
                       /\ net[p][k] = Head(net[p])
                    \/ \E j \in Carried(p, "revoke_and_ack")' : net'[p][j] = net[p][k]
  BY DEF SecretsUnderWay
<1>1. net[p] \in Seq(Message) /\ k \in DOMAIN net[p] /\ net[p][k].type = "revoke_and_ack"
  BY NumberTypes DEF Carried
<1>2. CASE k = 1
  BY <1>1, <1>2
<1>3. CASE k # 1
  <2>1. k - 1 \in DOMAIN Tail(net[p]) /\ Tail(net[p])[k - 1] = net[p][k]
    BY <1>1, <1>3
  <2> QED BY <1>1, <2>1 DEF Carried
<1> QED BY <1>2, <1>3

\* A handler of another message than revoke_and_ack that sends something else
\* than closing_signed keeps both streams.
LEMMA StreamsKept ==
    ASSUME TypeOK, NEW p \in Peer, NEW ms \in Seq(Message),
           \A k \in DOMAIN ms : ms[k].type # "closing_signed",
           \/ net'[p] = net[p]
           \/ /\ net[p] # <<>> /\ Head(net[p]).type # "revoke_and_ack"
              /\ net'[p] = Tail(net[p]),
           net'[Other(p)] \in {net[Other(p)], net[Other(p)] \o ms}
    PROVE  StreamKept(p) /\ StreamKept(Other(p))
<1>1. Other(p) \in Peer
  BY PeerFacts
<1>2. StreamKept(p)
  <2>1. SecretsUnderWay(p) \subseteq SecretsUnderWay(p)'
    BY ReadKeepsSecrets DEF SecretsUnderWay, Carried
  <2>2. NoNew(p, "closing_signed")
    BY ReadNoNew
  <2> QED BY <2>1, <2>2, NoNewCarried DEF StreamKept
<1>3. StreamKept(Other(p))
  <2>1. NoNew(Other(p), "closing_signed")
    BY <1>1, SendNoNew
  <2> QED BY <1>1, <2>1, SentKeepsSecrets, NoNewCarried DEF StreamKept
<1> QED BY <1>2, <1>3

----------------------------------------------------------------------------
(* Steps that touch nothing the invariant is about.                        *)

WorkStep ==
    /\ \A p \in Peer : /\ Alike(self[p], self'[p])
                       /\ Alike(db[p], db'[p]) \/ Alike(self'[p], db'[p])
                       /\ StreamKept(p)
    /\ UNCHANGED <<thread, broadcast, rpc>>

\* They preserve the invariant.
LEMMA WorkKeeps ==
    ASSUME TypeOK, CloseInv, WorkStep
    PROVE  CloseInv'
<1> SUFFICES ASSUME NEW p \in Peer
             PROVE  /\ Saved(p)' /\ Punishable(p)' /\ LastCommitment(p)'
                    /\ ShutdownSeen(p)' /\ ClosingOffered(p)' /\ ClosingBroadcast(p)'
  BY DEF CloseInv
<1>1. Other(p) \in Peer
  BY PeerFacts
<1>2. /\ Saved(p) /\ Punishable(p) /\ LastCommitment(p)
      /\ ShutdownSeen(p) /\ ClosingOffered(p) /\ ClosingBroadcast(p)
  BY DEF CloseInv
<1>3. /\ \A r \in Peer : Alike(self[r], self'[r]) /\ StreamKept(r)
      /\ Alike(db[p], db'[p]) \/ Alike(self'[p], db'[p])
      /\ thread' = thread /\ broadcast' = broadcast /\ rpc' = rpc
  BY DEF WorkStep
<1>4. Saved(p)'
  BY <1>2, <1>3 DEF Saved, Alike
<1>5. Punishable(p)'
  BY <1>1, <1>2, <1>3 DEF Punishable, Alike, StreamKept, Running, Commit
<1>6. LastCommitment(p)'
  BY <1>2, <1>3 DEF LastCommitment, Alike, Running, Commit
<1>7. ShutdownSeen(p)'
  BY <1>2, <1>3 DEF ShutdownSeen, Alike
<1>8. ClosingOffered(p)'
  BY <1>1, <1>2, <1>3 DEF ClosingOffered, Alike, StreamKept
<1>9. ClosingBroadcast(p)'
  BY <1>2, <1>3 DEF ClosingBroadcast, Alike
<1> QED BY <1>4, <1>5, <1>6, <1>7, <1>8, <1>9

\* The form the actions below take.
LEMMA WorkBy ==
    ASSUME TypeOK, NEW p \in Peer, NEW t \in SelfType, NEW ms \in Seq(Message),
           Alike(self[p], t), self' = [self EXCEPT ![p] = t],
           db' = db \/ db' = [db EXCEPT ![p] = ln_db_self_save(t)],
           UNCHANGED <<thread, broadcast, rpc>>,
           \A k \in DOMAIN ms : ms[k].type # "closing_signed",
           \/ net'[p] = net[p]
           \/ /\ net[p] # <<>> /\ Head(net[p]).type # "revoke_and_ack"
              /\ net'[p] = Tail(net[p]),
           net'[Other(p)] \in {net[Other(p)], net[Other(p)] \o ms}
    PROVE  WorkStep
<1>1. StreamKept(p) /\ StreamKept(Other(p)) /\ Peer = {p, Other(p)} /\ Other(p) # p
  BY StreamsKept, PeerFacts DEF Peer, Other
<1>2. self'[p] = t /\ self'[Other(p)] = self[Other(p)]
  BY <1>1, PeerFacts DEF TypeOK
<1>3. db'[p] \in {db[p], ln_db_self_save(t)} /\ db'[Other(p)] = db[Other(p)]
  BY <1>1, PeerFacts DEF TypeOK
<1>4. /\ Alike(t, ln_db_self_save(t))
      /\ \A r \in Peer : Alike(self[r], self[r]) /\ Alike(db[r], db[r])
  BY AlikeFacts DEF TypeOK
<1>5. \A r \in Peer : r = p \/ r = Other(p)
  BY <1>1
<1>6. /\ Alike(self[p], self'[p])
      /\ Alike(db[p], db'[p]) \/ Alike(self'[p], db'[p])
  BY <1>2, <1>3, <1>4
<1>7. /\ Alike(self[Other(p)], self'[Other(p)])
      /\ Alike(db[Other(p)], db'[Other(p)])
  BY <1>2, <1>3, <1>4, PeerFacts
<1> QED BY <1>1, <1>5, <1>6, <1>7 DEF WorkStep

\* Payments and the callers of other channels.
LEMMA OfferStepWorks ==
    ASSUME TypeOK, NEW p \in Peer, Offer(p) \/ OtherChannel(p)
    PROVE  WorkStep
<1>1. self[p] \in SelfType
  BY DEF TypeOK
<1>2. net' = net /\ UNCHANGED <<thread, broadcast, rpc>>
  BY DEF Offer, OtherChannel, Pay, FwdAdd, FwdStart, FulfillBackwind, FailBackwind,
         Environment
<1>3. <<>> \in Seq(Message) /\ DOMAIN <<>> = {}
  OBVIOUS
<1>4. ASSUME NEW t \in SelfType, self' = [self EXCEPT ![p] = t], Alike(self[p], t),
             db' = db \/ db' = [db EXCEPT ![p] = ln_db_self_save(t)]
      PROVE  WorkStep
  BY <1>2, <1>3, <1>4, WorkBy
<1>5. ASSUME NEW amt \in Amounts, Pay(p, amt) \/ FwdAdd(p, amt)
      PROVE  WorkStep
  <2>1. amt \in Nat
    BY ParameterAssumption
  <2>2. PICK i \in Slot : \/ Keep(p, ln_add_htlc_set(self[p], i, amt))
                          \/ Keep(p, ln_add_htlc_set_fwd(self[p], i, amt))
    BY <1>5 DEF Pay, FwdAdd
  <2>3. db' = db
    BY <1>5 DEF Pay, FwdAdd
  <2> QED BY <1>1, <1>4, <2>1, <2>2, <2>3, OfferAlike, OfferType DEF Keep
<1>6. ASSUME NEW i \in Slot, FwdStart(p, i)
      PROVE  WorkStep
  BY <1>1, <1>4, <1>6, OfferAlike, OfferType, 0 \in Nat DEF FwdStart, Keep
<1>7. ASSUME NEW i \in Slot, FulfillBackwind(p, i)
      PROVE  WorkStep
  BY <1>1, <1>4, <1>7, DeleteAlike, DeleteType, "FAIL" \in DelHtlc
     DEF FulfillBackwind, Save, DelHtlc
<1>8. ASSUME NEW i \in Slot, FailBackwind(p, i)
      PROVE  WorkStep
  BY <1>1, <1>4, <1>8, DeleteAlike, DeleteType, "FAIL" \in DelHtlc
     DEF FailBackwind, Keep, DelHtlc
<1> QED BY <1>5, <1>6, <1>7, <1>8 DEF Offer, OtherChannel

\* The handlers of update messages, when they accept the message.
LEMMA UpdateStepWorks ==
    ASSUME TypeOK, NEW p \in Peer,
           \/ RecvAddHtlc(p) \/ RecvFulfillHtlc(p)
           \/ RecvFailHtlc(p) \/ RecvFailMalformedHtlc(p)
    PROVE  WorkStep \/ FailChannel(p)
<1> SUFFICES ASSUME ~FailChannel(p)
             PROVE  WorkStep
  OBVIOUS
<1>1. self[p] \in SelfType
  BY DEF TypeOK
<1>2. <<>> \in Seq(Message) /\ DOMAIN <<>> = {}
  OBVIOUS
<1>3. ASSUME NEW t \in SelfType, self' = [self EXCEPT ![p] = t], db' = db,
             Alike(self[p], t), UNCHANGED Environment,
             net[p] # <<>>, Head(net[p]).type # "revoke_and_ack", net' = Read(net, p)
      PROVE  WorkStep
  <2>1. net'[p] = Tail(net[p]) /\ net'[Other(p)] = net[Other(p)]
    BY <1>3, Streams
  <2> QED BY <1>2, <1>3, <2>1, WorkBy DEF Environment
<1>4. CASE RecvAddHtlc(p)
  <2>1. PICK i \in Slot, fate \in Fates :
          Keep(p, AcceptAddHtlc(self[p], i, Head(net[p]), fate))
    BY <1>4 DEF RecvAddHtlc
  <2>2. /\ net[p] # <<>> /\ Head(net[p]).type = "update_add_htlc"
        /\ net' = Read(net, p) /\ db' = db /\ UNCHANGED Environment
    BY <1>4 DEF RecvAddHtlc, Receiving
  <2>3. Head(net[p]) \in Message /\ fate \in Fate
    BY <2>2, StreamType, ParameterAssumption DEF TypeOK
  <2> QED BY <1>1, <1>3, <2>1, <2>2, <2>3, DeleteAlike, AcceptType, MessageFields DEF Keep
<1>5. ASSUME NEW type \in UpdateType, NEW del \in DelHtlc, RecvDelHtlc(p, type, del)
      PROVE  WorkStep
  <2>1. /\ Keep(p, DelOffered(self[p], Head(net[p]).id, del))
        /\ net[p] # <<>> /\ net' = Read(net, p) /\ db' = db /\ UNCHANGED Environment
        /\ Head(net[p]).type # "revoke_and_ack"
    BY <1>5 DEF RecvDelHtlc, Receiving, UpdateType
  <2>2. 0 \in Slot
    BY HtlcMaxAssumption DEF Slot
  <2>3. /\ DelOffered(self[p], Head(net[p]).id, del) \in SelfType
        /\ Alike(self[p], DelOffered(self[p], Head(net[p]).id, del))
    BY <1>1, <2>2, DeleteAlike, DeleteType
  <2> QED BY <1>3, <2>1, <2>3 DEF Keep
<1> QED BY <1>4, <1>5 DEF RecvFulfillHtlc, RecvFailHtlc, RecvFailMalformedHtlc,
                         UpdateType, DelHtlc

\* The idle procedure.
LEMMA IdleStepWorks ==
    ASSUME TypeOK, NEW p \in Peer, Idle(p)
    PROVE  WorkStep
<1> DEFINE s == self[p]
           q == Other(p)
<1>1. s \in SelfType /\ q \in Peer /\ q # p
  BY PeerFacts DEF TypeOK
<1>2. CASE IdleFinal(p)
  <2>1. Save(p, AfterFinal(s)) /\ net' = net /\ UNCHANGED <<thread, broadcast, rpc>>
    BY <1>2 DEF IdleFinal, Environment
  <2>2. AfterFinal(s) \in SelfType /\ Alike(s, AfterFinal(s))
    BY <1>1, FinalType, IdleAlike
  <2>3. <<>> \in Seq(Message) /\ DOMAIN <<>> = {}
    OBVIOUS
  <2> QED BY <2>1, <2>2, <2>3, WorkBy DEF Save
<1>3. CASE IdleNonfinal(p)
  <2> DEFINE upd == AfterUpdates(s)
             num == s.commit_remote.commit_num
             tx == create_to_remote(upd, num + 1)
             n == Cardinality(WillUpdate(s))
             comsig == [type |-> "commitment_signed", tx |-> tx]
             t == AfterSendCommitmentSigned(upd, tx)
  <2>1. num \in Nat /\ upd \in SelfType /\ n \in Nat
    BY <1>1, UpdatesType, WillUpdateFinite DEF SelfType, CommitRemoteType
  <2>2. tx \in CommitTxType /\ HtlcNum(tx) \in Nat
    BY <2>1, CreateToRemoteType
  <2>3. PICK order \in [1 .. n -> WillUpdate(s)] :
          \/ Save(p, t) /\ net' = Sent(net, p, UpdateMsgs(s, order) \o <<comsig>>)
          \/ Keep(p, upd) /\ db' = db /\ net' = Sent(net, p, UpdateMsgs(s, order))
    BY <1>3 DEF IdleNonfinal
  <2> DEFINE ms == UpdateMsgs(s, order)
  <2>4. /\ ms \in Seq(Message)
        /\ \A k \in DOMAIN ms : ms[k].type # "closing_signed"
    BY <1>1, <2>1, UpdateMsgsType DEF UpdateMsgs, UpdateMsg
  <2>5. comsig \in Message /\ comsig.type = "commitment_signed"
    BY <2>2, MessageBuilt
  <2>6. Alike(s, upd) /\ t \in SelfType /\ Alike(s, t)
    <3>1. Alike(s, upd)
      BY <1>1, IdleAlike
    <3> HIDE DEF upd, tx
    <3>2. t \in SelfType /\ Alike(upd, t)
      BY <2>1, <2>2, SendCommitmentType, IdleAlike
    <3> HIDE DEF t
    <3> QED BY <3>1, <3>2 DEF Alike
  <2>7. UNCHANGED <<thread, broadcast, rpc>>
    BY <1>3 DEF IdleNonfinal, Environment
  <2> HIDE DEF ms, comsig, n, upd, t
  <2>8. CASE Keep(p, upd) /\ db' = db /\ net' = Sent(net, p, ms)
    <3>1. /\ net'[p] = net[p]
          /\ net'[q] \in {net[q], net[q] \o ms}
      BY <2>8, Streams
    <3> QED BY <2>1, <2>4, <2>6, <2>7, <2>8, <3>1, WorkBy DEF Keep
  <2>9. CASE Save(p, t) /\ net' = Sent(net, p, ms \o <<comsig>>)
    <3> DEFINE all == ms \o <<comsig>>
    <3>1. all \in Seq(Message) /\ \A k \in DOMAIN all : all[k].type # "closing_signed"
      <4>1. all \in Seq(Message)
        BY <2>4, <2>5
      <4>2. \A k \in DOMAIN all : \/ k \in DOMAIN ms /\ all[k] = ms[k]
                                  \/ all[k] = comsig
        BY <2>4, <2>5
      <4> QED BY <2>4, <2>5, <4>1, <4>2
    <3> HIDE DEF all
    <3>2. net'[p] = net[p] /\ net'[q] \in {net[q], net[q] \o all}
      BY <2>9, Streams DEF all
    <3> QED BY <2>6, <2>7, <2>9, <3>1, <3>2, WorkBy DEF Save
  <2> QED BY <2>3, <2>8, <2>9 DEF ms, t, upd, comsig, n
<1> QED BY <1>2, <1>3 DEF Idle

\* A request for a mutual close: the shutdown it sends is not yet an answer.
LEMMA CloseRpcWorks ==
    ASSUME TypeOK, NEW p \in Peer, CloseRpc(p)
    PROVE  WorkStep
<1> DEFINE s == self[p]
           ms == <<[type |-> "shutdown"]>>
<1>1. s \in SelfType
  BY DEF TypeOK
<1>2. SendShutdown(s) \in SelfType /\ Alike(s, SendShutdown(s))
  BY <1>1, CloseType DEF SendShutdown, Alike, SelfType
<1>3. ms \in Seq(Message) /\ \A k \in DOMAIN ms : ms[k].type # "closing_signed"
  BY MessageBuilt
<1> HIDE DEF ms
<1>4. net'[p] = net[p] /\ net'[Other(p)] \in {net[Other(p)], net[Other(p)] \o ms}
  BY Streams DEF CloseRpc, ms
<1>5. Save(p, SendShutdown(s)) /\ UNCHANGED <<thread, broadcast, rpc>>
  BY DEF CloseRpc
<1> QED BY <1>2, <1>3, <1>4, <1>5, WorkBy DEF Save

----------------------------------------------------------------------------
(* Steps that end the receive thread, and the unilateral close request.    *)

\* A thread that ends, with or without a unilateral close from the database.
LEMMA StopKeeps ==
    ASSUME TypeOK, CloseInv, NEW p \in Peer, NEW how, how # "run", Stop(p, how),
           UNCHANGED <<self, db, rpc>>,
           broadcast' \in {broadcast, UnilateralClose(p, db[p])}
    PROVE  CloseInv'
<1> DEFINE q == Other(p)
           commit == [type |-> "commit", num |-> db[p].commit_local.commit_num]
<1>1. q \in Peer /\ q # p /\ Peer = {p, q} /\ Other(q) = p
  BY PeerFacts DEF Peer, Other
<1>2. /\ net'[q] = net[q] /\ net'[p] = <<>>
      /\ thread'[q] = thread[q] /\ thread'[p] # "run"
  BY <1>1 DEF Stop, TypeOK
<1>3. \A r \in Peer : /\ Saved(r) /\ Punishable(r) /\ LastCommitment(r)
                      /\ ShutdownSeen(r) /\ ClosingOffered(r) /\ ClosingBroadcast(r)
  BY DEF CloseInv
<1>4. \A type : Carried(p, type)' = {} /\ Carried(q, type)' = Carried(q, type)
  BY <1>2 DEF Carried
<1>5. /\ broadcast'[q] = broadcast[q]
      /\ \/ broadcast'[p] = broadcast[p]
         \/ /\ broadcast'[p] = broadcast[p] \cup {commit}
            /\ db[p].status = "NORMAL"
  BY <1>1 DEF UnilateralClose, ln_status_is_closing, TypeOK
<1>6. \A r \in Peer : Saved(r)' /\ ShutdownSeen(r)'
  BY <1>3 DEF Saved, ShutdownSeen
<1>7. Punishable(p)' /\ ClosingOffered(p)'
  BY <1>2, <1>4 DEF Punishable, ClosingOffered, Running
<1>8. Punishable(q)' /\ ClosingOffered(q)'
  BY <1>1, <1>2, <1>3, <1>4
     DEF Punishable, ClosingOffered, Running, SecretsUnderWay, Commit
<1>9. LastCommitment(q)' /\ ClosingBroadcast(q)'
  BY <1>1, <1>2, <1>3, <1>5 DEF LastCommitment, ClosingBroadcast, Running, Commit
<1>10. LastCommitment(p)'
  BY <1>2, <1>3, <1>5 DEF LastCommitment, Saved, Alike, Running, Commit
<1>11. ClosingBroadcast(p)'
  BY <1>3, <1>5 DEF ClosingBroadcast
<1> QED BY <1>1, <1>6, <1>7, <1>8, <1>9, <1>10, <1>11 DEF CloseInv

\* A handler that fails.
LEMMA FailKeeps ==
    ASSUME TypeOK, CloseInv, NEW p \in Peer, FailChannel(p)
    PROVE  CloseInv'
BY StopKeeps DEF FailChannel

\* The request of a unilateral close, and the connection that goes down.
LEMMA ForceKeeps ==
    ASSUME TypeOK, CloseInv, NEW p \in Peer, CloseForce(p) \/ PeerGone(p)
    PROVE  CloseInv'
<1> DEFINE q == Other(p)
<1>1. q \in Peer /\ q # p /\ Peer = {p, q} /\ Other(q) = p
  BY PeerFacts DEF Peer, Other
<1>2. CASE PeerGone(p)
  BY <1>2, StopKeeps DEF PeerGone
<1>3. CASE CloseForce(p)
  <2>1. \A r \in Peer : /\ Saved(r) /\ Punishable(r) /\ LastCommitment(r)
                        /\ ShutdownSeen(r) /\ ClosingOffered(r) /\ ClosingBroadcast(r)
    BY DEF CloseInv
  <2>2. p \in ForceClosers
    BY <1>3, <2>1 DEF CloseForce, ForceLoad, ForceBroadcast, ForceStop, LastCommitment
  <2>3. /\ self' = self /\ db' = db
        /\ rpc'[q] = rpc[q]
    BY <1>1, <1>3 DEF CloseForce, ForceLoad, ForceBroadcast, ForceStop, TypeOK
  <2>4. /\ broadcast'[q] = broadcast[q]
        /\ \A b \in broadcast'[p] : b \in broadcast[p] \/ b.type = "commit"
    <3>1. broadcast' \in {broadcast, UnilateralClose(p, rpc[p].loaded)}
      BY <1>3 DEF CloseForce, ForceLoad, ForceBroadcast, ForceStop
    <3> QED BY <1>1, <3>1 DEF UnilateralClose, TypeOK
  <2>5. \/ net' = net /\ thread' = thread
        \/ Stop(p, "stopped")
    BY <1>3 DEF CloseForce, ForceLoad, ForceBroadcast, ForceStop
  <2>6. /\ net'[q] = net[q] /\ thread'[q] = thread[q]
        /\ net'[p] \in {net[p], <<>>}
        /\ thread'[p] = "run" => thread[p] = "run" /\ net'[p] = net[p]
    BY <1>1, <2>5 DEF Stop, TypeOK
  <2>7. \A r \in Peer : Saved(r)' /\ ShutdownSeen(r)'
    BY <2>1, <2>3 DEF Saved, ShutdownSeen
  <2>8. \A r \in Peer : ClosingOffered(r)'
    BY <1>1, <2>1, <2>3, <2>6 DEF ClosingOffered, Carried
  <2>9. \A r \in Peer : Punishable(r)'
    BY <1>1, <2>1, <2>3, <2>6
       DEF Punishable, Running, SecretsUnderWay, Carried, Commit
  <2>10. \A r \in Peer : LastCommitment(r)'
    BY <1>1, <2>1, <2>2, <2>3, <2>4, <2>6 DEF LastCommitment, Running, Commit
  <2>11. \A r \in Peer : ClosingBroadcast(r)'
    BY <1>1, <2>1, <2>3, <2>4 DEF ClosingBroadcast
  <2> QED BY <2>7, <2>8, <2>9, <2>10, <2>11 DEF CloseInv
<1> QED BY <1>2, <1>3

----------------------------------------------------------------------------
(* The handlers of the exchange.                                           *)

\* recv_commitment_signed reveals the secret of the commitment it replaces,
\* and saves: the peer gets the secret, unless it is gone.
LEMMA AcceptedKeeps ==
    ASSUME TypeOK, TypeOK', CloseInv, NEW p \in Peer, RecvCommitmentSigned(p)
    PROVE  CloseInv'
<1> DEFINE q == Other(p)
           s == self[p]
           m == Head(net[p])
           num == s.commit_local.commit_num
           revack == [type |-> "revoke_and_ack", num |-> num]
           ms == <<revack>>
           t == AfterCommitmentSigned(s, m.tx)
<1> SUFFICES ASSUME ~FailChannel(p)
             PROVE  CloseInv'
  BY FailKeeps
<1>1. q \in Peer /\ q # p /\ Peer = {p, q} /\ Other(q) = p /\ s \in SelfType
  BY PeerFacts DEF Peer, Other, TypeOK
<1>2. /\ Running(p) /\ net[p] # <<>> /\ m.type = "commitment_signed"
      /\ Save(p, t) /\ net' = Sent(Read(net, p), p, ms)
      /\ UNCHANGED <<thread, broadcast, rpc>>
  BY DEF RecvCommitmentSigned, Receiving, Environment
<1>3. num \in Nat
  BY <1>1 DEF SelfType, CommitLocalType
<1>4. ms \in Seq(Message) /\ DOMAIN ms = {1} /\ ms[1] = revack /\ Len(ms) = 1
  BY <1>3, MessageBuilt
<1>5. revack.type = "revoke_and_ack" /\ revack.num = num
  OBVIOUS
<1>6. /\ self'[p] = t /\ self'[q] = self[q]
      /\ db'[p] = ln_db_self_save(t) /\ db'[q] = db[q]
  BY <1>1, <1>2 DEF Save, TypeOK
<1>7. /\ t.commit_local.commit_num = num + 1
      /\ t.peer_storage = s.peer_storage /\ t.status = s.status
      /\ t.shutdown_flag = s.shutdown_flag
      /\ t \in SelfType
  <2>1. t \in SelfType
    BY <1>6, <1>1 DEF TypeOK
  <2> QED BY <1>1, <2>1 DEF AfterCommitmentSigned, SelfType
<1>8. net'[p] = Tail(net[p]) /\ net'[q] \in {net[q], net[q] \o ms}
  BY <1>2, Streams
<1>9. Running(q) => net'[q] = net[q] \o ms
  BY <1>1, <1>2 DEF Sent, Read, TypeOK
<1> HIDE DEF t, ms, revack, m
<1>10. StreamKept(p) /\ StreamKept(q)
  BY <1>2, <1>4, <1>5, <1>8, StreamsKept DEF m
<1>11. Running(q) => num \in SecretsUnderWay(q)'
  <2> SUFFICES ASSUME Running(q) PROVE num \in SecretsUnderWay(q)'
    OBVIOUS
  <2> DEFINE a == net[q]
             k == Len(a) + 1
  <2>1. a \in Seq(Message) /\ net'[q] = a \o ms
    BY <1>1, <1>9, NumberTypes
  <2> HIDE DEF a
  <2>2. k \in DOMAIN (a \o ms) /\ (a \o ms)[k] = ms[1]
    BY <1>4, <2>1, FirstSent
  <2>3. k \in Carried(q, "revoke_and_ack")' /\ net'[q][k].num = num
    BY <1>4, <1>5, <2>1, <2>2 DEF Carried
  <2> QED BY <2>3 DEF SecretsUnderWay
<1>12. \A r \in Peer : /\ Saved(r) /\ Punishable(r) /\ LastCommitment(r)
                       /\ ShutdownSeen(r) /\ ClosingOffered(r) /\ ClosingBroadcast(r)
  BY DEF CloseInv
<1>13. \A r \in Peer : Saved(r)'
  BY <1>1, <1>6, <1>7, <1>12, AlikeFacts DEF Saved
<1>14. Punishable(p)'
  BY <1>1, <1>2, <1>6, <1>7, <1>10, <1>12
     DEF Punishable, StreamKept, Running, Commit
<1>15. Punishable(q)'
  <2>1. \A n \in 0 .. (num + 1) - 1 : n = num \/ n \in 0 .. num - 1
    BY <1>3
  <2> QED BY <1>1, <1>2, <1>6, <1>7, <1>10, <1>11, <1>12, <2>1
          DEF Punishable, StreamKept, Running, Commit
<1>16. \A r \in Peer : LastCommitment(r)'
  BY <1>1, <1>2, <1>6, <1>7, <1>12 DEF LastCommitment, Running, Commit
<1>17. \A r \in Peer : ShutdownSeen(r)' /\ ClosingBroadcast(r)'
  BY <1>1, <1>2, <1>6, <1>7, <1>12 DEF ShutdownSeen, ClosingBroadcast
<1>18. \A r \in Peer : ClosingOffered(r)'
  BY <1>1, <1>6, <1>7, <1>10, <1>12 DEF ClosingOffered, StreamKept
<1> QED BY <1>1, <1>13, <1>14, <1>15, <1>16, <1>17, <1>18 DEF CloseInv

\* recv_revoke_and_ack stores the secret it reads, and saves.
LEMMA RevokedKeeps ==
    ASSUME TypeOK, TypeOK', CloseInv, NEW p \in Peer, RecvRevokeAndAck(p)
    PROVE  CloseInv'
<1> DEFINE q == Other(p)
           s == self[p]
           m == Head(net[p])
           t == AfterRevokeAndAck(s, m.num)
<1>1. q \in Peer /\ q # p /\ Peer = {p, q} /\ Other(q) = p /\ s \in SelfType
  BY PeerFacts DEF Peer, Other, TypeOK
<1>2. /\ Running(p) /\ net[p] # <<>> /\ m.type = "revoke_and_ack"
      /\ Save(p, t) /\ net' = Read(net, p)
      /\ UNCHANGED <<thread, broadcast, rpc>>
  BY DEF RecvRevokeAndAck, Receiving, Environment
<1>3. /\ self'[p] = t /\ self'[q] = self[q]
      /\ db'[p] = ln_db_self_save(t) /\ db'[q] = db[q]
  BY <1>1, <1>2 DEF Save, TypeOK
<1>4. /\ t.commit_local = s.commit_local
      /\ t.peer_storage = s.peer_storage \cup {m.num} /\ t.status = s.status
      /\ t.shutdown_flag = s.shutdown_flag
      /\ t \in SelfType
  <2>1. t \in SelfType
    BY <1>3, <1>1 DEF TypeOK
  <2> QED BY <1>1, <2>1 DEF AfterRevokeAndAck, SelfType
<1>5. net'[p] = Tail(net[p]) /\ net'[q] = net[q]
  BY <1>2, Streams
<1>6. SecretsUnderWay(p) \subseteq SecretsUnderWay(p)' \cup {m.num}
  BY <1>2, <1>5, ReadKeepsSecrets
<1>7. Carried(p, "closing_signed")' # {} => Carried(p, "closing_signed") # {}
  BY <1>2, <1>5, HeadCarried
<1> HIDE DEF t, m
<1>8. \A r \in Peer : /\ Saved(r) /\ Punishable(r) /\ LastCommitment(r)
                      /\ ShutdownSeen(r) /\ ClosingOffered(r) /\ ClosingBroadcast(r)
  BY DEF CloseInv
<1>9. \A r \in Peer : Saved(r)'
  BY <1>1, <1>3, <1>4, <1>8, AlikeFacts DEF Saved
<1>10. Punishable(p)'
  BY <1>1, <1>2, <1>3, <1>4, <1>6, <1>8 DEF Punishable, Running, Commit
<1>11. Punishable(q)'
  BY <1>1, <1>2, <1>3, <1>4, <1>5, <1>8
     DEF Punishable, Running, Commit, SecretsUnderWay, Carried
<1>12. \A r \in Peer : LastCommitment(r)'
  BY <1>1, <1>2, <1>3, <1>4, <1>8 DEF LastCommitment, Running, Commit
<1>13. \A r \in Peer : ShutdownSeen(r)' /\ ClosingBroadcast(r)'
  BY <1>1, <1>2, <1>3, <1>4, <1>8 DEF ShutdownSeen, ClosingBroadcast
<1>14. ClosingOffered(p)' /\ ClosingOffered(q)'
  BY <1>1, <1>3, <1>4, <1>5, <1>7, <1>8 DEF ClosingOffered, Carried
<1> QED BY <1>1, <1>9, <1>10, <1>11, <1>12, <1>13, <1>14 DEF CloseInv

----------------------------------------------------------------------------
(* The mutual close.                                                       *)

\* A handler of the mutual close changes the status, never back to NORMAL, and
\* may send anything but a secret: closing_signed only when it is not NORMAL.
LEMMA StatusKeeps ==
    ASSUME TypeOK, CloseInv, NEW p \in Peer, NEW t \in SelfType,
           NEW ms \in Seq(Message),
           Running(p), net[p] # <<>>, Head(net[p]).type # "revoke_and_ack",
           Save(p, t), net' = Sent(Read(net, p), p, ms),
           UNCHANGED <<thread, rpc>>,
           t.commit_local.commit_num = self[p].commit_local.commit_num,
           t.peer_storage = self[p].peer_storage,
           t.status # "NORMAL",
           \/ broadcast' = broadcast
           \/ /\ \E b : /\ b.type = "closing"
                       /\ broadcast' = [broadcast EXCEPT ![p] = @ \cup {b}]
              /\ self[Other(p)].status # "NORMAL"
    PROVE  CloseInv'
<1> DEFINE q == Other(p)
           s == self[p]
<1>1. q \in Peer /\ q # p /\ Peer = {p, q} /\ Other(q) = p
  BY PeerFacts DEF Peer, Other
<1>2. /\ self'[p] = t /\ self'[q] = self[q]
      /\ db'[p] = ln_db_self_save(t) /\ db'[q] = db[q]
  BY <1>1 DEF Save, TypeOK
<1>3. net'[p] = Tail(net[p]) /\ net'[q] \in {net[q], net[q] \o ms}
  BY Streams
<1>4. /\ SecretsUnderWay(p) \subseteq SecretsUnderWay(p)'
      /\ SecretsUnderWay(q) \subseteq SecretsUnderWay(q)'
  BY <1>1, <1>3, ReadKeepsSecrets, SentKeepsSecrets
<1>5. Carried(p, "closing_signed")' # {} => Carried(p, "closing_signed") # {}
  BY <1>3, HeadCarried
<1>6. \A r \in Peer : /\ Saved(r) /\ Punishable(r) /\ LastCommitment(r)
                      /\ ShutdownSeen(r) /\ ClosingOffered(r) /\ ClosingBroadcast(r)
  BY DEF CloseInv
<1>7. /\ broadcast'[q] = broadcast[q]
      /\ \/ broadcast'[p] = broadcast[p]
         \/ /\ \A b \in broadcast'[p] : b \in broadcast[p] \/ b.type = "closing"
            /\ self[q].status # "NORMAL"
  BY <1>1 DEF TypeOK
<1>8. \A r \in Peer : Saved(r)' /\ ShutdownSeen(r)'
  BY <1>1, <1>2, <1>6, AlikeFacts DEF Saved, ShutdownSeen
<1>9. \A r \in Peer : Punishable(r)'
  BY <1>1, <1>2, <1>4, <1>6 DEF Punishable, Running, Commit
<1>10. LastCommitment(p)'
  <2>1. p \notin ForceClosers => \A b \in broadcast[p] : b.type # "commit"
    BY <1>6 DEF LastCommitment
  <2> QED BY <1>6, <1>7, <2>1 DEF LastCommitment
<1>11. LastCommitment(q)'
  BY <1>1, <1>2, <1>6, <1>7 DEF LastCommitment, Running, Commit
<1>12. ClosingOffered(p)' /\ ClosingOffered(q)'
  BY <1>1, <1>2, <1>5, <1>6 DEF ClosingOffered
<1>13. \A r \in Peer : ClosingBroadcast(r)'
  BY <1>1, <1>2, <1>6, <1>7 DEF ClosingBroadcast
<1> QED BY <1>1, <1>8, <1>9, <1>10, <1>11, <1>12, <1>13 DEF CloseInv

\* recv_shutdown: the status is CLOSE_WAIT before anything is sent.
LEMMA ShutdownKeeps ==
    ASSUME TypeOK, CloseInv, NEW p \in Peer, RecvShutdown(p)
    PROVE  CloseInv'
<1> DEFINE s == self[p]
           answer == "SEND" \notin s.shutdown_flag
           recvd == [s EXCEPT !.shutdown_flag = @ \cup {"RECV"},
                              !.close_last_fee_sat = 0]
           sent == IF answer THEN SendShutdown(recvd) ELSE recvd
           exch == [sent EXCEPT !.status = "CLOSE_WAIT"]
           last == [exch EXCEPT !.close_last_fee_sat = exch.close_fee_sat]
           reply == IF answer THEN <<[type |-> "shutdown"]>> ELSE <<>>
           closing == [ type |-> "closing_signed",
                        tx |-> PeerClosingTx(s, exch.close_fee_sat) ]
<1> SUFFICES ASSUME ~FailChannel(p)
             PROVE  CloseInv'
  BY FailKeeps
<1>1. s \in SelfType
  BY DEF TypeOK
<1>2. /\ recvd \in SelfType /\ recvd.commit_local = s.commit_local
      /\ recvd.peer_storage = s.peer_storage
  BY <1>1 DEF SelfType
<1> HIDE DEF recvd
<1>3. /\ sent \in SelfType /\ sent.commit_local = s.commit_local
      /\ sent.peer_storage = s.peer_storage
  <2>1. SendShutdown(recvd) \in SelfType
    BY <1>2, CloseType
  <2>2. /\ SendShutdown(recvd).commit_local = recvd.commit_local
        /\ SendShutdown(recvd).peer_storage = recvd.peer_storage
    BY <1>2 DEF SendShutdown, SelfType
  <2> QED BY <1>2, <2>1, <2>2
<1> HIDE DEF sent
<1>4. /\ exch \in SelfType /\ exch.commit_local = s.commit_local
      /\ exch.peer_storage = s.peer_storage /\ exch.status = "CLOSE_WAIT"
  BY <1>3 DEF SelfType, Status
<1> HIDE DEF exch
<1>5. /\ last \in SelfType /\ last.commit_local = s.commit_local
      /\ last.peer_storage = s.peer_storage /\ last.status = "CLOSE_WAIT"
      /\ exch.close_fee_sat \in Nat
  BY <1>4 DEF SelfType
<1>6. closing \in Message
  <2>1. PeerClosingTx(s, exch.close_fee_sat) \in ClosingTxType
    BY <1>1, <1>5, CloseType
  <2> QED BY <2>1, MessageBuilt
<1>7. reply \in Seq(Message)
  BY MessageBuilt
<1> HIDE DEF closing, reply, last
<1>8. Append(reply, closing) \in Seq(Message)
  BY <1>6, <1>7
<1>9. /\ Running(p) /\ net[p] # <<>> /\ Head(net[p]).type = "shutdown"
      /\ UNCHANGED <<thread, broadcast, rpc>>
      /\ \/ Save(p, last) /\ net' = Sent(Read(net, p), p, Append(reply, closing))
         \/ Save(p, exch) /\ net' = Sent(Read(net, p), p, reply)
  BY DEF RecvShutdown, Receiving, Environment, last, exch, sent, recvd, reply, closing
<1> QED BY <1>4, <1>5, <1>7, <1>8, <1>9, StatusKeeps

\* recv_closing_signed: it only gets this far when shutdown went both ways,
\* and the peer that sent closing_signed has left NORMAL too.
LEMMA ClosingSignedKeeps ==
    ASSUME TypeOK, CloseInv, NEW p \in Peer, RecvClosingSigned(p)
    PROVE  CloseInv'
<1> DEFINE s == self[p]
           m == Head(net[p])
           tx == m.tx
           signed == [s EXCEPT !.commit_local.signature = tx]
           spent == [signed EXCEPT !.status = "CLOSE_SPENT"]
           agreed == [signed EXCEPT !.close_fee_sat = tx.fee_sat,
                                    !.close_last_fee_sat = tx.fee_sat]
           closing == [ type |-> "closing_signed",
                        tx |-> PeerClosingTx(s, tx.fee_sat) ]
           spend == [type |-> "closing", fee_sat |-> tx.fee_sat]
<1> SUFFICES ASSUME ~FailChannel(p)
             PROVE  CloseInv'
  BY FailKeeps
<1>1. s \in SelfType
  BY DEF TypeOK
<1>2. /\ Running(p) /\ net[p] # <<>> /\ m.type = "closing_signed" /\ m \in Message
      /\ s.shutdown_flag = {"SEND", "RECV"}
  BY StreamType DEF RecvClosingSigned, Receiving, TypeOK
<1>3. tx \in ClosingTxType /\ tx.fee_sat \in Nat
  BY <1>2, MessageFields DEF ClosingTxType
<1>4. /\ signed \in SelfType /\ signed.status = s.status
      /\ signed.commit_local.commit_num = s.commit_local.commit_num
      /\ signed.peer_storage = s.peer_storage
  <2> DEFINE l == [s.commit_local EXCEPT !.signature = tx]
  <2>1. s.commit_local \in CommitLocalType
    BY <1>1 DEF SelfType
  <2>2. l \in CommitLocalType /\ l.commit_num = s.commit_local.commit_num
    BY <1>3, <2>1 DEF CommitLocalType
  <2>3. signed = [s EXCEPT !.commit_local = l]
    OBVIOUS
  <2> HIDE DEF l
  <2> QED BY <1>1, <2>2, <2>3 DEF SelfType
<1> HIDE DEF m, signed
<1>5. /\ spent \in SelfType /\ spent.status = "CLOSE_SPENT"
      /\ spent.commit_local.commit_num = s.commit_local.commit_num
      /\ spent.peer_storage = s.peer_storage
  BY <1>4 DEF SelfType, Status
<1>6. /\ agreed \in SelfType /\ agreed.status = s.status
      /\ agreed.commit_local.commit_num = s.commit_local.commit_num
      /\ agreed.peer_storage = s.peer_storage
  BY <1>3, <1>4 DEF SelfType
<1>7. <<closing>> \in Seq(Message)
  <2>1. PeerClosingTx(s, tx.fee_sat) \in ClosingTxType
    BY <1>1, <1>3, CloseType
  <2> QED BY <2>1, MessageBuilt
<1>8. s.status # "NORMAL" /\ self[Other(p)].status # "NORMAL"
  <2>1. Carried(p, "closing_signed") # {}
    BY <1>2, NumberTypes DEF Carried, m
  <2> QED BY <1>2, <2>1 DEF CloseInv, ShutdownSeen, ClosingOffered
<1>9. spend.type = "closing"
  OBVIOUS
<1> HIDE DEF spent, agreed, closing, spend
<1>10. \/ Stop(p, "aborted") /\ UNCHANGED <<self, db, broadcast, rpc, closes>>
       \/ /\ Save(p, spent) /\ net' = Read(net, p)
          /\ broadcast' = [broadcast EXCEPT ![p] = @ \cup {spend}]
          /\ UNCHANGED <<thread, rpc, closes>>
       \/ /\ Save(p, agreed) /\ net' = Sent(Read(net, p), p, <<closing>>)
          /\ UNCHANGED Environment
  BY DEF RecvClosingSigned, m, signed, spent, agreed, closing, spend
<1>11. CASE Stop(p, "aborted") /\ UNCHANGED <<self, db, broadcast, rpc, closes>>
  BY <1>11, StopKeeps
<1>12. CASE /\ Save(p, spent) /\ net' = Read(net, p)
            /\ broadcast' = [broadcast EXCEPT ![p] = @ \cup {spend}]
            /\ UNCHANGED <<thread, rpc, closes>>
  <2>1. <<>> \in Seq(Message)
    OBVIOUS
  <2>2. net' = Sent(Read(net, p), p, <<>>)
    <3>1. \A r \in Peer : Read(net, p)[r] \in Seq(Message)
      BY <1>2, StreamType DEF TypeOK
    <3>2. \A a \in Seq(Message) : a \o <<>> = a
      OBVIOUS
    <3>3. Read(net, p) \in [Peer -> Seq(Message)]
      BY <1>2, StreamType DEF TypeOK
    <3> QED BY <1>12, <3>1, <3>2, <3>3, PeerFacts DEF Sent
  <2> QED BY <1>2, <1>5, <1>8, <1>9, <1>12, <2>1, <2>2, StatusKeeps DEF m
<1>13. CASE /\ Save(p, agreed) /\ net' = Sent(Read(net, p), p, <<closing>>)
            /\ UNCHANGED Environment
  BY <1>2, <1>6, <1>7, <1>8, <1>13, StatusKeeps DEF Environment, m
<1> QED BY <1>10, <1>11, <1>12, <1>13

----------------------------------------------------------------------------
(* The theorems.                                                           *)

\* The strengthened invariant: what a close depends on is saved, a commitment
\* is broadcast last, and closing_signed follows a saved CLOSE_WAIT.
THEOREM CloseInvariant == Spec => []CloseInv
<1>1. Init => CloseInv
  <2> SUFFICES ASSUME Init, NEW p \in Peer
               PROVE  /\ Saved(p) /\ Punishable(p) /\ LastCommitment(p)
                      /\ ShutdownSeen(p) /\ ClosingOffered(p) /\ ClosingBroadcast(p)
    BY DEF CloseInv
  <2>1. Other(p) \in Peer
    BY PeerFacts
  <2>2. /\ self[p] = InitSelf /\ db[p] = InitSelf /\ self[Other(p)] = InitSelf
        /\ net[p] = <<>> /\ broadcast[p] = {} /\ rpc[p].stage = "idle"
    BY <2>1 DEF Init
  <2>3. Saved(p)
    BY <2>2, InitSelfType, AlikeFacts DEF Saved
  <2>4. Punishable(p)
    BY <2>2 DEF Punishable, Commit, InitSelf
  <2>5. LastCommitment(p) /\ ClosingBroadcast(p) /\ ShutdownSeen(p)
    BY <2>2 DEF LastCommitment, ClosingBroadcast, ShutdownSeen, InitSelf
  <2>6. ClosingOffered(p)
    BY <2>2 DEF ClosingOffered, Carried
  <2> QED BY <2>3, <2>4, <2>5, <2>6
<1>2. TypeOK /\ TypeOK' /\ CloseInv /\ [Next]_vars => CloseInv'
  <2> SUFFICES ASSUME TypeOK, TypeOK', CloseInv, [Next]_vars
               PROVE  CloseInv'
    OBVIOUS
  <2>1. CASE UNCHANGED vars
    BY <2>1 DEF vars, CloseInv, Saved, Punishable, LastCommitment, ShutdownSeen,
                ClosingOffered, ClosingBroadcast, SecretsUnderWay, Carried, Running, Commit
  <2>2. ASSUME NEW p \in Peer,
               \/ Offer(p) \/ OtherChannel(p) \/ Idle(p) \/ Receive(p)
               \/ CloseRpc(p) \/ CloseForce(p) \/ PeerGone(p)
        PROVE  CloseInv'
    <3>1. CASE \/ Offer(p) \/ OtherChannel(p) \/ Idle(p) \/ CloseRpc(p)
      BY <3>1, OfferStepWorks, IdleStepWorks, CloseRpcWorks, WorkKeeps
    <3>2. CASE CloseForce(p) \/ PeerGone(p)
      BY <3>2, ForceKeeps
    <3>3. CASE Receive(p)
      BY <3>3, UpdateStepWorks, WorkKeeps, FailKeeps, AcceptedKeeps, RevokedKeeps,
         ShutdownKeeps, ClosingSignedKeeps DEF Receive
    <3> QED BY <2>2, <3>1, <3>2, <3>3
  <2> QED BY <2>1, <2>2 DEF Next
<1> QED BY <1>1, <1>2, TypeCorrect, PTL DEF Spec

\* An end that is connected can punish every revoked commitment of its peer,
\* however many there are: recv_revoke_and_ack saves each secret, and a secret
\* that recv_commitment_signed has revealed is on its way until then.
THEOREM PunishmentAlwaysReady == Spec => []PunishmentReady
<1>1. CloseInv => PunishmentReady
  <2> SUFFICES ASSUME CloseInv, NEW p \in Peer, Running(p),
                      NEW n \in 0 .. Commit(Other(p)).commit_num - 1
               PROVE  \/ n \in db[p].peer_storage
                      \/ \E k \in Carried(p, "revoke_and_ack") : net[p][k].num = n
    BY DEF PunishmentReady
  <2>1. n \in self[p].peer_storage \cup SecretsUnderWay(p)
    BY DEF CloseInv, Punishable
  <2>2. db[p].peer_storage = self[p].peer_storage
    BY DEF CloseInv, Saved, Alike
  <2> QED BY <2>1, <2>2 DEF SecretsUnderWay
<1> QED BY <1>1, CloseInvariant, PTL

\* thread_recv_start never broadcasts a revoked commitment: the commitment in
\* the database is the newest, and the thread that broadcasts it has ended.
THEOREM RevokedNeverBroadcast == Spec => []NeverBroadcastRevoked
<1>1. TypeOK /\ CloseInv => NeverBroadcastRevoked
  <2> SUFFICES ASSUME TypeOK, CloseInv, NEW p \in Peer \ ForceClosers,
                      NEW b \in broadcast[p], b.type = "commit"
               PROVE  b.num >= Commit(p).commit_num
    BY DEF NeverBroadcastRevoked
  <2>1. b.num = Commit(p).commit_num
    BY DEF CloseInv, LastCommitment
  <2> QED BY <2>1, NumberTypes
<1> QED BY <1>1, CloseInvariant, TypeCorrect, PTL

\* Once an end has broadcast the closing transaction, no failing handler has
\* broadcast a commitment or will: both ends saved CLOSE_WAIT before.
THEOREM ClosingAlone == Spec => []ClosingExclusive
<1>1. TypeOK /\ CloseInv => ClosingExclusive
  <2> SUFFICES ASSUME TypeOK, CloseInv, NEW r \in Peer, NEW c \in broadcast[r],
                      IsClosing(c), NEW p \in Peer \ ForceClosers,
                      NEW b \in broadcast[p]
               PROVE  IsClosing(b)
    BY DEF ClosingExclusive
  <2>1. self[p].status # "NORMAL"
    BY DEF CloseInv, ClosingBroadcast, IsClosing
  <2>2. b.type # "commit"
    BY <2>1 DEF CloseInv, LastCommitment
  <2>3. b.type \in {"commit", "closing"}
    BY DEF TypeOK, BroadcastType
  <2> QED BY <2>2, <2>3 DEF IsClosing
<1> QED BY <1>1, CloseInvariant, TypeCorrect, PTL

----------------------------------------------------------------------------
(***************************************************************************)
(* Part 4.  The first connection of module Reconnect: wherever it breaks,  *)
(* the two databases fit (DatabasesFit).                                   *)
(*                                                                         *)
(* The argument.  Until the ends connect again or a process dies, every    *)
(* step is a step of Channel or one that only stops an end, so the numbers *)
(* of the two ends are those of an exchange in lockstep (ExchangeInv of    *)
(* Part 2).  Those numbers are the ones in the databases, although the     *)
(* handlers leave much else unsaved (Recorded).  Once the ends have        *)
(* connected again the sessions show it for ever (Reconnected).            *)
(***************************************************************************)

----------------------------------------------------------------------------
(* The inductive invariant.                                                *)

\* The numbers channel_reestablish is made of and compared with.
Numbers(s) ==
    << s.commit_local.commit_num, s.commit_local.revoke_num,
       s.commit_remote.commit_num, s.commit_remote.revoke_num >>

\* The commitment before the current one is the last that was revoked.
PreviousRevoked(s) == s.commit_local.revoke_num = s.commit_local.commit_num - 1

\* The database holds the numbers of the memory.
Recorded ==
    \A p \in Peer : Numbers(db[p]) = Numbers(self[p]) /\ PreviousRevoked(self[p])

FirstSession == [NewSession EXCEPT !.phase = "loop"]

\* The session of an end that has connected again.
Reconnected(p) ==
    \/ session[p].phase \in {"init", "reestablish"}
    \/ "REESTABLISH" \in session[p].flag_recv

SessionShape(r) ==
    r = [ phase |-> r.phase, flag_recv |-> r.flag_recv,
          reest_commit_num |-> r.reest_commit_num,
          reest_revoke_num |-> r.reest_revoke_num, update |-> r.update ]

ShapesOK ==
    /\ DOMAIN session = Peer
    /\ session = [p \in Peer |-> session[p]]
    /\ \A p \in Peer : SessionShape(session[p])
    /\ faults \in [drops : Nat, crashes : Nat]

\* The first connection is up or has just been lost, in good order.
FirstInv ==
    /\ TypeOK /\ ExchangeInv /\ Recorded
    /\ \A p \in Peer : session[p] = FirstSession

\* It is over: a process died, or the ends have connected again.
Over == faults.crashes > 0 \/ \A p \in Peer : Reconnected(p)

ReconnectInv == ShapesOK /\ (FirstInv \/ Over)

----------------------------------------------------------------------------
(* What the functions of ln.c do to the numbers.                           *)

\* Everything but commitment_signed and revoke_and_ack leaves them alone.
LEMMA NumbersUntouched ==
    ASSUME NEW s \in SelfType, NEW f
    PROVE  /\ Numbers(ln_db_self_save(s)) = Numbers(s)
           /\ Numbers([s EXCEPT !.cnl_add_htlc = f]) = Numbers(s)
           /\ \A i : Numbers([s EXCEPT !.cnl_add_htlc[i] = f]) = Numbers(s)
           /\ \A o, n : Numbers([s EXCEPT !.cnl_add_htlc = f,
                                          !.paid_out = o, !.paid_in = n]) = Numbers(s)
           /\ \A i, n : Numbers([s EXCEPT !.cnl_add_htlc[i] = f,
                                          !.htlc_id_num = n]) = Numbers(s)
BY DEF Numbers, ln_db_self_save, SelfType

\* Numbers say which commitment was revoked.
LEMMA PreviousByNumbers ==
    ASSUME NEW s, NEW t, Numbers(s) = Numbers(t), PreviousRevoked(s)
    PROVE  PreviousRevoked(t)
BY DEF Numbers, PreviousRevoked

\* Offering an HTLC for a payment of this node or for another channel.
LEMMA OfferNumbers ==
    ASSUME NEW s \in SelfType, NEW i \in Slot, NEW amt \in Nat
    PROVE  /\ Numbers(ln_add_htlc_set(s, i, amt)) = Numbers(s)
           /\ Numbers(ln_add_htlc_set_fwd(s, i, amt)) = Numbers(s)
           /\ Numbers(ln_add_htlc_start_fwd(s, i)) = Numbers(s)
<1>1. \A t \in SelfType : Numbers(ln_add_htlc_start_fwd(t, i)) = Numbers(t)
  BY NumbersUntouched DEF ln_add_htlc_start_fwd
<1>2. Numbers(set_add_htlc(s, i, amt)) = Numbers(s)
  BY DEF set_add_htlc, Numbers, SelfType
<1>3. set_add_htlc(s, i, amt) \in SelfType
  BY OfferType DEF ln_add_htlc_set_fwd
<1>4. ln_add_htlc_set(s, i, amt) = ln_add_htlc_start_fwd(set_add_htlc(s, i, amt), i)
  BY DEF ln_add_htlc_set, ln_add_htlc_start_fwd
<1> QED BY <1>1, <1>2, <1>3, <1>4 DEF ln_add_htlc_set_fwd

\* Accepting and deleting an HTLC.
LEMMA DeleteNumbers ==
    ASSUME NEW s \in SelfType, NEW i \in Slot, NEW id, NEW del, NEW m, NEW fate
    PROVE  /\ Numbers(AcceptAddHtlc(s, i, m, fate)) = Numbers(s)
           /\ Numbers(ln_fulfill_htlc_set(s, i)) = Numbers(s)
           /\ Numbers(ln_fail_htlc_set(s, i)) = Numbers(s)
           /\ Numbers(DelOffered(s, id, del)) = Numbers(s)
<1>1. Numbers(AcceptAddHtlc(s, i, m, fate)) = Numbers(s)
  BY NumbersUntouched DEF AcceptAddHtlc
<1>2. Numbers(ln_fulfill_htlc_set(s, i)) = Numbers(s)
  BY NumbersUntouched DEF ln_fulfill_htlc_set, DelHtlcIn
<1>3. Numbers(ln_fail_htlc_set(s, i)) = Numbers(s)
  BY DEF ln_fail_htlc_set, DelHtlcIn, Numbers, SelfType
<1>4. Numbers(DelOffered(s, id, del)) = Numbers(s)
  BY NumbersUntouched DEF DelOffered
<1> QED BY <1>1, <1>2, <1>3, <1>4

\* The idle procedure and the exchange.
LEMMA ExchangeNumbers ==
    ASSUME NEW s \in SelfType, NEW tx, NEW num
    PROVE  /\ Numbers(AfterFinal(s)) = Numbers(s)
           /\ Numbers(AfterUpdates(s)) = Numbers(s)
           /\ PreviousRevoked(s) => PreviousRevoked(AfterSendCommitmentSigned(s, tx))
           /\ PreviousRevoked(s) => PreviousRevoked(AfterRevokeAndAck(s, num))
           /\ PreviousRevoked(AfterCommitmentSigned(s, tx))
<1>1. Numbers(AfterFinal(s)) = Numbers(s)
  BY DEF AfterFinal, Numbers, SelfType
<1>2. Numbers(AfterUpdates(s)) = Numbers(s)
  BY NumbersUntouched DEF AfterUpdates
<1>3. PreviousRevoked(s) => PreviousRevoked(AfterSendCommitmentSigned(s, tx))
  BY DEF PreviousRevoked, AfterSendCommitmentSigned, SelfType
<1>4. PreviousRevoked(s) => PreviousRevoked(AfterRevokeAndAck(s, num))
  BY DEF PreviousRevoked, AfterRevokeAndAck, SelfType
<1>5. PreviousRevoked(AfterCommitmentSigned(s, tx))
  <2> DEFINE c == s.commit_local.commit_num
             t == AfterCommitmentSigned(s, tx)
  <2>1. c \in Nat
    BY DEF SelfType, CommitLocalType
  <2>2. t.commit_local.commit_num = c + 1 /\ t.commit_local.revoke_num = c
    BY DEF AfterCommitmentSigned, SelfType
  <2> QED BY <2>1, <2>2 DEF PreviousRevoked
<1> QED BY <1>1, <1>2, <1>3, <1>4, <1>5

----------------------------------------------------------------------------
(* Every change of the numbers is saved.                                   *)

\* The forms a step takes: a state with the same numbers is kept, or one with
\* any numbers is saved, or nothing changes.
LEMMA KeepRecords ==
    ASSUME TypeOK, Recorded, NEW p \in Peer, NEW t,
           self' = [self EXCEPT ![p] = t], db' = db,
           Numbers(t) = Numbers(self[p])
    PROVE  Recorded'
<1>1. \A r \in Peer : Numbers(self'[r]) = Numbers(self[r]) /\ db'[r] = db[r]
  BY DEF TypeOK
<1>2. \A r \in Peer : PreviousRevoked(self'[r])
  BY <1>1, PreviousByNumbers DEF Recorded
<1> QED BY <1>1, <1>2 DEF Recorded

\* What is saved has the right numbers, whatever they are.
LEMMA SaveRecords ==
    ASSUME TypeOK, TypeOK', Recorded, NEW p \in Peer, NEW t,
           self' = [self EXCEPT ![p] = t],
           db' = [db EXCEPT ![p] = ln_db_self_save(t)],
           Numbers(t) = Numbers(self[p]) \/ PreviousRevoked(t)
    PROVE  Recorded'
<1>1. self'[p] = t /\ db'[p] = ln_db_self_save(t)
  BY DEF TypeOK
<1>2. t \in SelfType
  BY <1>1 DEF TypeOK
<1>3. Numbers(ln_db_self_save(t)) = Numbers(t)
  BY <1>2, NumbersUntouched
<1>4. PreviousRevoked(t)
  BY PreviousByNumbers DEF Recorded
<1>5. \A r \in Peer \ {p} : self'[r] = self[r] /\ db'[r] = db[r]
  BY DEF TypeOK
<1> QED BY <1>1, <1>3, <1>4, <1>5 DEF Recorded

\* Nothing of the channel changes.
LEMMA StopRecords ==
    ASSUME Recorded, self' = self, db' = db
    PROVE  Recorded'
BY DEF Recorded

\* Payments and the callers of other channels.
LEMMA OfferStepRecords ==
    ASSUME TypeOK, TypeOK', Recorded, NEW p \in Peer, Offer(p) \/ OtherChannel(p)
    PROVE  Recorded'
<1> DEFINE s == self[p]
<1>1. s \in SelfType
  BY DEF TypeOK
<1>2. ASSUME NEW amt \in Amounts, Pay(p, amt) \/ FwdAdd(p, amt)
      PROVE  Recorded'
  <2>1. amt \in Nat
    BY ParameterAssumption
  <2>2. PICK i \in Slot : \/ Keep(p, ln_add_htlc_set(s, i, amt))
                          \/ Keep(p, ln_add_htlc_set_fwd(s, i, amt))
    BY <1>2 DEF Pay, FwdAdd
  <2>3. db' = db
    BY <1>2 DEF Pay, FwdAdd
  <2> QED BY <1>1, <2>1, <2>2, <2>3, OfferNumbers, KeepRecords DEF Keep
<1>3. ASSUME NEW i \in Slot, FwdStart(p, i)
      PROVE  Recorded'
  BY <1>1, <1>3, OfferNumbers, KeepRecords, 0 \in Nat DEF FwdStart, Keep
<1>4. ASSUME NEW i \in Slot, FulfillBackwind(p, i)
      PROVE  Recorded'
  BY <1>1, <1>4, DeleteNumbers, SaveRecords DEF FulfillBackwind, Save
<1>5. ASSUME NEW i \in Slot, FailBackwind(p, i)
      PROVE  Recorded'
  BY <1>1, <1>5, DeleteNumbers, KeepRecords DEF FailBackwind, Keep
<1> QED BY <1>2, <1>3, <1>4, <1>5 DEF Offer, OtherChannel

\* The idle procedure: it saves whenever it signs.
LEMMA IdleStepRecords ==
    ASSUME TypeOK, TypeOK', Recorded, NEW p \in Peer, Idle(p)
    PROVE  Recorded'
<1> DEFINE s == self[p]
           upd == AfterUpdates(s)
           tx == create_to_remote(upd, s.commit_remote.commit_num + 1)
<1>1. s \in SelfType /\ PreviousRevoked(s)
  BY DEF TypeOK, Recorded
<1>2. CASE IdleFinal(p)
  BY <1>1, <1>2, ExchangeNumbers, SaveRecords DEF IdleFinal, Save
<1>3. CASE IdleNonfinal(p)
  <2>1. upd \in SelfType /\ Numbers(upd) = Numbers(s)
    BY <1>1, UpdatesType, ExchangeNumbers
  <2>2. PreviousRevoked(upd)
    BY <1>1, <2>1, PreviousByNumbers
  <2>3. \/ Save(p, AfterSendCommitmentSigned(upd, tx))
        \/ Keep(p, upd) /\ db' = db
    BY <1>3 DEF IdleNonfinal
  <2>4. PreviousRevoked(AfterSendCommitmentSigned(upd, tx))
    <3> HIDE DEF upd, tx
    <3> QED BY <2>1, <2>2, ExchangeNumbers
  <2> HIDE DEF upd, tx
  <2>5. CASE Save(p, AfterSendCommitmentSigned(upd, tx))
    BY <2>4, <2>5, SaveRecords DEF Save
  <2>6. CASE Keep(p, upd) /\ db' = db
    BY <2>1, <2>6, KeepRecords DEF Keep
  <2> QED BY <2>3, <2>5, <2>6
<1> QED BY <1>2, <1>3 DEF Idle

\* The handlers of update messages.
LEMMA UpdateStepRecords ==
    ASSUME TypeOK, Recorded, NEW p \in Peer,
           \/ RecvAddHtlc(p) \/ RecvFulfillHtlc(p)
           \/ RecvFailHtlc(p) \/ RecvFailMalformedHtlc(p)
    PROVE  Recorded'
<1> DEFINE s == self[p]
<1>1. s \in SelfType /\ 0 \in Slot
  BY HtlcMaxAssumption DEF TypeOK, Slot
<1>2. CASE FailChannel(p)
  BY <1>2, StopRecords DEF FailChannel
<1>3. CASE ~FailChannel(p) /\ RecvAddHtlc(p)
  <2>1. PICK i \in Slot, fate \in Fates :
          Keep(p, AcceptAddHtlc(s, i, Head(net[p]), fate))
    BY <1>3 DEF RecvAddHtlc
  <2>2. db' = db
    BY <1>3 DEF RecvAddHtlc
  <2>3. Numbers(AcceptAddHtlc(s, i, Head(net[p]), fate)) = Numbers(s)
    BY <1>1, DeleteNumbers
  <2> QED BY <2>1, <2>2, <2>3, KeepRecords DEF Keep
<1>4. ASSUME NEW type, NEW del, RecvDelHtlc(p, type, del), ~FailChannel(p)
      PROVE  Recorded'
  <2>1. Keep(p, DelOffered(s, Head(net[p]).id, del)) /\ db' = db
    BY <1>4 DEF RecvDelHtlc
  <2>2. Numbers(DelOffered(s, Head(net[p]).id, del)) = Numbers(s)
    BY <1>1, DeleteNumbers
  <2> QED BY <2>1, <2>2, KeepRecords DEF Keep
<1> QED BY <1>2, <1>3, <1>4 DEF RecvFulfillHtlc, RecvFailHtlc, RecvFailMalformedHtlc

\* commitment_signed and revoke_and_ack.
LEMMA CommitStepRecords ==
    ASSUME TypeOK, TypeOK', Recorded, NEW p \in Peer,
           RecvCommitmentSigned(p) \/ RecvRevokeAndAck(p)
    PROVE  Recorded'
<1> DEFINE s == self[p]
           m == Head(net[p])
<1>1. s \in SelfType /\ PreviousRevoked(s)
  BY DEF TypeOK, Recorded
<1>2. CASE FailChannel(p)
  BY <1>2, StopRecords DEF FailChannel
<1>3. CASE ~FailChannel(p)
  <2>1. \/ Save(p, AfterCommitmentSigned(s, m.tx))
        \/ Save(p, AfterRevokeAndAck(s, m.num))
    BY <1>3 DEF RecvCommitmentSigned, RecvRevokeAndAck
  <2>2. /\ PreviousRevoked(AfterCommitmentSigned(s, m.tx))
        /\ PreviousRevoked(AfterRevokeAndAck(s, m.num))
    BY <1>1, ExchangeNumbers
  <2> QED BY <2>1, <2>2, SaveRecords DEF Save
<1> QED BY <1>2, <1>3

\* The mutual close.
LEMMA CloseStepRecords ==
    ASSUME TypeOK, TypeOK', Recorded, NEW p \in Peer,
           CloseRpc(p) \/ RecvShutdown(p) \/ RecvClosingSigned(p)
    PROVE  Recorded'
<1> DEFINE s == self[p]
           tx == Head(net[p]).tx
<1>1. s \in SelfType
  BY DEF TypeOK
<1>2. CASE self' = self /\ db' = db
  BY <1>2, StopRecords
<1>3. CASE CloseRpc(p)
  <2>1. Numbers(SendShutdown(s)) = Numbers(s)
    BY <1>1 DEF SendShutdown, Numbers, SelfType
  <2> QED BY <1>3, <2>1, SaveRecords DEF CloseRpc, Save
<1>4. CASE RecvShutdown(p) /\ ~(self' = self /\ db' = db)
  <2> DEFINE recvd == [s EXCEPT !.shutdown_flag = @ \cup {"RECV"},
                                !.close_last_fee_sat = 0]
             exch == [(IF "SEND" \notin s.shutdown_flag
                       THEN SendShutdown(recvd) ELSE recvd)
                         EXCEPT !.status = "CLOSE_WAIT"]
             last == [exch EXCEPT !.close_last_fee_sat = exch.close_fee_sat]
  <2>1. Save(p, last) \/ Save(p, exch)
    BY <1>4 DEF RecvShutdown, FailChannel
  <2>2. Numbers(exch) = Numbers(s)
    BY <1>1 DEF SendShutdown, Numbers, SelfType
  <2>3. Numbers(last) = Numbers(s)
    BY <1>1 DEF SendShutdown, Numbers, SelfType
  <2> HIDE DEF exch, last
  <2> QED BY <2>1, <2>2, <2>3, SaveRecords DEF Save
<1>5. CASE RecvClosingSigned(p) /\ ~(self' = self /\ db' = db)
  <2> DEFINE signed == [s EXCEPT !.commit_local.signature = tx]
             spent == [signed EXCEPT !.status = "CLOSE_SPENT"]
             agreed == [signed EXCEPT !.close_fee_sat = tx.fee_sat,
                                      !.close_last_fee_sat = tx.fee_sat]
  <2>1. Save(p, spent) \/ Save(p, agreed)
    BY <1>5 DEF RecvClosingSigned, FailChannel
  <2>2. Numbers(spent) = Numbers(s)
    BY <1>1 DEF Numbers, SelfType, CommitLocalType
  <2>3. Numbers(agreed) = Numbers(s)
    BY <1>1 DEF Numbers, SelfType, CommitLocalType
  <2> HIDE DEF spent, agreed
  <2> QED BY <2>1, <2>2, <2>3, SaveRecords DEF Save
<1> QED BY <1>2, <1>3, <1>4, <1>5

----------------------------------------------------------------------------
(* The first connection.                                                   *)

\* A step of Channel keeps the first connection in order.
LEMMA ChannelKeepsFirst ==
    ASSUME TypeOK, ExchangeInv, Recorded, NEW p \in Peer,
           \/ Offer(p) \/ OtherChannel(p) \/ Idle(p) \/ Receive(p)
           \/ CloseRpc(p) \/ PeerGone(p)
    PROVE  TypeOK' /\ ExchangeInv' /\ Recorded'
<1>1. TypeOK'
  BY OfferStepType, IdleStepType, UpdateStepType, CommitStepType,
     CloseStepType, ForceStepType DEF Receive
<1>2. ExchangeInv'
  <2>1. [Next]_vars
    BY DEF Next
  <2> QED BY <1>1, <2>1, StepKinds, QuietKeeps, SignKeeps, AcceptKeeps, AckKeeps
          DEF ExchangeStep
<1>3. Recorded'
  <2>1. CASE PeerGone(p)
    BY <2>1, StopRecords DEF PeerGone
  <2> QED BY <1>1, <2>1, OfferStepRecords, IdleStepRecords, UpdateStepRecords,
             CommitStepRecords, CloseStepRecords DEF Receive
<1> QED BY <1>1, <1>2, <1>3

\* So does a step that only stops an end.
LEMMA StopKeepsFirst ==
    ASSUME TypeOK, ExchangeInv, Recorded, NEW p \in Peer, NEW how \in Thread,
           Stop(p, how), UNCHANGED <<self, db, broadcast, rpc, closes>>
    PROVE  TypeOK' /\ ExchangeInv' /\ Recorded'
<1>1. TypeOK'
  BY DEF Stop, TypeOK
<1>2. QuietStep
  BY QuietStop DEF Stop
<1>3. ExchangeInv'
  BY <1>1, <1>2, QuietKeeps
<1>4. Recorded'
  BY StopRecords
<1> QED BY <1>1, <1>3, <1>4

\* In the first connection no message of a reconnection is under way.
LEMMA NoReconnectMessage ==
    ASSUME TypeOK, NEW p \in Peer, NEW type \in {"channel_reestablish", "funding_locked"}
    PROVE  ~Receiving(p, type)
<1> SUFFICES ASSUME Receiving(p, type)
             PROVE  FALSE
  OBVIOUS
<1>1. net[p] \in Seq(Message) /\ net[p] # <<>>
  BY DEF TypeOK, Receiving
<1>2. Head(net[p]) \in Message
  BY <1>1
<1> QED BY <1>2 DEF Receiving, Message, UpdateType

\* Until the ends connect again or a process dies, the first connection stays
\* in order: every step is one of Channel, or only stops an end.
LEMMA FirstKeeps ==
    ASSUME ShapesOK, FirstInv, RNext
    PROVE  FirstInv' \/ Over'
<1>1. TypeOK /\ ExchangeInv /\ Recorded /\ "stopped" \in Thread /\ "aborted" \in Thread
  BY DEF FirstInv, Thread
<1>2. \A p \in Peer : session[p].phase = "loop"
  BY DEF FirstInv, FirstSession, NewSession
<1>3. ASSUME TypeOK' /\ ExchangeInv' /\ Recorded', session' = session
      PROVE  FirstInv'
  BY <1>3 DEF FirstInv
<1>4. CASE Connect
  <2>1. \A p \in Peer : session'[p] = NewSession
    BY <1>4 DEF Connect
  <2>2. NewSession.phase = "init"
    BY DEF NewSession
  <2> QED BY <2>1, <2>2 DEF Over, Reconnected
<1>5. ASSUME NEW p \in Peer, Operate(p)
      PROVE  FirstInv'
  <2>1. /\ session' = session
        /\ \/ Offer(p) \/ OtherChannel(p) \/ Idle(p) \/ Receive(p)
           \/ CloseRpc(p) \/ PeerGone(p)
    BY <1>5 DEF Operate, Receive
  <2> QED BY <1>1, <1>3, <2>1, ChannelKeepsFirst
<1>6. ASSUME NEW p \in Peer, MainThread(p) \/ ReestablishTimeout(p)
      PROVE  FALSE
  BY <1>2, <1>6 DEF MainThread, exchange_reestablish, exchange_funding_locked,
                    FundingLockedExchanged, ResendFind, ResendUpdate, ResendCount,
                    ResendRevoke, ResendShutdown, ReestablishTimeout
<1>7. ASSUME NEW p \in Peer, recv_channel_reestablish(p) \/ recv_funding_locked(p)
      PROVE  FALSE
  BY <1>1, <1>7, NoReconnectMessage DEF recv_channel_reestablish, recv_funding_locked
<1>8. ASSUME NEW p \in Peer, recv_revoke_and_ack(p)
      PROVE  FirstInv'
  <2>1. /\ session' = session
        /\ \/ RecvRevokeAndAck(p)
           \/ Stop(p, "aborted") /\ UNCHANGED <<self, db, broadcast, rpc, closes>>
    BY <1>8 DEF recv_revoke_and_ack
  <2>2. CASE RecvRevokeAndAck(p)
    BY <1>1, <1>3, <2>1, <2>2, ChannelKeepsFirst DEF Receive
  <2> QED BY <1>1, <1>3, <2>1, <2>2, StopKeepsFirst
<1>9. ASSUME NEW p \in Peer, Drop(p)
      PROVE  FirstInv'
  <2>1. /\ session' = session
        /\ Stop(p, "stopped") /\ UNCHANGED <<self, db, broadcast, rpc, closes>>
    BY <1>9 DEF Drop
  <2> QED BY <1>1, <1>3, <2>1, StopKeepsFirst
<1>10. ASSUME NEW p \in Peer, CrashAfterRevoke(p)
       PROVE  Over'
  <2>1. faults'.crashes = faults.crashes + 1 /\ faults.crashes \in Nat
    BY <1>10 DEF CrashAfterRevoke, ShapesOK
  <2> QED BY <2>1 DEF Over
<1> QED BY <1>4, <1>5, <1>6, <1>7, <1>8, <1>9, <1>10 DEF RNext

----------------------------------------------------------------------------
(* After the first connection.                                             *)

\* Faults are only counted up.
LEMMA FaultsGrow ==
    ASSUME ShapesOK, RNext
    PROVE  /\ faults' \in [drops : Nat, crashes : Nat]
           /\ faults.crashes > 0 => faults'.crashes > 0
<1>1. \/ faults' = faults
      \/ faults' = [faults EXCEPT !.drops = @ + 1]
      \/ faults' = [faults EXCEPT !.crashes = @ + 1]
  BY DEF RNext, Connect, Operate, MainThread, exchange_reestablish,
         exchange_funding_locked, FundingLockedExchanged,
         ResendFind, ResendUpdate, ResendCount, ResendRevoke, ResendShutdown,
         recv_channel_reestablish,
         recv_funding_locked, recv_revoke_and_ack, Drop, CrashAfterRevoke,
         ReestablishTimeout
<1> QED BY <1>1 DEF ShapesOK

\* thread_main_start leaves its first two phases only when the peer's
\* channel_reestablish has arrived, and what arrived is never forgotten.
SessionMoves(p, r) ==
    /\ SessionShape(r)
    /\ Reconnected(p) => \/ r.phase \in {"init", "reestablish"}
                         \/ "REESTABLISH" \in r.flag_recv

\* A session changes only like that, or is a new one.
LEMMA SessionSteps ==
    ASSUME ShapesOK, RNext, session' # session
    PROVE  \/ session' = [p \in Peer |-> NewSession]
           \/ \E p \in Peer : \E r : SessionMoves(p, r) /\ Session(p, r)
<1>1. CASE Connect
  BY <1>1 DEF Connect
<1>2. ASSUME NEW p \in Peer, Operate(p) \/ recv_revoke_and_ack(p) \/ Drop(p)
                             \/ CrashAfterRevoke(p) \/ ReestablishTimeout(p)
      PROVE  FALSE
  BY <1>2 DEF Operate, recv_revoke_and_ack, Drop, CrashAfterRevoke, ReestablishTimeout
<1>3. ASSUME NEW p \in Peer,
             \/ MainThread(p) \/ recv_channel_reestablish(p) \/ recv_funding_locked(p)
      PROVE  \E r : SessionMoves(p, r) /\ Session(p, r)
  <2>1. PICK o : o = session[p]
    OBVIOUS
  <2>2. SessionShape(o)
    BY <2>1 DEF ShapesOK
  <2>3. \A ph : /\ SessionShape([o EXCEPT !.phase = ph])
                /\ [o EXCEPT !.phase = ph].phase = ph
                /\ [o EXCEPT !.phase = ph].flag_recv = o.flag_recv
    BY <2>2 DEF SessionShape
  <2>4. \A f, c, n : LET x == [o EXCEPT !.flag_recv = f, !.reest_commit_num = c,
                                        !.reest_revoke_num = n]
                     IN  SessionShape(x) /\ x.flag_recv = f
    <3> TAKE f, c, n
    <3>1. PICK x : x = [o EXCEPT !.flag_recv = f, !.reest_commit_num = c,
                                 !.reest_revoke_num = n]
      OBVIOUS
    <3>2. o = [ phase |-> o.phase, flag_recv |-> o.flag_recv,
                reest_commit_num |-> o.reest_commit_num,
                reest_revoke_num |-> o.reest_revoke_num, update |-> o.update ]
      BY <2>2 DEF SessionShape
    <3>3. x = [ phase |-> o.phase, flag_recv |-> f,
                reest_commit_num |-> c, reest_revoke_num |-> n,
                update |-> o.update ]
      BY <3>1, <3>2
    <3>4. SessionShape(x) /\ x.flag_recv = f
      BY <3>3 DEF SessionShape
    <3> QED BY <3>1, <3>4
  <2>5. \A f : LET x == [o EXCEPT !.flag_recv = f]
               IN  SessionShape(x) /\ x.flag_recv = f /\ x.phase = o.phase
    BY <2>2 DEF SessionShape
  <2>6. CASE exchange_reestablish(p)
    BY <2>1, <2>3, <2>6 DEF exchange_reestablish, SessionMoves
  <2>7. CASE exchange_funding_locked(p)
    <3>1. \E ph : Session(p, [o EXCEPT !.phase = ph]) /\ "REESTABLISH" \in o.flag_recv
      BY <2>1, <2>7 DEF exchange_funding_locked
    <3> QED BY <2>3, <3>1 DEF SessionMoves
  <2>8. CASE \/ FundingLockedExchanged(p) \/ ResendFind(p) \/ ResendUpdate(p)
             \/ ResendCount(p) \/ ResendRevoke(p) \/ ResendShutdown(p)
    <3>1. \/ \E ph : Session(p, [o EXCEPT !.phase = ph])
          \/ \E ph, u : Session(p, [o EXCEPT !.phase = ph, !.update = u])
      BY <2>1, <2>8 DEF FundingLockedExchanged, ResendFind, ResendUpdate,
                        ResendCount, ResendRevoke, ResendShutdown
    <3>2. o.phase \notin {"init", "reestablish"}
      BY <2>1, <2>8 DEF FundingLockedExchanged, ResendFind, ResendUpdate,
                        ResendCount, ResendRevoke, ResendShutdown
    <3>3. \A ph, u : LET x == [o EXCEPT !.phase = ph, !.update = u]
                     IN  SessionShape(x) /\ x.flag_recv = o.flag_recv
      <4> TAKE ph, u
      <4>1. PICK x : x = [o EXCEPT !.phase = ph, !.update = u]
        OBVIOUS
      <4>2. o = [ phase |-> o.phase, flag_recv |-> o.flag_recv,
                  reest_commit_num |-> o.reest_commit_num,
                  reest_revoke_num |-> o.reest_revoke_num, update |-> o.update ]
        BY <2>2 DEF SessionShape
      <4>3. x = [ phase |-> ph, flag_recv |-> o.flag_recv,
                  reest_commit_num |-> o.reest_commit_num,
                  reest_revoke_num |-> o.reest_revoke_num, update |-> u ]
        BY <4>1, <4>2
      <4>4. SessionShape(x) /\ x.flag_recv = o.flag_recv
        BY <4>3 DEF SessionShape
      <4> QED BY <4>1, <4>4
    <3>4. CASE \E ph : Session(p, [o EXCEPT !.phase = ph])
      BY <2>1, <2>3, <3>2, <3>4 DEF SessionMoves, Reconnected
    <3>5. CASE \E ph, u : Session(p, [o EXCEPT !.phase = ph, !.update = u])
      <4>1. PICK ph, u, x :
              /\ x = [o EXCEPT !.phase = ph, !.update = u]
              /\ Session(p, x)
        BY <3>5
      <4>2. SessionShape(x) /\ x.flag_recv = o.flag_recv
        BY <3>3, <4>1
      <4> QED BY <2>1, <3>2, <4>1, <4>2 DEF SessionMoves, Reconnected
    <3> QED BY <3>1, <3>4, <3>5
  <2>9. CASE recv_channel_reestablish(p)
    <3>1. \E c, n : Session(p, [o EXCEPT !.flag_recv = @ \cup {"REESTABLISH"},
                                         !.reest_commit_num = c,
                                         !.reest_revoke_num = n])
      BY <2>1, <2>9 DEF recv_channel_reestablish
    <3>2. PICK c, n, x :
            /\ x = [o EXCEPT !.flag_recv = o.flag_recv \cup {"REESTABLISH"},
                             !.reest_commit_num = c, !.reest_revoke_num = n]
            /\ Session(p, x)
      BY <3>1
    <3>3. SessionShape(x) /\ x.flag_recv = o.flag_recv \cup {"REESTABLISH"}
      BY <2>4, <3>2
    <3> QED BY <3>2, <3>3 DEF SessionMoves
  <2>10. CASE recv_funding_locked(p)
    <3>1. Session(p, [o EXCEPT !.flag_recv = o.flag_recv \cup {"FUNDINGLOCKED"}])
      BY <2>1, <2>10 DEF recv_funding_locked
    <3>2. SessionMoves(p, [o EXCEPT !.flag_recv = o.flag_recv \cup {"FUNDINGLOCKED"}])
      BY <2>1, <2>5 DEF SessionMoves, Reconnected
    <3> QED BY <3>1, <3>2
  <2> QED BY <1>3, <2>6, <2>7, <2>8, <2>9, <2>10 DEF MainThread
<1> QED BY <1>1, <1>2, <1>3 DEF RNext

\* An end that has connected again is known to have for ever.
LEMMA OverStays ==
    ASSUME ShapesOK, RNext
    PROVE  ShapesOK' /\ (Over => Over')
<1>1. CASE session' = session
  BY <1>1, FaultsGrow DEF ShapesOK, Over, Reconnected
<1>2. CASE session' = [p \in Peer |-> NewSession]
  <2>1. SessionShape(NewSession) /\ NewSession.phase = "init"
    BY DEF SessionShape, NewSession
  <2>2. \A p \in Peer : session'[p] = NewSession
    BY <1>2
  <2>3. ShapesOK'
    BY <1>2, <2>1, <2>2, FaultsGrow DEF ShapesOK
  <2>4. Over'
    BY <2>1, <2>2 DEF Over, Reconnected
  <2> QED BY <2>3, <2>4
<1>3. ASSUME NEW p \in Peer, NEW r, SessionMoves(p, r), Session(p, r)
      PROVE  ShapesOK' /\ (Over => Over')
  <2>1. session' = [session EXCEPT ![p] = r] /\ DOMAIN session = Peer
    BY <1>3 DEF Session, ShapesOK
  <2>2. session'[p] = r /\ \A q \in Peer \ {p} : session'[q] = session[q]
    BY <2>1
  <2>3. DOMAIN session' = Peer /\ session' = [q \in Peer |-> session'[q]]
    BY <2>1 DEF ShapesOK
  <2>4. \A q \in Peer : SessionShape(session'[q])
    BY <1>3, <2>2 DEF ShapesOK, SessionMoves
  <2>5. \A q \in Peer : Reconnected(q) => Reconnected(q)'
    BY <1>3, <2>2 DEF SessionMoves, Reconnected
  <2> QED BY <2>3, <2>4, <2>5, FaultsGrow DEF ShapesOK, Over
<1> QED BY <1>1, <1>2, <1>3, SessionSteps

----------------------------------------------------------------------------
(* The theorems.                                                           *)

\* The first connection is in order until it is over: the numbers of the two
\* ends are in lockstep and in the databases.
THEOREM ReconnectInvariant == RSpec => []ReconnectInv
<1>1. RInit => ReconnectInv
  <2> SUFFICES ASSUME RInit
               PROVE  ReconnectInv
    OBVIOUS
  <2>1. TypeOK
    BY InitSelfType DEF RInit, Init, TypeOK, Thread, Stage
  <2>2. ExchangeInv
    <3> SUFFICES ASSUME NEW p \in Peer
                 PROVE  ExchangePhase(p) /\ SignatureUnderWay(p) /\ AckUnderWay(p)
      BY DEF ExchangeInv
    <3>1. Other(p) \in Peer
      BY PeerFacts
    <3>2. /\ self[p] = InitSelf /\ self[Other(p)] = InitSelf
          /\ net[p] = <<>> /\ net[Other(p)] = <<>>
      BY <3>1 DEF RInit, Init
    <3>3. ExchangePhase(p)
      BY <3>2 DEF ExchangePhase, Commit, Remote, InitSelf
    <3>4. SignatureUnderWay(p) /\ AckUnderWay(p)
      BY <3>2 DEF SignatureUnderWay, AckUnderWay, Carried
    <3> QED BY <3>3, <3>4
  <2>3. Recorded
    BY DEF RInit, Init, InitSelf, Recorded, Numbers, PreviousRevoked
  <2>4. session = [p \in Peer |-> FirstSession]
    BY DEF RInit, FirstSession
  <2>5. \A p \in Peer : session[p] = FirstSession
    BY <2>4
  <2>6. SessionShape(FirstSession)
    <3>1. \A e : LET o == [ phase |-> "init", flag_recv |-> {},
                            reest_commit_num |-> 0, reest_revoke_num |-> 0,
                            update |-> e ]
                     x == [o EXCEPT !.phase = "loop"]
                 IN  x = [ phase |-> x.phase, flag_recv |-> x.flag_recv,
                           reest_commit_num |-> x.reest_commit_num,
                           reest_revoke_num |-> x.reest_revoke_num,
                           update |-> x.update ]
      OBVIOUS
    <3> QED BY <3>1 DEF SessionShape, FirstSession, NewSession
  <2>7. faults \in [drops : Nat, crashes : Nat]
    BY DEF RInit
  <2>8. DOMAIN session = Peer /\ session = [p \in Peer |-> session[p]]
    BY <2>4
  <2> QED BY <2>1, <2>2, <2>3, <2>5, <2>6, <2>7, <2>8 DEF ReconnectInv, ShapesOK, FirstInv
<1>2. ReconnectInv /\ [RNext]_rvars => ReconnectInv'
  <2>1. CASE RNext
    BY <2>1, FirstKeeps, OverStays DEF ReconnectInv
  <2>2. CASE UNCHANGED rvars
    <3>1. UNCHANGED vars /\ session' = session /\ faults' = faults
      BY <2>2 DEF rvars
    <3>2. TypeOK => TypeOK'
      BY <3>1 DEF vars, TypeOK
    <3>3. ExchangeInv => ExchangeInv'
      BY <3>1 DEF vars, ExchangeInv, ExchangePhase, SignatureUnderWay, AckUnderWay,
                  Awaiting, Commit, Remote, Carried
    <3>4. Recorded => Recorded'
      BY <3>1, StopRecords DEF vars
    <3>5. (ShapesOK => ShapesOK') /\ (Over => Over')
      BY <3>1 DEF ShapesOK, Over, Reconnected
    <3> QED BY <3>1, <3>2, <3>3, <3>4, <3>5 DEF ReconnectInv, FirstInv
  <2> QED BY <2>1, <2>2
<1> QED BY <1>1, <1>2, PTL DEF RSpec

\* Numbers that are in lockstep fit.
LEMMA LockstepFits ==
    ASSUME FirstInv, NEW p \in Peer, NEW secrets
    PROVE  NumbersFit(db[p], ln_channel_reestablish_create(db[Other(p)], secrets))
<1> DEFINE q == Other(p)
           c == Commit(q).commit_num
           d == Commit(p).commit_num
<1>1. q \in Peer /\ Other(q) = p
  BY PeerFacts
<1>2. /\ c \in Nat /\ d \in Nat
      /\ ExchangePhase(p) /\ ExchangePhase(q)
  BY <1>1, NumberTypes DEF FirstInv, ExchangeInv
<1>3. Remote(p).commit_num \in {c, c + 1}
  BY <1>2 DEF ExchangePhase
<1>4. Remote(q).revoke_num \in {d - 1, d - 2}
  BY <1>1, <1>2 DEF ExchangePhase
<1>5. /\ db[q].commit_local.commit_num = c
      /\ db[q].commit_remote.revoke_num = Remote(q).revoke_num
      /\ db[p].commit_remote.commit_num = Remote(p).commit_num
      /\ db[p].commit_local.revoke_num = d - 1
  BY <1>1 DEF FirstInv, Recorded, Numbers, PreviousRevoked, Commit, Remote
<1>6. PICK m : m = ln_channel_reestablish_create(db[q], secrets)
  OBVIOUS
<1>7. /\ m.next_local_commitment_number = c + 1
      /\ m.next_remote_revocation_number = Remote(q).revoke_num + 1
  BY <1>5, <1>6 DEF ln_channel_reestablish_create
<1>8. /\ c + 1 \in {Remote(p).commit_num, Remote(p).commit_num + 1}
      /\ Remote(q).revoke_num + 1 \in {d - 1, (d - 1) + 1}
  BY <1>2, <1>3, <1>4
<1> QED BY <1>5, <1>6, <1>7, <1>8 DEF NumbersFit

\* Wherever the first connection breaks, recv_channel_reestablish accepts the
\* numbers the databases of the two ends hold.
THEOREM DatabasesAlwaysFit == RSpec => []DatabasesFit
<1>1. ReconnectInv => DatabasesFit
  <2> SUFFICES ASSUME ReconnectInv, FirstConnection, NEW p \in Peer
               PROVE  NumbersFit(db[p], ln_channel_reestablish_create(
                                           db[Other(p)], storage[Other(p)]))
    BY DEF DatabasesFit
  <2>1. ~Over
    <3>1. session[p] = FirstSession
      BY DEF FirstConnection, FirstSession
    <3>2. FirstSession.phase = "loop" /\ FirstSession.flag_recv = {}
      BY DEF FirstSession, NewSession
    <3>3. ~Reconnected(p)
      BY <3>1, <3>2 DEF Reconnected
    <3> QED BY <3>3 DEF Over, FirstConnection
  <2> QED BY <2>1, LockstepFits DEF ReconnectInv
<1> QED BY <1>1, ReconnectInvariant, PTL
=============================================================================
