--------------------------- MODULE CommitLockstep ---------------------------
(***************************************************************************)
(* What the commitment_signed / revoke_and_ack exchange promises, without  *)
(* HTLCs, messages or flags: each end signs the peer's next commitment     *)
(* only when the previous one is acknowledged, the peer accepts what was   *)
(* signed, and its acceptance, which revokes the commitment before, comes  *)
(* back exactly once.  Channel implements this specification.              *)
(***************************************************************************)
EXTENDS Naturals

CONSTANTS End, Peer(_)      \* the two ends, and the peer of an end

VARIABLES
    signed,     \* the newest commitment of the peer that an end has signed
    accepted,   \* the newest commitment of its own that an end has accepted
    acked       \* the acceptances of the peer that an end has seen

exchange == <<signed, accepted, acked>>

LockstepInit ==
    /\ signed = [e \in End |-> 0]
    /\ accepted = [e \in End |-> 0]
    /\ acked = [e \in End |-> 0]

Sign(e) ==
    /\ signed[e] = acked[e]
    /\ signed' = [signed EXCEPT ![e] = @ + 1]
    /\ UNCHANGED <<accepted, acked>>

Accept(e) ==
    /\ signed[Peer(e)] = accepted[e] + 1
    /\ accepted' = [accepted EXCEPT ![e] = @ + 1]
    /\ UNCHANGED <<signed, acked>>

Acknowledge(e) ==
    /\ accepted[Peer(e)] = acked[e] + 1
    /\ acked' = [acked EXCEPT ![e] = @ + 1]
    /\ UNCHANGED <<signed, accepted>>

LockstepNext == \E e \in End : Sign(e) \/ Accept(e) \/ Acknowledge(e)

LockstepSpec == LockstepInit /\ [][LockstepNext]_exchange
=============================================================================
