--------------------------- MODULE SessionProofs ---------------------------
(***************************************************************************)
(* The safety of the transport, for every value of the constants of        *)
(* Session: any rotation period, any number of messages, pings, pongs,     *)
(* frames lost or damaged and key rotations.  Whoever leaves the handshake *)
(* knows its peer and holds its keys (Authenticated), what is handled is   *)
(* what was sent, in order (InOrder), no key meets a nonce twice           *)
(* (NonceOnce), two ends never lose step by rotating (RotatesTogether) and *)
(* no message comes before the init of its sender (InitFirst).             *)
(*                                                                         *)
(* The argument.  The handshake between two fixed nodes is deterministic,  *)
(* so its three acts are constants (ActOne, ActTwo, ActThree), and the     *)
(* phases of the two ends say which of them is first in a socket (Lead).   *)
(* After it, the key and the nonce of a cell are one number, its Place in  *)
(* the whole stream of nonces: the cells of the j-th message of one end    *)
(* are at 2j - 2 and 2j - 1, and a cipher that has done n messages stands  *)
(* at 2n.  A receiver that has handled n messages therefore opens a cell   *)
(* of message n + 1 and no other (Stream), and rotating changes no place.  *)
(* The exchange of init has an invariant of its own (InitInv), after that. *)
(***************************************************************************)
EXTENDS Session, FiniteSetTheorems, SequenceTheorems, TLAPS

----------------------------------------------------------------------------
(* The handshake, as it goes between the two nodes.                        *)

\* Act one of an initiator that dialled d, and the two acts that answer it.
ActOne(d) ==
    actone_sender(Initiator, ln_enc_auth_handshake_init("WAIT_ACT_TWO", Static(d)),
                  Static(d))
\* What the responder starts from.
WaitOne == ln_enc_auth_handshake_init("WAIT_ACT_ONE", Static(Responder))
\* Its answer to an initiator that dialled it, and what it waits with.
ActTwo ==
    LET msg == ActOne(Responder).msg
    IN  acttwo_sender(Responder,
                      MixHash(actone_receiver(Responder, WaitOne, msg), msg.c), msg.e)
WaitThree == [ActTwo.hs EXCEPT !.state = "WAIT_ACT_THREE"]
\* The answer of the initiator.
ActThree ==
    LET msg == ActTwo.msg
    IN  actthree_sender(Initiator,
            MixHash(acttwo_receiver(Initiator, ActOne(Responder).hs, msg), msg.c), msg.e)

\* The chaining key both ends are left with.
FinalKey == ActThree.hs.ck

\* The half of the last HKDF that s sends with.
Half(s) == IF s = Initiator THEN 1 ELSE 2

\* The node the initiator dialled.
Dialled == conf[Initiator].node_id

----------------------------------------------------------------------------
(* Types.                                                                  *)

HandshakeType == {NoHandshake, WaitOne, WaitThree}
                    \cup {ActOne(d).hs : d \in {Responder, Stranger}}
KeyType == [ck : {<<>>, FinalKey}, half : 0 .. 2, rotations : Nat]
CipherType == [key : KeyType, nonce : Nat]
MessageType == [type : {"init", "ping", "pong", "other"}, n : Nat \cup PongSizes]
CellType == [kind : {"cell"}, key : KeyType, nonce : Nat, msg : MessageType \cup {<<>>}]

SelfType == [ p_handshake : HandshakeType,
              noise_send : CipherType, noise_recv : CipherType,
              init_flag : SUBSET {"SEND", "RECV"}, missing_pong_cnt : Nat,
              last_num_pong_bytes : Nat \cup PongSizes ]

ConfType == [ loop : BOOLEAN, phase : Phase, cause : Cause, node_id : NodeId,
              flag_recv : SUBSET {"INIT"}, waited : BOOLEAN, ping_counter : Nat,
              pings : Nat, others : Nat ]

PollType == [ stage : {"idle", "counting", "sending"}, size : Nat \cup PongSizes,
              loaded : Nat ]

Types ==
    /\ self \in [Side -> SelfType]
    /\ conf \in [Side -> ConfType]
    /\ poll \in [Side -> PollType]
    /\ DOMAIN wire = Side
    /\ faults \in Nat
    /\ sent \in [Side -> Seq(MessageType)]
    /\ handled \in [Side -> Seq(MessageType)]
    /\ DOMAIN used = Side

----------------------------------------------------------------------------
(* The handshake: how far the two ends are apart, what each one has mixed, *)
(* and which message is under way.                                         *)

Apart ==
    \/ conf[Initiator].phase = "none" /\ conf[Responder].phase \in {"none", "act_one"}
    \/ /\ conf[Initiator].phase = "act_two"
       /\ conf[Responder].phase \in {"none", "act_one", "act_three"}
    \/ Threads(Initiator) /\ (conf[Responder].phase = "act_three" \/ Threads(Responder))

Mixed(s) ==
    conf[s].loop =>
        self[s].p_handshake =
            CASE conf[s].phase = "act_one" -> WaitOne
              [] conf[s].phase = "act_two" -> ActOne(Dialled).hs
              [] conf[s].phase = "act_three" -> WaitThree
              [] OTHER -> NoHandshake

\* The act that is first in the socket of s.
Lead(s) ==
    CASE s = Responder /\ conf[Initiator].phase = "act_two"
                       /\ conf[Responder].phase \in {"none", "act_one"} ->
            <<ActOne(Dialled).msg>>
      [] s = Initiator /\ conf[Initiator].phase = "act_two"
                       /\ conf[Responder].phase = "act_three" -> <<ActTwo.msg>>
      [] s = Responder /\ Threads(Initiator) /\ conf[Responder].phase = "act_three" ->
            <<ActThree.msg>>
      [] OTHER -> <<>>

Known ==
    /\ Dialled \in {Responder, Stranger}
    /\ conf[Responder].phase = "act_three" \/ Threads(Responder) => Dialled = Responder
    /\ Threads(Responder) => conf[Responder].node_id = Initiator

----------------------------------------------------------------------------
(* The frames of one direction.  ms: the messages sent, hs: the messages   *)
(* handled, h: the half of the sender.                                     *)

TrafficKeys(h) == [ck : {FinalKey}, half : {h}, rotations : Nat]
Nonce == 0 .. RotateAt - 1

\* Where in the whole stream of nonces a cipher or a cell is.
Place(rotations, nonce) == rotations * RotateAt + nonce
PlaceOf(x) == Place(x.key.rotations, x.nonce)

\* A cipher that has done the frames of ms.
InStep(n, h, ms) ==
    /\ n \in [key : TrafficKeys(h), nonce : Nonce]
    /\ n.nonce % 2 = 0
    /\ PlaceOf(n) = 2 * Len(ms)

\* A cell of the j-th message.
CellOf(c, h, ms, j) ==
    /\ c \in [kind : {"cell"}, key : TrafficKeys(h), nonce : Nonce, msg : MessageType]
    /\ c.msg = ms[j]
    /\ PlaceOf(c) \in {2 * j - 2, 2 * j - 1}

Genuine(c, h, ms) == \E j \in 1 .. Len(ms) : CellOf(c, h, ms, j)

\* cs: the cells under way, f: the frames that were lost or damaged.
Stream(cs, h, ms, hs, f) ==
    /\ cs \in Seq(CellType)
    /\ Len(cs) % 2 = 0 /\ Len(cs) <= 2 * Len(ms)
    /\ \A k \in 1 .. Len(cs) : cs[k] = Damaged \/ Genuine(cs[k], h, ms)
    /\ Len(hs) <= Len(ms)
    /\ \A j \in 1 .. Len(hs) : hs[j] = ms[j]
    /\ f = 0 => /\ Len(cs) = 2 * (Len(ms) - Len(hs))
                /\ \A k \in 1 .. Len(cs) : /\ Genuine(cs[k], h, ms)
                                           /\ PlaceOf(cs[k]) = 2 * Len(hs) + k - 1

\* us: the keys and nonces of the frames of ms.
UsedOnce(us, h, ms) ==
    /\ IsFiniteSet(us) /\ Cardinality(us) = 2 * Len(ms)
    /\ us \subseteq TrafficKeys(h) \X Nonce
    /\ \A u \in us : Place(u[1].rotations, u[2]) < 2 * Len(ms)

\* An end: its two ciphers and what they have done.
Ciphers(s) ==
    /\ IF Threads(s)
       THEN /\ InStep(self[s].noise_send, Half(s), sent[s])
            /\ InStep(self[s].noise_recv, Half(Other(s)), handled[s])
       ELSE sent[s] = <<>> /\ handled[s] = <<>>
    /\ UsedOnce(used[s], Half(s), sent[s])

\* The socket of s.
Flow(s) ==
    \E cs \in Seq(CellType) :
        /\ wire[s] = Lead(s) \o cs
        /\ Stream(cs, Half(Other(s)), sent[Other(s)], handled[s], faults)

(* The threads run once the handshake is done, and no end stops for a      *)
(* frame that it cannot read unless one was lost or damaged.               *)

Pinging(s) == poll[s].stage # "idle" => Threads(s)

Stopped(s) == conf[s].cause = "decode" => faults > 0

SessionInv ==
    /\ Types /\ Apart /\ Known
    /\ \A s \in Side : /\ Mixed(s) /\ Ciphers(s) /\ Flow(s)
                       /\ Pinging(s) /\ Stopped(s)

----------------------------------------------------------------------------
(* The acts.                                                               *)

\* Act one opens at the responder only for an initiator that dialled it.
LEMMA ActOneProves ==
    ASSUME NEW d,
           KeyActValid(actone_receiver(Responder, WaitOne, ActOne(d).msg), ActOne(d).msg)
    PROVE  d = Responder
<1>1. ActOne(d).msg.c.ad = Append(<<Static(d)>>, Ephemeral(Initiator))
  BY DEF ActOne, actone_sender, SendKeyAct, Tag, Encrypt, MixKey,
         ln_enc_auth_handshake_init, NoHandshake
<1>2. actone_receiver(Responder, WaitOne, ActOne(d).msg).h
        = Append(<<Static(Responder)>>, ActOne(d).msg.e)
  BY DEF WaitOne, actone_receiver, MixKey, ln_enc_auth_handshake_init, NoHandshake
<1>3. Append(<<Static(d)>>, Ephemeral(Initiator))
        = Append(<<Static(Responder)>>, ActOne(d).msg.e)
  BY <1>1, <1>2 DEF KeyActValid, Decrypts
<1>4. \A x, y : Append(<<x>>, y)[1] = x
  OBVIOUS
<1>5. Static(d) = Static(Responder)
  BY <1>3, <1>4
<1> QED BY <1>5 DEF Static

\* The kinds of the acts, and whom act three names.
LEMMA ActKinds ==
    /\ \A d : ActOne(d).msg.kind = "one"
    /\ ActTwo.msg.kind = "two"
    /\ ActThree.msg.kind = "three"
    /\ ActThree.msg.c.plain[2] = Initiator
    /\ ActThree.msg.t.key = FinalKey
<1>1. \A d : ActOne(d).msg.kind = "one"
  BY DEF ActOne, actone_sender, SendKeyAct
<1>2. ActTwo.msg.kind = "two"
  BY DEF ActTwo, acttwo_sender, SendKeyAct
<1>3. /\ ActThree.msg.kind = "three"
      /\ ActThree.msg.c.plain = Static(Initiator)
      /\ ActThree.msg.t.key = ActThree.hs.ck
  BY DEF ActThree, actthree_sender, Tag, Encrypt
<1> QED BY <1>1, <1>2, <1>3 DEF Static, FinalKey

----------------------------------------------------------------------------
(* Nonces.                                                                 *)

\* The two ends.
LEMMA SideFacts ==
    /\ Initiator \in Side /\ Responder \in Side
    /\ \A s \in Side : /\ Other(s) \in Side /\ Other(s) # s /\ Other(Other(s)) = s
                       /\ Half(s) \in 1 .. 2 /\ Half(s) # Half(Other(s))
    /\ Other(Initiator) = Responder /\ Other(Responder) = Initiator
BY SideAssumption DEF Side, Other, Half

\* One nonce further is one place further, and so is one rotation further.
LEMMA PlaceFacts ==
    ASSUME NEW r \in Nat, NEW n \in Nat
    PROVE  /\ Place(r, n) \in Nat
           /\ Place(r, n + 1) = Place(r, n) + 1
           /\ Place(r + 1, 0) = Place(r, 0) + RotateAt
           /\ Place(r, n) = Place(r, 0) + n
<1>1. r * RotateAt \in Nat /\ (r + 1) * RotateAt = r * RotateAt + RotateAt
  BY RotateAssumption
<1> QED BY <1>1, RotateAssumption DEF Place

\* A place has one key and one nonce.
LEMMA PlaceUnique ==
    ASSUME NEW r1 \in Nat, NEW r2 \in Nat, NEW n1 \in Nonce, NEW n2 \in Nonce,
           Place(r1, n1) = Place(r2, n2)
    PROVE  r1 = r2 /\ n1 = n2
<1>1. \A a, b \in Nat : a < b => b * RotateAt >= a * RotateAt + RotateAt
  <2> SUFFICES ASSUME NEW a \in Nat, NEW b \in Nat, a < b
               PROVE  b * RotateAt >= a * RotateAt + RotateAt
    OBVIOUS
  <2> DEFINE d == b - a - 1
  <2>1. d \in Nat /\ b = a + 1 + d
    OBVIOUS
  <2>2. d * RotateAt \in Nat /\ a * RotateAt \in Nat
    BY <2>1, RotateAssumption
  <2>3. b * RotateAt = a * RotateAt + RotateAt + d * RotateAt
    BY <2>1, RotateAssumption
  <2> QED BY <2>2, <2>3, RotateAssumption
<1>2. r1 * RotateAt \in Nat /\ r2 * RotateAt \in Nat
  BY RotateAssumption
<1>3. r1 * RotateAt + n1 = r2 * RotateAt + n2
  BY DEF Place
<1>4. r1 = r2
  BY <1>1, <1>2, <1>3, RotateAssumption DEF Nonce
<1> QED BY <1>2, <1>3, <1>4 DEF Nonce

\* A frame takes two places: the nonce of the length is never the last one.
LEMMA TwoNonces ==
    ASSUME NEW h, NEW ms \in Seq(MessageType), NEW n, InStep(n, h, ms)
    PROVE  LET m == [n EXCEPT !.nonce = @ + 1]
           IN  /\ n.nonce + 1 \in Nonce
               /\ m = [key |-> n.key, nonce |-> n.nonce + 1]
               /\ PlaceOf(m) = 2 * Len(ms) + 1
               /\ \A msg \in MessageType : InStep(SecondNonce(m), h, Append(ms, msg))
<1> DEFINE m == [n EXCEPT !.nonce = @ + 1]
<1>1. /\ n \in [key : TrafficKeys(h), nonce : Nonce] /\ n.nonce % 2 = 0
      /\ PlaceOf(n) = 2 * Len(ms)
  BY DEF InStep
<1>2. n.nonce \in Nat /\ n.nonce < RotateAt /\ n.nonce + 1 # RotateAt
  BY <1>1, RotateAssumption DEF Nonce
<1>3. n.nonce + 1 \in Nonce
  BY <1>2, RotateAssumption DEF Nonce
<1>4. m = [key |-> n.key, nonce |-> n.nonce + 1]
  BY <1>1
<1>5. n.key \in TrafficKeys(h) /\ n.key.rotations \in Nat
  BY <1>1 DEF TrafficKeys
<1> DEFINE r == n.key.rotations
           x == n.nonce
<1>6. /\ Place(r, x) = 2 * Len(ms) /\ Place(r, x + 1) = 2 * Len(ms) + 1
      /\ x + 2 = RotateAt => Place(r + 1, 0) = 2 * (Len(ms) + 1)
      /\ Place(r, x + 2) = 2 * (Len(ms) + 1)
  <2> HIDE DEF r, x
  <2>1. Place(r, x) = 2 * Len(ms)
    BY <1>1 DEF PlaceOf, r, x
  <2>2. r \in Nat /\ x \in Nat /\ Len(ms) \in Nat
    BY <1>2, <1>5 DEF r, x
  <2>3. Place(r, x + 1) = Place(r, x) + 1
    BY <2>2, PlaceFacts
  <2>4. Place(r, (x + 1) + 1) = Place(r, x + 1) + 1
    BY <2>2, PlaceFacts
  <2>5. x + 2 = (x + 1) + 1
    BY <2>2
  <2>6. /\ Place(r + 1, 0) = Place(r, 0) + RotateAt /\ Place(r, x) = Place(r, 0) + x
        /\ Place(r, 0) \in Nat
    BY <2>2, PlaceFacts
  <2>7. x + 2 = RotateAt => Place(r + 1, 0) = 2 * (Len(ms) + 1)
    BY <2>1, <2>2, <2>6
  <2> QED BY <2>1, <2>2, <2>3, <2>4, <2>5, <2>7
<1>7. PlaceOf(m) = 2 * Len(ms) + 1
  BY <1>4, <1>6 DEF PlaceOf
<1>8. ASSUME NEW msg \in MessageType PROVE InStep(SecondNonce(m), h, Append(ms, msg))
  <2>1. Len(Append(ms, msg)) = Len(ms) + 1 /\ Len(ms) \in Nat
    OBVIOUS
  <2> HIDE DEF m
  <2>2. CASE m.nonce + 1 = RotateAt
    <3> DEFINE k == [n.key EXCEPT !.rotations = @ + 1]
               c == [key |-> k, nonce |-> 0]
    <3>1. SecondNonce(m) = c
      BY <2>2, <1>4 DEF SecondNonce, noise_hkdf
    <3>2. k \in TrafficKeys(h) /\ k.rotations = n.key.rotations + 1
      BY <1>5 DEF TrafficKeys
    <3>3. x + 2 = RotateAt
      BY <2>2, <1>2, <1>4
    <3>4. PlaceOf(c) = 2 * (Len(ms) + 1)
      BY <3>2, <3>3, <1>6 DEF PlaceOf
    <3>5. c \in [key : TrafficKeys(h), nonce : Nonce] /\ c.nonce % 2 = 0
      BY <3>2, RotateAssumption DEF Nonce
    <3> QED BY <3>1, <3>4, <3>5, <2>1 DEF InStep
  <2>3. CASE m.nonce + 1 # RotateAt
    <3> DEFINE c == [key |-> n.key, nonce |-> n.nonce + 2]
    <3>1. m.nonce + 1 = n.nonce + 2
      BY <1>2, <1>4
    <3>2. SecondNonce(m) = c
      BY <2>3, <3>1, <1>4 DEF SecondNonce
    <3>3. PlaceOf(c) = 2 * (Len(ms) + 1)
      BY <1>6 DEF PlaceOf
    <3>4. n.nonce + 2 \in Nonce /\ (n.nonce + 2) % 2 = 0
      BY <2>3, <1>1, <1>2, <1>3, <1>4, RotateAssumption DEF Nonce
    <3> QED BY <3>2, <3>3, <3>4, <2>1, <1>5 DEF InStep
  <2> QED BY <2>2, <2>3
<1> QED BY <1>3, <1>4, <1>7, <1>8

----------------------------------------------------------------------------
(* Frames.                                                                 *)

\* ln_enc_auth_enc makes two cells of the next message.
LEMMA FrameMade ==
    ASSUME NEW h \in 1 .. 2, NEW ms \in Seq(MessageType), NEW n, InStep(n, h, ms),
           NEW msg \in MessageType
    PROVE  LET frame == ln_enc_auth_enc(n, msg)
               m == [key |-> n.key, nonce |-> n.nonce + 1]
           IN  /\ InStep(frame.cipher, h, Append(ms, msg))
               /\ frame.cells = <<Cell(n, msg), Cell(m, msg)>>
               /\ CellOf(Cell(n, msg), h, Append(ms, msg), Len(ms) + 1)
               /\ CellOf(Cell(m, msg), h, Append(ms, msg), Len(ms) + 1)
               /\ PlaceOf(Cell(n, msg)) = 2 * Len(ms)
               /\ PlaceOf(Cell(m, msg)) = 2 * Len(ms) + 1
<1> DEFINE m == [key |-> n.key, nonce |-> n.nonce + 1]
           ns == Append(ms, msg)
<1>1. /\ m = [n EXCEPT !.nonce = @ + 1] /\ m.nonce \in Nonce
      /\ PlaceOf(m) = 2 * Len(ms) + 1 /\ InStep(SecondNonce(m), h, ns)
  BY TwoNonces
<1>2. n \in [key : TrafficKeys(h), nonce : Nonce] /\ PlaceOf(n) = 2 * Len(ms)
  BY DEF InStep
<1>3. m.nonce # RotateAt
  BY <1>1, RotateAssumption DEF Nonce
<1>4. ln_enc_auth_enc(n, msg)
        = [cipher |-> SecondNonce(m), cells |-> <<Cell(n, msg), Cell(m, msg)>>]
  BY <1>1, <1>3 DEF ln_enc_auth_enc
<1>5. Len(ms) \in Nat /\ ns[Len(ms) + 1] = msg
  OBVIOUS
<1>6. /\ Cell(n, msg) \in [kind : {"cell"}, key : TrafficKeys(h), nonce : Nonce,
                           msg : MessageType]
      /\ Cell(n, msg).msg = msg /\ PlaceOf(Cell(n, msg)) = PlaceOf(n)
  BY <1>2 DEF Cell, PlaceOf
<1>7. /\ Cell(m, msg) \in [kind : {"cell"}, key : TrafficKeys(h), nonce : Nonce,
                           msg : MessageType]
      /\ Cell(m, msg).msg = msg /\ PlaceOf(Cell(m, msg)) = PlaceOf(m)
  BY <1>1, <1>2 DEF Cell, PlaceOf
<1> HIDE DEF m, ns
<1>8. CellOf(Cell(n, msg), h, ns, Len(ms) + 1)
  BY <1>2, <1>5, <1>6 DEF CellOf
<1>9. CellOf(Cell(m, msg), h, ns, Len(ms) + 1)
  BY <1>1, <1>5, <1>7 DEF CellOf
<1> QED BY <1>1, <1>2, <1>4, <1>6, <1>7, <1>8, <1>9 DEF m, ns

\* The pairs of a frame are new.
LEMMA PairsNew ==
    ASSUME NEW h \in 1 .. 2, NEW ms \in Seq(MessageType), NEW n, InStep(n, h, ms),
           NEW msg \in MessageType, NEW us, UsedOnce(us, h, ms)
    PROVE  LET cells == ln_enc_auth_enc(n, msg).cells
           IN  UsedOnce(us \cup {<<cells[i].key, cells[i].nonce>> : i \in DOMAIN cells},
                        h, Append(ms, msg))
<1> DEFINE m == [key |-> n.key, nonce |-> n.nonce + 1]
           cells == ln_enc_auth_enc(n, msg).cells
           u1 == <<n.key, n.nonce>>
           u2 == <<n.key, n.nonce + 1>>
           pairs == {<<cells[i].key, cells[i].nonce>> : i \in DOMAIN cells}
<1>1. cells = <<Cell(n, msg), Cell(m, msg)>>
  BY FrameMade
<1>2. pairs = {u1, u2}
  BY <1>1 DEF Cell
<1>3. /\ n.key \in TrafficKeys(h) /\ n.nonce \in Nonce /\ n.nonce + 1 \in Nonce
      /\ Place(n.key.rotations, n.nonce) = 2 * Len(ms)
      /\ Place(n.key.rotations, n.nonce + 1) = 2 * Len(ms) + 1
  BY TwoNonces DEF InStep, PlaceOf
<1>4. /\ u1 \in TrafficKeys(h) \X Nonce /\ u2 \in TrafficKeys(h) \X Nonce /\ u1 # u2
      /\ Place(u1[1].rotations, u1[2]) = 2 * Len(ms)
      /\ Place(u2[1].rotations, u2[2]) = 2 * Len(ms) + 1
  BY <1>3 DEF Nonce
<1>5. Len(ms) \in Nat /\ Len(Append(ms, msg)) = Len(ms) + 1
  OBVIOUS
<1> HIDE DEF u1, u2, cells, pairs
<1>6. /\ IsFiniteSet(us) /\ Cardinality(us) = 2 * Len(ms)
      /\ us \subseteq TrafficKeys(h) \X Nonce
      /\ \A u \in us : Place(u[1].rotations, u[2]) < 2 * Len(ms)
  BY DEF UsedOnce
<1>7. u1 \notin us
  BY <1>4, <1>5, <1>6
<1>8. u2 \notin us \cup {u1}
  <2>1. u2 \notin us
    <3> SUFFICES ASSUME u2 \in us PROVE FALSE
      OBVIOUS
    <3>1. 2 * Len(ms) + 1 < 2 * Len(ms)
      BY <1>4, <1>6
    <3> QED BY <3>1, <1>5
  <2> QED BY <2>1, <1>4
<1>9. IsFiniteSet(us \cup {u1}) /\ Cardinality(us \cup {u1}) = 2 * Len(ms) + 1
  BY <1>6, <1>7, FS_AddElement
<1>10. /\ IsFiniteSet((us \cup {u1}) \cup {u2})
       /\ Cardinality((us \cup {u1}) \cup {u2}) = (2 * Len(ms) + 1) + 1
  BY <1>8, <1>9, FS_AddElement
<1>11. us \cup pairs = (us \cup {u1}) \cup {u2}
  BY <1>2
<1>12. Cardinality(us \cup pairs) = 2 * (Len(ms) + 1) /\ IsFiniteSet(us \cup pairs)
  <2>1. (2 * Len(ms) + 1) + 1 = 2 * (Len(ms) + 1)
    BY <1>5
  <2> QED BY <2>1, <1>10, <1>11
<1>13. us \cup pairs \subseteq TrafficKeys(h) \X Nonce
  <2>1. us \cup pairs = us \cup {u1, u2}
    BY <1>2
  <2> QED BY <2>1, <1>4, <1>6, Zenon
<1>14. ASSUME NEW u \in us \cup pairs
       PROVE  Place(u[1].rotations, u[2]) < 2 * (Len(ms) + 1)
  <2>1. CASE u \in us
    <3>1. u[1].rotations \in Nat /\ u[2] \in Nat
      BY <2>1, <1>6, RotateAssumption DEF TrafficKeys, Nonce
    <3>2. Place(u[1].rotations, u[2]) \in Nat
      BY <3>1, PlaceFacts
    <3> QED BY <2>1, <3>2, <1>5, <1>6
  <2>2. CASE u = u1
    BY <2>2, <1>4, <1>5
  <2>3. CASE u = u2
    BY <2>3, <1>4, <1>5
  <2> QED BY <2>1, <2>2, <2>3, <1>11
<1> QED BY <1>5, <1>12, <1>13, <1>14 DEF UsedOnce, pairs, cells

\* A cell stays genuine when more is sent.
LEMMA GenuineKept ==
    ASSUME NEW h, NEW ms \in Seq(MessageType), NEW msg \in MessageType, NEW c,
           Genuine(c, h, ms)
    PROVE  Genuine(c, h, Append(ms, msg))
<1>1. PICK j \in 1 .. Len(ms) : CellOf(c, h, ms, j)
  BY DEF Genuine
<1>2. j \in 1 .. Len(Append(ms, msg)) /\ Append(ms, msg)[j] = ms[j]
  OBVIOUS
<1>3. CellOf(c, h, Append(ms, msg), j)
  BY <1>1, <1>2 DEF CellOf
<1> QED BY <1>2, <1>3 DEF Genuine

\* A damaged cell is a cell like any other.
LEMMA DamagedType ==
    Damaged \in CellType /\ Damaged.key.half = 0
BY DEF Damaged, NoCipher, Cipher, TrafficKey, CellType, KeyType

\* So is a genuine one.
LEMMA GenuineType ==
    ASSUME NEW h \in 1 .. 2, NEW ms, NEW c, Genuine(c, h, ms)
    PROVE  /\ c \in CellType /\ c # Damaged
           /\ c.key \in TrafficKeys(h) /\ c.nonce \in Nonce
<1>1. c \in [kind : {"cell"}, key : TrafficKeys(h), nonce : Nonce, msg : MessageType]
  BY DEF Genuine, CellOf
<1>2. TrafficKeys(h) \subseteq KeyType /\ Nonce \subseteq Nat
  BY RotateAssumption DEF TrafficKeys, KeyType, Nonce
<1>3. c \in CellType
  BY <1>1, <1>2 DEF CellType
<1>4. c.key.half = h
  BY <1>1 DEF TrafficKeys
<1> QED BY <1>1, <1>3, <1>4, DamagedType

\* What send_peer_noise writes, whatever becomes of the frame.
LEMMA StreamGrows ==
    ASSUME NEW h \in 1 .. 2, NEW ms \in Seq(MessageType), NEW hs \in Seq(MessageType),
           NEW cs, NEW f \in Nat, Stream(cs, h, ms, hs, f),
           NEW n, InStep(n, h, ms), NEW msg \in MessageType, NEW fate \in Fate,
           NEW g, g = IF fate = "written" THEN f ELSE f + 1
    PROVE  LET out == Written(ln_enc_auth_enc(n, msg).cells, fate)
           IN  Stream(cs \o out, h, Append(ms, msg), hs, g)
<1> DEFINE m == [key |-> n.key, nonce |-> n.nonce + 1]
           cells == ln_enc_auth_enc(n, msg).cells
           out == Written(cells, fate)
           ns == Append(ms, msg)
           c1 == Cell(n, msg)
           c2 == Cell(m, msg)
<1>1. /\ cells = <<c1, c2>>
      /\ CellOf(c1, h, ns, Len(ms) + 1) /\ CellOf(c2, h, ns, Len(ms) + 1)
      /\ PlaceOf(c1) = 2 * Len(ms) /\ PlaceOf(c2) = 2 * Len(ms) + 1
  BY FrameMade
<1>2. /\ Len(ms) \in Nat /\ Len(ns) = Len(ms) + 1 /\ Len(hs) \in Nat
      /\ \A j \in 1 .. Len(ms) : ns[j] = ms[j]
  OBVIOUS
<1> HIDE DEF c1, c2, m, ns, cells, out
<1>3. Genuine(c1, h, ns) /\ Genuine(c2, h, ns)
  BY <1>1, <1>2 DEF Genuine
<1>4. c1 \in CellType /\ c2 \in CellType
  BY <1>3, GenuineType
<1>5. /\ cs \in Seq(CellType) /\ Len(cs) \in Nat
      /\ Len(cs) % 2 = 0 /\ Len(cs) <= 2 * Len(ms)
      /\ \A k \in 1 .. Len(cs) : cs[k] = Damaged \/ Genuine(cs[k], h, ms)
      /\ Len(hs) <= Len(ms)
      /\ \A j \in 1 .. Len(hs) : hs[j] = ms[j]
      /\ f = 0 => /\ Len(cs) = 2 * (Len(ms) - Len(hs))
                  /\ \A k \in 1 .. Len(cs) : /\ Genuine(cs[k], h, ms)
                                             /\ PlaceOf(cs[k]) = 2 * Len(hs) + k - 1
  BY DEF Stream
<1>6. \A k \in 1 .. Len(cs) : Genuine(cs[k], h, ms) => Genuine(cs[k], h, ns)
  BY GenuineKept DEF ns
<1>7. Len(hs) <= Len(ns) /\ \A j \in 1 .. Len(hs) : hs[j] = ns[j]
  <2>1. \A j \in 1 .. Len(hs) : j \in 1 .. Len(ms)
    BY <1>2, <1>5
  <2> QED BY <2>1, <1>2, <1>5
<1>8. Len(cs) + 2 <= 2 * Len(ns) /\ Len(cs) <= 2 * Len(ns)
  <2>1. Len(cs) \in Nat /\ Len(cs) <= 2 * Len(ms)
    BY <1>5
  <2>2. Len(ms) \in Nat /\ Len(ns) = Len(ms) + 1
    BY <1>2
  <2> QED BY <2>1, <2>2
<1> SUFFICES Stream(cs \o out, h, ns, hs, g)
  BY DEF ns, out, cells
<1>9. CASE fate = "lost"
  <2>1. out = <<>>
    BY <1>9 DEF out, Written
  <2>2. cs \o out = cs
    BY <2>1, <1>5
  <2>3. g # 0
    BY <1>9
  <2>4. \A k \in 1 .. Len(cs) : cs[k] = Damaged \/ Genuine(cs[k], h, ns)
    BY <1>5, <1>6
  <2>6. Stream(cs, h, ns, hs, g)
    BY <2>3, <2>4, <1>5, <1>7, <1>8 DEF Stream
  <2> QED BY <2>2, <2>6
<1>10. ASSUME NEW a \in CellType, NEW b \in CellType, out = <<a, b>>
      PROVE  /\ cs \o out \in Seq(CellType) /\ Len(cs \o out) = Len(cs) + 2
             /\ \A k \in 1 .. Len(cs) : (cs \o out)[k] = cs[k]
             /\ (cs \o out)[Len(cs) + 1] = a /\ (cs \o out)[Len(cs) + 2] = b
             /\ \A k \in 1 .. Len(cs \o out) :
                    k \in 1 .. Len(cs) \/ k = Len(cs) + 1 \/ k = Len(cs) + 2
             /\ Len(cs \o out) % 2 = 0 /\ Len(cs \o out) <= 2 * Len(ns)
  <2>1. /\ <<a, b>> \in Seq(CellType) /\ Len(<<a, b>>) = 2
        /\ <<a, b>>[1] = a /\ <<a, b>>[2] = b
    OBVIOUS
  <2>2. /\ cs \o out \in Seq(CellType) /\ Len(cs \o out) = Len(cs) + 2
        /\ \A k \in 1 .. Len(cs) : (cs \o out)[k] = cs[k]
        /\ (cs \o out)[Len(cs) + 1] = a /\ (cs \o out)[Len(cs) + 2] = b
    BY <2>1, <1>5, <1>10
  <2>3. ASSUME NEW l \in Nat, l % 2 = 0
        PROVE  /\ (l + 2) % 2 = 0
               /\ \A k \in 1 .. l + 2 : k \in 1 .. l \/ k = l + 1 \/ k = l + 2
    BY <2>3
  <2> QED BY <2>2, <2>3, <1>5, <1>8
<1>11. CASE fate = "damaged"
  <2>1. out = <<Damaged, Damaged>>
    BY <1>11, <1>1 DEF out, Written
  <2> DEFINE ds == cs \o out
  <2>2. /\ ds \in Seq(CellType) /\ Len(ds) % 2 = 0 /\ Len(ds) <= 2 * Len(ns)
        /\ \A k \in 1 .. Len(cs) : ds[k] = cs[k]
        /\ ds[Len(cs) + 1] = Damaged /\ ds[Len(cs) + 2] = Damaged
        /\ \A k \in 1 .. Len(ds) :
                k \in 1 .. Len(cs) \/ k = Len(cs) + 1 \/ k = Len(cs) + 2
    BY <2>1, <1>10, DamagedType
  <2> HIDE DEF ds
  <2>3. g # 0
    BY <1>11
  <2>4. ASSUME NEW k \in 1 .. Len(ds) PROVE ds[k] = Damaged \/ Genuine(ds[k], h, ns)
    <3>1. CASE k \in 1 .. Len(cs)
      BY <3>1, <2>2, <1>5, <1>6
    <3> QED BY <3>1, <2>2
  <2>5. Stream(ds, h, ns, hs, g)
    BY <2>2, <2>3, <2>4, <1>7 DEF Stream
  <2> QED BY <2>5 DEF ds
<1>12. CASE fate = "written"
  <2>1. out = <<c1, c2>>
    BY <1>12, <1>1 DEF out, Written
  <2> DEFINE ds == cs \o out
  <2>2. /\ ds \in Seq(CellType) /\ Len(ds) = Len(cs) + 2
        /\ Len(ds) % 2 = 0 /\ Len(ds) <= 2 * Len(ns)
        /\ \A k \in 1 .. Len(cs) : ds[k] = cs[k]
        /\ ds[Len(cs) + 1] = c1 /\ ds[Len(cs) + 2] = c2
        /\ \A k \in 1 .. Len(ds) :
                k \in 1 .. Len(cs) \/ k = Len(cs) + 1 \/ k = Len(cs) + 2
    BY <2>1, <1>4, <1>10
  <2> HIDE DEF ds
  <2>3. g = f
    BY <1>12
  <2>4. ASSUME NEW k \in 1 .. Len(ds) PROVE ds[k] = Damaged \/ Genuine(ds[k], h, ns)
    <3>1. CASE k \in 1 .. Len(cs)
      BY <3>1, <2>2, <1>5, <1>6
    <3> QED BY <3>1, <2>2, <1>3
  <2>5. ASSUME f = 0
        PROVE  /\ Len(ds) = 2 * (Len(ns) - Len(hs))
               /\ \A k \in 1 .. Len(ds) : /\ Genuine(ds[k], h, ns)
                                          /\ PlaceOf(ds[k]) = 2 * Len(hs) + k - 1
    <3>1. Len(cs) = 2 * (Len(ms) - Len(hs))
      BY <2>5, <1>5
    <3>2. /\ Len(cs) + 2 = 2 * (Len(ns) - Len(hs))
          /\ 2 * Len(ms) = 2 * Len(hs) + (Len(cs) + 1) - 1
          /\ 2 * Len(ms) + 1 = 2 * Len(hs) + (Len(cs) + 2) - 1
      BY <3>1, <1>2
    <3>3. ASSUME NEW k \in 1 .. Len(ds)
          PROVE  Genuine(ds[k], h, ns) /\ PlaceOf(ds[k]) = 2 * Len(hs) + k - 1
      <4>1. CASE k \in 1 .. Len(cs)
        <5>1. Genuine(cs[k], h, ms) /\ PlaceOf(cs[k]) = 2 * Len(hs) + k - 1
          BY <4>1, <2>5, <1>5
        <5> QED BY <5>1, <4>1, <2>2, <1>6
      <4>2. CASE k = Len(cs) + 1
        <5>1. ds[k] = c1
          BY <4>2, <2>2
        <5> QED BY <5>1, <4>2, <3>2, <1>1, <1>3
      <4>3. CASE k = Len(cs) + 2
        <5>1. ds[k] = c2
          BY <4>3, <2>2
        <5> QED BY <5>1, <4>3, <3>2, <1>1, <1>3
      <4> QED BY <4>1, <4>2, <4>3, <2>2
    <3> QED BY <3>2, <3>3, <2>2
  <2>6. Stream(ds, h, ns, hs, f)
    BY <2>2, <2>4, <2>5, <1>7 DEF Stream
  <2> QED BY <2>3, <2>6 DEF ds
<1> QED BY <1>9, <1>11, <1>12 DEF Fate

\* Dropping the first frame of what is under way.
LEMMA FrameDropped ==
    ASSUME NEW cs \in Seq(CellType), Len(cs) % 2 = 0, cs # <<>>
    PROVE  LET ds == SubSeq(cs, 3, Len(cs))
           IN  /\ ds \in Seq(CellType) /\ Len(ds) = Len(cs) - 2 /\ Len(cs) >= 2
               /\ \A k \in 1 .. Len(ds) : k + 2 \in 1 .. Len(cs) /\ ds[k] = cs[k + 2]
<1> DEFINE ds == SubSeq(cs, 3, Len(cs))
<1>1. Len(cs) \in Nat /\ Len(cs) # 0
  OBVIOUS
<1>2. Len(cs) >= 2
  BY <1>1
<1>3. /\ ds \in Seq(CellType) /\ Len(ds) = Len(cs) - 2
      /\ \A k \in 1 .. Len(cs) - 2 : ds[k] = cs[k + 2]
  <2>1. \A k \in 3 .. Len(cs) : cs[k] \in CellType
    OBVIOUS
  <2>2. CASE Len(cs) = 2
    BY <1>1, <2>2
  <2>3. CASE Len(cs) > 2
    <3>1. 3 \in 1 .. Len(cs) /\ Len(cs) \in 1 .. Len(cs) /\ 3 <= Len(cs)
      BY <1>1, <2>3
    <3>2. ds \in Seq(CellType)
      BY <3>1, <1>1
    <3>3. Len(ds) = Len(cs) - 2
      BY <3>1, <1>1
    <3>4. ASSUME NEW k \in 1 .. Len(cs) - 2 PROVE ds[k] = cs[k + 2]
      BY <3>1, <1>1
    <3> QED BY <3>2, <3>3, <3>4
  <2>4. Len(cs) = 2 \/ Len(cs) > 2
    BY <1>1, <1>2
  <2> HIDE DEF ds
  <2> QED BY <2>2, <2>3, <2>4
<1> HIDE DEF ds
<1>4. \A k \in 1 .. Len(cs) - 2 : k + 2 \in 1 .. Len(cs)
  BY <1>1
<1> QED BY <1>2, <1>3, <1>4 DEF ds

\* A frame that opens is the next message, and the cipher goes on with the
\* sender's.
LEMMA StreamTaken ==
    ASSUME NEW h \in 1 .. 2, NEW ms \in Seq(MessageType), NEW hs \in Seq(MessageType),
           NEW cs, NEW f \in Nat, Stream(cs, h, ms, hs, f), cs # <<>>,
           NEW n, InStep(n, h, hs),
           Opens(n, cs[1]), Opens(ln_enc_auth_dec_len(n), cs[2])
    PROVE  LET msg == cs[2].msg
           IN  /\ Len(hs) + 1 \in 1 .. Len(ms) /\ msg = ms[Len(hs) + 1]
               /\ msg \in MessageType
               /\ InStep(ln_enc_auth_dec_msg(ln_enc_auth_dec_len(n)), h, Append(hs, msg))
               /\ Stream(SubSeq(cs, 3, Len(cs)), h, ms, Append(hs, msg), f)
<1> DEFINE msg == cs[2].msg
           ds == SubSeq(cs, 3, Len(cs))
           m == [key |-> n.key, nonce |-> n.nonce + 1]
<1>1. /\ cs \in Seq(CellType) /\ Len(cs) \in Nat /\ Len(ms) \in Nat /\ Len(hs) \in Nat
      /\ Len(cs) % 2 = 0 /\ Len(cs) <= 2 * Len(ms)
      /\ \A k \in 1 .. Len(cs) : cs[k] = Damaged \/ Genuine(cs[k], h, ms)
      /\ Len(hs) <= Len(ms)
      /\ \A j \in 1 .. Len(hs) : hs[j] = ms[j]
      /\ f = 0 => /\ Len(cs) = 2 * (Len(ms) - Len(hs))
                  /\ \A k \in 1 .. Len(cs) : /\ Genuine(cs[k], h, ms)
                                             /\ PlaceOf(cs[k]) = 2 * Len(hs) + k - 1
  BY DEF Stream
<1>2. /\ ds \in Seq(CellType) /\ Len(ds) = Len(cs) - 2 /\ Len(cs) >= 2
      /\ \A k \in 1 .. Len(ds) : k + 2 \in 1 .. Len(cs) /\ ds[k] = cs[k + 2]
  BY <1>1, FrameDropped
<1>3. /\ m = [n EXCEPT !.nonce = @ + 1] /\ PlaceOf(m) = 2 * Len(hs) + 1
      /\ \A x \in MessageType : InStep(SecondNonce(m), h, Append(hs, x))
      /\ m.key \in TrafficKeys(h)
  <2>1. n.key \in TrafficKeys(h)
    BY DEF InStep
  <2> QED BY <2>1, TwoNonces
<1>4. ln_enc_auth_dec_len(n) = m
  BY <1>3 DEF ln_enc_auth_dec_len
<1> HIDE DEF m, msg, ds
<1>5. cs[2].key = m.key /\ cs[2].nonce = m.nonce
  BY <1>4 DEF Opens
<1>6. cs[2] # Damaged
  <2>1. m.key.half = h
    BY <1>3 DEF TrafficKeys
  <2> QED BY <2>1, <1>5, DamagedType
<1>7. Genuine(cs[2], h, ms)
  BY <1>1, <1>2, <1>6
<1>8. PICK j \in 1 .. Len(ms) : CellOf(cs[2], h, ms, j)
  BY <1>7 DEF Genuine
<1>9. PlaceOf(cs[2]) = 2 * Len(hs) + 1
  BY <1>3, <1>5 DEF PlaceOf
<1>10. j = Len(hs) + 1
  BY <1>1, <1>8, <1>9 DEF CellOf
<1>11. msg = ms[Len(hs) + 1] /\ msg \in MessageType /\ Len(hs) + 1 \in 1 .. Len(ms)
  BY <1>8, <1>10 DEF CellOf, msg
<1>12. InStep(SecondNonce(m), h, Append(hs, msg))
  BY <1>3, <1>11
<1> DEFINE gs == Append(hs, msg)
<1>13. Len(gs) = Len(hs) + 1 /\ \A i \in 1 .. Len(gs) : gs[i] = ms[i]
  <2>1. /\ Len(gs) = Len(hs) + 1 /\ gs[Len(hs) + 1] = msg
        /\ \A i \in 1 .. Len(hs) : gs[i] = hs[i]
    BY <1>11
  <2> HIDE DEF gs
  <2>2. ASSUME NEW i \in 1 .. Len(hs) + 1 PROVE gs[i] = ms[i]
    <3>1. CASE i = Len(hs) + 1
      BY <3>1, <2>1, <1>11
    <3>2. CASE i \in 1 .. Len(hs)
      BY <3>2, <2>1, <1>1
    <3> QED BY <3>1, <3>2, <1>1
  <2> QED BY <2>1, <2>2
<1> HIDE DEF gs
<1>14. \A k \in 1 .. Len(ds) : ds[k] = Damaged \/ Genuine(ds[k], h, ms)
  BY <1>1, <1>2
<1>15. /\ Len(ds) % 2 = 0 /\ Len(ds) <= 2 * Len(ms) /\ Len(gs) <= Len(ms)
  BY <1>1, <1>2, <1>11, <1>13
<1>16. ASSUME f = 0
       PROVE  /\ Len(ds) = 2 * (Len(ms) - Len(gs))
              /\ \A k \in 1 .. Len(ds) : /\ Genuine(ds[k], h, ms)
                                         /\ PlaceOf(ds[k]) = 2 * Len(gs) + k - 1
  <2>1. Len(ds) = 2 * (Len(ms) - Len(gs))
    BY <1>1, <1>2, <1>13, <1>16
  <2>2. ASSUME NEW k \in 1 .. Len(ds)
        PROVE  Genuine(ds[k], h, ms) /\ PlaceOf(ds[k]) = 2 * Len(gs) + k - 1
    <3>1. k + 2 \in 1 .. Len(cs) /\ ds[k] = cs[k + 2]
      BY <1>2
    <3>2. Genuine(cs[k + 2], h, ms) /\ PlaceOf(cs[k + 2]) = 2 * Len(hs) + (k + 2) - 1
      BY <3>1, <1>1, <1>16
    <3>3. 2 * Len(hs) + (k + 2) - 1 = 2 * Len(gs) + k - 1
      BY <1>1, <1>2, <1>13
    <3> QED BY <3>1, <3>2, <3>3
  <2> QED BY <2>1, <2>2
<1>17. Stream(ds, h, ms, gs, f)
  BY <1>2, <1>13, <1>14, <1>15, <1>16 DEF Stream
<1> QED BY <1>4, <1>11, <1>12, <1>17 DEF ln_enc_auth_dec_msg, msg, ds, gs

\* With no fault every frame opens; after a fault dropping one does no harm.
LEMMA StreamFails ==
    ASSUME NEW h \in 1 .. 2, NEW ms \in Seq(MessageType), NEW hs \in Seq(MessageType),
           NEW cs, NEW f \in Nat, Stream(cs, h, ms, hs, f), cs # <<>>,
           NEW n, InStep(n, h, hs),
           ~(Opens(n, cs[1]) /\ Opens(ln_enc_auth_dec_len(n), cs[2]))
    PROVE  f > 0 /\ Stream(SubSeq(cs, 3, Len(cs)), h, ms, hs, f)
<1> DEFINE ds == SubSeq(cs, 3, Len(cs))
           m == [key |-> n.key, nonce |-> n.nonce + 1]
<1>1. /\ cs \in Seq(CellType) /\ Len(cs) \in Nat /\ Len(ms) \in Nat /\ Len(hs) \in Nat
      /\ Len(cs) % 2 = 0 /\ Len(cs) <= 2 * Len(ms)
      /\ \A k \in 1 .. Len(cs) : cs[k] = Damaged \/ Genuine(cs[k], h, ms)
      /\ f = 0 => \A k \in 1 .. Len(cs) : /\ Genuine(cs[k], h, ms)
                                          /\ PlaceOf(cs[k]) = 2 * Len(hs) + k - 1
  BY DEF Stream
<1>2. /\ ds \in Seq(CellType) /\ Len(ds) = Len(cs) - 2 /\ Len(cs) >= 2
      /\ \A k \in 1 .. Len(ds) : k + 2 \in 1 .. Len(cs) /\ ds[k] = cs[k + 2]
  BY <1>1, FrameDropped
<1>3. /\ m = [n EXCEPT !.nonce = @ + 1] /\ PlaceOf(m) = 2 * Len(hs) + 1
      /\ m.key \in TrafficKeys(h) /\ m.nonce \in Nonce
  <2>1. n.key \in TrafficKeys(h)
    BY DEF InStep
  <2> QED BY <2>1, TwoNonces
<1>4. ln_enc_auth_dec_len(n) = m
  BY <1>3 DEF ln_enc_auth_dec_len
<1>5. n.key \in TrafficKeys(h) /\ n.nonce \in Nonce /\ PlaceOf(n) = 2 * Len(hs)
  BY DEF InStep
<1> HIDE DEF m, ds
<1>6. ASSUME NEW c, Genuine(c, h, ms), NEW x, x.key \in TrafficKeys(h),
             x.nonce \in Nonce, PlaceOf(c) = PlaceOf(x)
      PROVE  Opens(x, c)
  <2>1. c.key \in TrafficKeys(h) /\ c.nonce \in Nonce
    BY <1>6, GenuineType
  <2>2. c.key.rotations \in Nat /\ x.key.rotations \in Nat
    BY <2>1, <1>6 DEF TrafficKeys
  <2>3. c.key.rotations = x.key.rotations /\ c.nonce = x.nonce
    BY <2>1, <2>2, <1>6, PlaceUnique DEF PlaceOf
  <2>4. c.key = x.key
    BY <2>1, <2>3, <1>6 DEF TrafficKeys
  <2> QED BY <2>3, <2>4 DEF Opens
<1>7. f # 0
  <2> SUFFICES ASSUME f = 0 PROVE FALSE
    OBVIOUS
  <2>1. /\ Genuine(cs[1], h, ms) /\ PlaceOf(cs[1]) = PlaceOf(n)
        /\ Genuine(cs[2], h, ms) /\ PlaceOf(cs[2]) = PlaceOf(m)
    <3>1. /\ 1 \in 1 .. Len(cs) /\ 2 \in 1 .. Len(cs)
          /\ 2 * Len(hs) + 1 - 1 = 2 * Len(hs) /\ 2 * Len(hs) + 2 - 1 = 2 * Len(hs) + 1
      BY <1>1, <1>2
    <3>2. \A k \in 1 .. Len(cs) : /\ Genuine(cs[k], h, ms)
                                  /\ PlaceOf(cs[k]) = 2 * Len(hs) + k - 1
      BY <1>1
    <3> QED BY <3>1, <3>2, <1>3, <1>5
  <2>2. Opens(n, cs[1]) /\ Opens(m, cs[2])
    BY <2>1, <1>3, <1>5, <1>6
  <2> QED BY <2>2, <1>4
<1>8. \A k \in 1 .. Len(ds) : ds[k] = Damaged \/ Genuine(ds[k], h, ms)
  BY <1>1, <1>2
<1>9. Len(ds) % 2 = 0 /\ Len(ds) <= 2 * Len(ms)
  BY <1>1, <1>2
<1>10. Len(hs) <= Len(ms) /\ \A j \in 1 .. Len(hs) : hs[j] = ms[j]
  BY DEF Stream
<1>11. Stream(ds, h, ms, hs, f)
  BY <1>2, <1>7, <1>8, <1>9, <1>10 DEF Stream
<1> QED BY <1>7, <1>11 DEF ds

\* A further fault asks less of a stream.
LEMMA StreamFaulted ==
    ASSUME NEW h, NEW ms, NEW hs, NEW cs, NEW f, NEW g,
           Stream(cs, h, ms, hs, f), g = 0 => f = 0
    PROVE  Stream(cs, h, ms, hs, g)
BY DEF Stream

----------------------------------------------------------------------------
(* Steps that leave the handshake and the frames alone.                    *)

\* The end x stays where it is; it may stop, or go on with the inits.
Stays(x) ==
    /\ \/ conf'[x].phase = conf[x].phase
       \/ Threads(x) /\ Threads(x)'
    /\ conf'[x].node_id = conf[x].node_id
    /\ conf'[x].loop => /\ conf[x].loop
                        /\ self'[x].p_handshake = self[x].p_handshake

\* Nothing of the handshake changes when both ends stay.
LEMMA PhasesKept ==
    ASSUME Apart, Known, \A x \in Side : Mixed(x) /\ Stays(x)
    PROVE  /\ Apart' /\ Known'
           /\ \A x \in Side : /\ Mixed(x)' /\ Lead(x)' = Lead(x)
                              /\ Threads(x)' <=> Threads(x)
<1>1. Initiator \in Side /\ Responder \in Side
  BY SideFacts
<1>2. \A x \in Side : /\ Threads(x)' <=> Threads(x)
                      /\ conf'[x].node_id = conf[x].node_id
                      /\ \A ph \in {"none", "act_one", "act_two", "act_three"} :
                            conf'[x].phase = ph <=> conf[x].phase = ph
  BY DEF Stays, Threads
<1>3. Dialled' = Dialled
  BY <1>1, <1>2 DEF Dialled
<1>4. Apart'
  BY <1>1, <1>2 DEF Apart
<1>5. Known'
  BY <1>1, <1>2, <1>3 DEF Known
<1>6. ASSUME NEW x \in Side PROVE Mixed(x)'
  <2> SUFFICES ASSUME conf'[x].loop PROVE Mixed(x)'
    BY DEF Mixed
  <2>1. conf[x].loop /\ self'[x].p_handshake = self[x].p_handshake
    BY DEF Stays
  <2> QED BY <2>1, <1>2, <1>3 DEF Mixed
<1>7. ASSUME NEW x \in Side PROVE Lead(x)' = Lead(x)
  BY <1>1, <1>2, <1>3 DEF Lead
<1> QED BY <1>2, <1>4, <1>5, <1>6, <1>7

\* A function with one value changed.
LEMMA Update ==
    ASSUME NEW T, NEW f \in [Side -> T], NEW s \in Side, NEW v \in T
    PROVE  LET g == [f EXCEPT ![s] = v]
           IN  g \in [Side -> T] /\ g[s] = v /\ \A x \in Side : x # s => g[x] = f[x]
OBVIOUS

\* c and d are at the same point of the session.
ConfAlike(c, d) ==
    /\ d \in ConfType
    /\ d.phase = c.phase /\ d.node_id = c.node_id /\ d.flag_recv = c.flag_recv

\* The other end: no more than waited can change.
ConfKept(c, d) == ConfAlike(c, d) /\ d.loop = c.loop /\ d.cause = c.cause

ThreadPhase == {"init", "create", "wait", "ready"}

\* A step of s that sends and receives nothing: st, cf and pl are what it
\* leaves in self, conf and poll of s.
QuietAt(s, st, cf, pl) ==
    /\ st \in SelfType /\ cf \in ConfType /\ pl \in PollType
    /\ self' = [self EXCEPT ![s] = st]
    /\ conf' \in [Side -> ConfType] /\ conf'[s] = cf
    /\ \A x \in Side \ {s} : ConfKept(conf[x], conf'[x])
    /\ poll' = [poll EXCEPT ![s] = pl]
    /\ UNCHANGED <<wire, faults, sent, handled, used>>
    /\ st.noise_send = self[s].noise_send /\ st.noise_recv = self[s].noise_recv
    /\ cf.loop => conf[s].loop /\ st.p_handshake = self[s].p_handshake
    /\ cf.node_id = conf[s].node_id
    /\ cf.cause = "decode" => conf[s].cause = "decode"
    /\ cf.phase = conf[s].phase \/ (Threads(s) /\ cf.phase \in ThreadPhase)
    /\ pl.stage = "idle" \/ Threads(s)

\* A step without a frame keeps the invariant.
LEMMA QuietStep ==
    ASSUME SessionInv, NEW s \in Side, NEW st, NEW cf, NEW pl, QuietAt(s, st, cf, pl)
    PROVE  SessionInv'
<1>1. Types /\ Apart /\ Known
      /\ \A x \in Side : Mixed(x) /\ Ciphers(x) /\ Flow(x) /\ Pinging(x) /\ Stopped(x)
  BY DEF SessionInv
<1>2. /\ self' \in [Side -> SelfType] /\ self'[s] = st
      /\ \A x \in Side : x # s => self'[x] = self[x]
  BY <1>1, Update DEF QuietAt, Types
<1>3. /\ conf' \in [Side -> ConfType] /\ conf'[s] = cf
      /\ \A x \in Side : x # s => ConfKept(conf[x], conf'[x])
  BY DEF QuietAt
<1>4. /\ poll' \in [Side -> PollType] /\ poll'[s] = pl
      /\ \A x \in Side : x # s => poll'[x] = poll[x]
  BY <1>1, Update DEF QuietAt, Types
<1>5. UNCHANGED <<wire, faults, sent, handled, used>>
  BY DEF QuietAt
<1>6. Types'
  BY <1>1, <1>2, <1>3, <1>4, <1>5 DEF Types
<1>7. ASSUME NEW x \in Side
      PROVE  /\ Stays(x)
             /\ self'[x].noise_send = self[x].noise_send
             /\ self'[x].noise_recv = self[x].noise_recv
             /\ conf'[x].cause = "decode" => conf[x].cause = "decode"
             /\ poll'[x].stage # "idle" => Threads(x)
  <2>1. CASE x = s
    <3>1. conf'[x] = cf /\ self'[x] = st /\ poll'[x] = pl
      BY <2>1, <1>2, <1>3, <1>4
    <3>2. Stays(x)
      BY <3>1, <2>1 DEF QuietAt, Stays, Threads, ThreadPhase
    <3> QED BY <3>1, <3>2, <2>1 DEF QuietAt
  <2>2. CASE x # s
    <3>1. /\ ConfKept(conf[x], conf'[x]) /\ self'[x] = self[x] /\ poll'[x] = poll[x]
          /\ Pinging(x)
      BY <2>2, <1>1, <1>2, <1>3, <1>4
    <3>2. Stays(x)
      BY <3>1 DEF Stays, ConfKept, ConfAlike
    <3> QED BY <3>1, <3>2 DEF ConfKept, Pinging
  <2> QED BY <2>1, <2>2
<1>8. /\ Apart' /\ Known'
      /\ \A x \in Side : /\ Mixed(x)' /\ Lead(x)' = Lead(x)
                         /\ Threads(x)' <=> Threads(x)
  BY <1>1, <1>7, PhasesKept
<1>9. ASSUME NEW x \in Side
      PROVE  Ciphers(x)' /\ Flow(x)' /\ Pinging(x)' /\ Stopped(x)'
  <2>1. Ciphers(x)'
    BY <1>1, <1>5, <1>7, <1>8 DEF Ciphers
  <2>2. Flow(x)'
    BY <1>1, <1>5, <1>8 DEF Flow
  <2>3. Pinging(x)' /\ Stopped(x)'
    BY <1>1, <1>5, <1>7, <1>8 DEF Pinging, Stopped
  <2> QED BY <2>1, <2>2, <2>3
<1> QED BY <1>6, <1>8, <1>9 DEF SessionInv

\* stop_threads.
LEMMA ConfStopped ==
    ASSUME NEW c \in ConfType, NEW cause \in Cause
    PROVE  LET d == [c EXCEPT !.loop = FALSE, !.cause = cause]
           IN  ConfAlike(c, d) /\ d.loop = FALSE /\ d.cause = cause
BY DEF ConfType, ConfAlike

\* A change of phase.
LEMMA ConfMoved ==
    ASSUME NEW c \in ConfType, NEW p \in Phase
    PROVE  LET d == [c EXCEPT !.phase = p]
           IN  /\ d \in ConfType /\ d.phase = p /\ d.node_id = c.node_id
               /\ d.flag_recv = c.flag_recv /\ d.loop = c.loop /\ d.cause = c.cause
BY DEF ConfType

\* The counters of lnapp_conf_t.
LEMMA ConfCounted ==
    ASSUME NEW c \in ConfType, NEW n \in Nat, NEW m \in Nat
    PROVE  /\ LET d == [c EXCEPT !.ping_counter = n]
              IN  ConfAlike(c, d) /\ d.loop = c.loop /\ d.cause = c.cause
           /\ LET d == [c EXCEPT !.ping_counter = n, !.pings = m]
              IN  ConfAlike(c, d) /\ d.loop = c.loop /\ d.cause = c.cause
           /\ LET d == [c EXCEPT !.others = n]
              IN  ConfAlike(c, d) /\ d.loop = c.loop /\ d.cause = c.cause
<1>1. LET d == [c EXCEPT !.ping_counter = n]
      IN  ConfAlike(c, d) /\ d.loop = c.loop /\ d.cause = c.cause
  BY DEF ConfType, ConfAlike
<1>2. LET d == [c EXCEPT !.ping_counter = n, !.pings = m]
      IN  ConfAlike(c, d) /\ d.loop = c.loop /\ d.cause = c.cause
  BY DEF ConfType, ConfAlike
<1>3. LET d == [c EXCEPT !.others = n]
      IN  ConfAlike(c, d) /\ d.loop = c.loop /\ d.cause = c.cause
  BY DEF ConfType, ConfAlike
<1> QED BY <1>1, <1>2, <1>3

\* The fields of self that the ping uses are none of the handshake's.
SelfAlike(a, b) ==
    /\ b \in SelfType /\ b.p_handshake = a.p_handshake
    /\ b.noise_send = a.noise_send /\ b.noise_recv = a.noise_recv
    /\ b.init_flag = a.init_flag

\* The fields of ln_channel_t that ping and pong change.
LEMMA SelfUpdates ==
    ASSUME NEW a \in SelfType
    PROVE  /\ SelfAlike(a, a)
           /\ \A n \in Nat \cup PongSizes :
                    SelfAlike(a, [a EXCEPT !.last_num_pong_bytes = n])
           /\ \A n \in Nat : SelfAlike(a, [a EXCEPT !.missing_pong_cnt = n])
           /\ \A n \in Nat :
                SelfAlike(a, [a EXCEPT !.missing_pong_cnt = n, !.last_num_pong_bytes = 0])
<1>1. ASSUME NEW n \in Nat
      PROVE  SelfAlike(a, [a EXCEPT !.missing_pong_cnt = n, !.last_num_pong_bytes = 0])
  BY DEF SelfType, SelfAlike
<1>2. ASSUME NEW n \in Nat \cup PongSizes
      PROVE  SelfAlike(a, [a EXCEPT !.last_num_pong_bytes = n])
  BY DEF SelfType, SelfAlike
<1>3. ASSUME NEW n \in Nat PROVE SelfAlike(a, [a EXCEPT !.missing_pong_cnt = n])
  BY DEF SelfType, SelfAlike
<1> QED BY <1>1, <1>2, <1>3 DEF SelfAlike

\* The types of one end.
LEMMA TypesAt ==
    ASSUME Types, NEW s \in Side
    PROVE  /\ self[s] \in SelfType /\ conf[s] \in ConfType /\ poll[s] \in PollType
           /\ self = [self EXCEPT ![s] = self[s]]
           /\ conf = [conf EXCEPT ![s] = conf[s]]
           /\ poll = [poll EXCEPT ![s] = poll[s]]
BY DEF Types

\* Nothing of the other end changes.
LEMMA ConfOnly ==
    ASSUME Types, NEW s \in Side, NEW cf \in ConfType, conf' = [conf EXCEPT ![s] = cf]
    PROVE  /\ conf' \in [Side -> ConfType] /\ conf'[s] = cf
           /\ \A x \in Side \ {s} : conf'[x] = conf[x] /\ ConfKept(conf[x], conf'[x])
<1>1. /\ conf' \in [Side -> ConfType] /\ conf'[s] = cf
      /\ \A x \in Side : x # s => conf'[x] = conf[x]
  BY Update DEF Types
<1> QED BY <1>1 DEF ConfKept, ConfAlike

\* noise_handshake gives up.
LEMMA FailStep ==
    ASSUME SessionInv, NEW s \in Side, NEW cause \in {"timeout", "handshake"},
           FailHandshake(s, cause)
    PROVE  SessionInv'
<1> DEFINE st == [self[s] EXCEPT !.p_handshake = NoHandshake]
           cf == [conf[s] EXCEPT !.loop = FALSE, !.cause = cause]
<1>1. /\ self[s] \in SelfType /\ conf[s] \in ConfType /\ poll[s] \in PollType
      /\ poll = [poll EXCEPT ![s] = poll[s]]
  BY TypesAt DEF SessionInv
<1>2. /\ self' = [self EXCEPT ![s] = st] /\ conf' = [conf EXCEPT ![s] = cf]
      /\ UNCHANGED <<poll, wire, faults, sent, handled, used>>
  BY DEF FailHandshake, SetHandshake, stop_threads, Ghosts
<1>3. /\ st \in SelfType /\ st.noise_send = self[s].noise_send
      /\ st.noise_recv = self[s].noise_recv
  BY <1>1 DEF SelfType, HandshakeType
<1>4. ConfAlike(conf[s], cf) /\ cf.loop = FALSE /\ cf.cause = cause
  <2>1. cause \in Cause
    BY DEF Cause
  <2> QED BY <2>1, <1>1, ConfStopped
<1> HIDE DEF st, cf
<1>5. /\ conf' \in [Side -> ConfType] /\ conf'[s] = cf
      /\ \A x \in Side \ {s} : ConfKept(conf[x], conf'[x])
  BY <1>2, <1>4, ConfOnly DEF ConfAlike, SessionInv
<1>6. poll[s].stage = "idle" \/ Threads(s)
  BY DEF SessionInv, Pinging
<1>7. QuietAt(s, st, cf, poll[s])
  BY <1>1, <1>2, <1>3, <1>4, <1>5, <1>6 DEF QuietAt, ConfAlike
<1> QED BY <1>7, QuietStep

\* stop_threads alone.
LEMMA StopStep ==
    ASSUME SessionInv, NEW s \in Side, NEW cause \in {"timeout", "pong", "gone"},
           stop_threads(s, cause),
           UNCHANGED <<self, poll, wire, faults, sent, handled, used>>
    PROVE  SessionInv'
<1> DEFINE cf == [conf[s] EXCEPT !.loop = FALSE, !.cause = cause]
<1>1. /\ self[s] \in SelfType /\ conf[s] \in ConfType /\ poll[s] \in PollType
      /\ self = [self EXCEPT ![s] = self[s]] /\ poll = [poll EXCEPT ![s] = poll[s]]
  BY TypesAt DEF SessionInv
<1>2. conf' = [conf EXCEPT ![s] = cf]
  BY DEF stop_threads
<1>3. ConfAlike(conf[s], cf) /\ cf.loop = FALSE /\ cf.cause = cause
  <2>1. cause \in Cause
    BY DEF Cause
  <2> QED BY <2>1, <1>1, ConfStopped
<1> HIDE DEF cf
<1>4. /\ conf' \in [Side -> ConfType] /\ conf'[s] = cf
      /\ \A x \in Side \ {s} : ConfKept(conf[x], conf'[x])
  BY <1>2, <1>3, ConfOnly DEF ConfAlike, SessionInv
<1>5. poll[s].stage = "idle" \/ Threads(s)
  BY DEF SessionInv, Pinging
<1>6. QuietAt(s, self[s], cf, poll[s])
  BY <1>1, <1>2, <1>3, <1>4, <1>5 DEF QuietAt, ConfAlike
<1> QED BY <1>6, QuietStep

\* A round of the poll thread.
LEMMA RoundFacts ==
    ASSUME Types, NEW s \in Side, NEW cf \in ConfType, Round(s, cf)
    PROVE  /\ conf' \in [Side -> ConfType] /\ conf'[s] = cf
           /\ \A x \in Side \ {s} : ConfKept(conf[x], conf'[x])
           /\ conf'[Other(s)].waited = (conf[Other(s)].waited \/ Waiting(Other(s)))
           /\ conf'[Other(s)].ping_counter = conf[Other(s)].ping_counter
<1> DEFINE q == Other(s)
           w == conf[q].waited \/ Waiting(q)
           d == [conf[q] EXCEPT !.waited = w]
<1>1. q \in Side /\ q # s /\ Side = {s, q} /\ conf \in [Side -> ConfType]
  BY SideFacts, SideAssumption DEF Side, Other, Types
<1>2. w \in BOOLEAN
  BY Zenon
<1>3. conf[q] \in ConfType
  BY <1>1
<1>4. /\ ConfKept(conf[q], d) /\ d \in ConfType /\ d.waited = w
      /\ d.ping_counter = conf[q].ping_counter
  <2> HIDE DEF w
  <2> QED BY <1>2, <1>3 DEF ConfType, ConfKept, ConfAlike
<1>5. conf' = [conf EXCEPT ![s] = cf, ![q] = d]
  <2>1. conf' = [conf EXCEPT ![s] = cf, ![q].waited = w]
    <3>1. conf' = [conf EXCEPT ![s] = cf, ![q].waited = @ \/ Waiting(q)]
      BY DEF Round
    <3>2. [conf EXCEPT ![s] = cf][q] = conf[q]
      BY <1>1
    <3> QED BY <3>1, <3>2, <1>1
  <2>2. [conf EXCEPT ![s] = cf, ![q].waited = w] = [conf EXCEPT ![s] = cf, ![q] = d]
    <3> HIDE DEF w
    <3> QED BY <1>1
  <2> QED BY <2>1, <2>2
<1> HIDE DEF d, w
<1>6. conf' \in [Side -> ConfType] /\ conf'[s] = cf /\ conf'[q] = d
  BY <1>1, <1>4, <1>5
<1> QED BY <1>1, <1>4, <1>6 DEF w

\* The actions that neither send nor receive.
LEMMA QuietActions ==
    ASSUME SessionInv, NEW s \in Side,
           \/ HandshakeTimeout(s) \/ InitCreate(s) \/ exchange_init(s) \/ InitTimeout(s)
           \/ PollQuiet(s) \/ PingCreate(s) \/ PingCount(s)
           \/ PeerGone(s) \/ Freeze(s)
    PROVE  SessionInv'
<1>1. /\ self[s] \in SelfType /\ conf[s] \in ConfType /\ poll[s] \in PollType
      /\ self = [self EXCEPT ![s] = self[s]] /\ conf = [conf EXCEPT ![s] = conf[s]]
      /\ poll = [poll EXCEPT ![s] = poll[s]]
      /\ poll[s].stage = "idle" \/ Threads(s)
      /\ Types
  BY TypesAt DEF SessionInv, Pinging
<1>2. CASE HandshakeTimeout(s)
  BY <1>2, FailStep DEF HandshakeTimeout
<1>3. CASE exchange_init(s)
  <2> DEFINE cf == [conf[s] EXCEPT !.phase = "ready"]
  <2>1. /\ conf' = [conf EXCEPT ![s] = cf]
        /\ UNCHANGED <<self, poll, wire, faults, sent, handled, used>>
        /\ Threads(s)
    BY <1>1, <1>3 DEF exchange_init, Ghosts, Threads
  <2>2. /\ cf \in ConfType /\ cf.phase = "ready" /\ cf.node_id = conf[s].node_id
        /\ cf.flag_recv = conf[s].flag_recv /\ cf.loop = conf[s].loop
        /\ cf.cause = conf[s].cause
    BY <1>1, ConfMoved DEF Phase
  <2> HIDE DEF cf
  <2>3. /\ conf' \in [Side -> ConfType] /\ conf'[s] = cf
        /\ \A x \in Side \ {s} : ConfKept(conf[x], conf'[x])
    BY <2>1, <2>2, <1>1, ConfOnly
  <2>4. QuietAt(s, self[s], cf, poll[s])
    BY <2>1, <2>2, <2>3, <1>1 DEF QuietAt, ThreadPhase
  <2> QED BY <2>4, QuietStep
<1>4. CASE InitTimeout(s)
  BY <1>4, StopStep DEF InitTimeout, Ghosts
<1>5. CASE PollQuiet(s)
  <2> DEFINE cf == [conf[s] EXCEPT !.ping_counter = @ + 1]
  <2>1. /\ Round(s, cf)
        /\ UNCHANGED <<self, poll, wire, faults, sent, handled, used>>
    BY <1>5 DEF PollQuiet, Ghosts
  <2>2. conf[s].ping_counter + 1 \in Nat
    BY <1>1 DEF ConfType
  <2>3. ConfAlike(conf[s], cf) /\ cf.loop = conf[s].loop /\ cf.cause = conf[s].cause
    BY <2>2, <1>1, ConfCounted
  <2> HIDE DEF cf
  <2>4. /\ conf' \in [Side -> ConfType] /\ conf'[s] = cf
        /\ \A x \in Side \ {s} : ConfKept(conf[x], conf'[x])
    BY <2>1, <2>3, <1>1, RoundFacts DEF ConfAlike
  <2>5. QuietAt(s, self[s], cf, poll[s])
    BY <2>1, <2>3, <2>4, <1>1 DEF QuietAt, ConfAlike
  <2> QED BY <2>5, QuietStep
<1>6. CASE PingCreate(s)
  <2>1. PICK size \in PongSizes :
            /\ self' = [self EXCEPT ![s].last_num_pong_bytes = size]
            /\ poll' = [poll EXCEPT ![s] = [ stage |-> "counting", size |-> size,
                                             loaded |-> self[s].missing_pong_cnt ]]
    BY <1>6 DEF PingCreate
  <2> DEFINE st == [self[s] EXCEPT !.last_num_pong_bytes = size]
             pl == [ stage |-> "counting", size |-> size,
                     loaded |-> self[s].missing_pong_cnt ]
             m == IF frozen = {} THEN conf[s].pings + 1 ELSE conf[s].pings
             cf == [conf[s] EXCEPT !.ping_counter = PingPolls, !.pings = m]
  <2>2. /\ Round(s, [conf[s] EXCEPT !.ping_counter = PingPolls,
                                !.pings = IF frozen = {} THEN @ + 1 ELSE @])
        /\ UNCHANGED <<wire, faults, sent, handled, used>>
        /\ Threads(s)
    BY <1>1, <1>6 DEF PingCreate, Polling, Ghosts
  <2>3. Round(s, cf)
    BY <2>2, <1>1 DEF ConfType
  <2>4. m \in Nat
    BY <1>1 DEF ConfType
  <2>5. ConfAlike(conf[s], cf) /\ cf.loop = conf[s].loop /\ cf.cause = conf[s].cause
    <3> HIDE DEF m
    <3>1. PingPolls \in Nat
      BY PollAssumption
    <3>2. conf[s] \in ConfType
      BY <1>1
    <3> QED BY <3>1, <3>2, <2>4 DEF ConfType, ConfAlike
  <2>6. SelfAlike(self[s], st) /\ self' = [self EXCEPT ![s] = st]
    BY <2>1, <1>1, SelfUpdates
  <2>7. pl \in PollType
    BY <1>1 DEF PollType, SelfType
  <2>8. poll' = [poll EXCEPT ![s] = pl]
    BY <2>1
  <2> HIDE DEF st, cf, pl, m
  <2>9. /\ conf' \in [Side -> ConfType] /\ conf'[s] = cf
        /\ \A x \in Side \ {s} : ConfKept(conf[x], conf'[x])
    BY <2>3, <2>5, <1>1, RoundFacts DEF ConfAlike
  <2>10. QuietAt(s, st, cf, pl)
    BY <2>2, <2>5, <2>6, <2>7, <2>8, <2>9 DEF QuietAt, ConfAlike, SelfAlike
  <2> QED BY <2>10, QuietStep
<1>7. CASE PingCount(s)
  <2> DEFINE cnt == CountMissing(poll[s].loaded)
             st == [self[s] EXCEPT !.missing_pong_cnt = cnt]
             cf == [conf[s] EXCEPT !.loop = FALSE, !.cause = "pong"]
             pl == [poll[s] EXCEPT !.stage = "sending"]
  <2>1. /\ self' = [self EXCEPT ![s] = st]
        /\ UNCHANGED <<wire, faults, sent, handled, used>>
        /\ poll[s].stage = "counting"
    BY <1>7 DEF PingCount, Ghosts
  <2>2. cnt \in Nat
    BY <1>1 DEF CountMissing, PollType
  <2>3. SelfAlike(self[s], st)
    <3> HIDE DEF cnt
    <3> QED BY <2>2, <1>1, SelfUpdates
  <2>4. ConfAlike(conf[s], cf) /\ cf.loop = FALSE /\ cf.cause = "pong"
    BY <1>1, ConfStopped DEF Cause
  <2>5. NoPing \in PollType /\ NoPing.stage = "idle" /\ pl \in PollType
    BY <1>1 DEF PollType, NoPing
  <2>6. \/ conf' = [conf EXCEPT ![s] = cf] /\ poll' = [poll EXCEPT ![s] = NoPing]
        \/ conf' = conf /\ poll' = [poll EXCEPT ![s] = pl]
    BY <1>7 DEF PingCount, stop_threads
  <2> HIDE DEF cnt, st, cf, pl
  <2>7. CASE conf' = [conf EXCEPT ![s] = cf] /\ poll' = [poll EXCEPT ![s] = NoPing]
    <3>1. /\ conf' \in [Side -> ConfType] /\ conf'[s] = cf
          /\ \A x \in Side \ {s} : ConfKept(conf[x], conf'[x])
      BY <2>4, <2>7, <1>1, ConfOnly DEF ConfAlike
    <3>2. QuietAt(s, st, cf, NoPing)
      BY <3>1, <2>1, <2>3, <2>4, <2>5, <2>7 DEF QuietAt, ConfAlike, SelfAlike
    <3> QED BY <3>2, QuietStep
  <2>8. CASE conf' = conf /\ poll' = [poll EXCEPT ![s] = pl]
    <3>1. /\ conf' \in [Side -> ConfType] /\ conf'[s] = conf[s]
          /\ \A x \in Side \ {s} : ConfKept(conf[x], conf'[x])
      <4>1. conf' = [conf EXCEPT ![s] = conf[s]]
        BY <2>8, <1>1
      <4> QED BY <4>1, <1>1, ConfOnly
    <3>2. Threads(s)
      BY <2>1, <1>1
    <3>3. QuietAt(s, st, conf[s], pl)
      BY <3>1, <3>2, <2>1, <2>3, <2>5, <2>8, <1>1 DEF QuietAt, SelfAlike
    <3> QED BY <3>3, QuietStep
  <2> QED BY <2>6, <2>7, <2>8
<1>8. CASE PeerGone(s)
  BY <1>8, StopStep DEF PeerGone, Ghosts
<1>9. CASE Freeze(s)
  <2>1. UNCHANGED <<self, conf, poll, wire, faults, sent, handled, used>>
    BY <1>9 DEF Freeze, Ghosts
  <2>2. /\ conf' \in [Side -> ConfType] /\ conf'[s] = conf[s]
        /\ \A x \in Side \ {s} : ConfKept(conf[x], conf'[x])
    <3>1. conf' = [conf EXCEPT ![s] = conf[s]]
      BY <2>1, <1>1
    <3> QED BY <3>1, <1>1, ConfOnly
  <2>3. QuietAt(s, self[s], conf[s], poll[s])
    BY <2>1, <2>2, <1>1 DEF QuietAt
  <2> QED BY <2>3, QuietStep
<1>10. CASE InitCreate(s)
  <2> DEFINE cf == [conf[s] EXCEPT !.phase = "create"]
             st == [self[s] EXCEPT !.init_flag = @ \cup {"SEND"}]
  <2>1. /\ conf' = [conf EXCEPT ![s] = cf] /\ self' = [self EXCEPT ![s] = st]
        /\ UNCHANGED <<poll, wire, faults, sent, handled, used>>
        /\ Threads(s)
    BY <1>1, <1>10 DEF InitCreate, Ghosts, Threads
  <2>2. /\ cf \in ConfType /\ cf.phase = "create" /\ cf.node_id = conf[s].node_id
        /\ cf.flag_recv = conf[s].flag_recv /\ cf.loop = conf[s].loop
        /\ cf.cause = conf[s].cause
    BY <1>1, ConfMoved DEF Phase
  <2>3. /\ st \in SelfType /\ st.noise_send = self[s].noise_send
        /\ st.noise_recv = self[s].noise_recv /\ st.p_handshake = self[s].p_handshake
    BY <1>1 DEF SelfType
  <2> HIDE DEF cf, st
  <2>4. /\ conf' \in [Side -> ConfType] /\ conf'[s] = cf
        /\ \A x \in Side \ {s} : ConfKept(conf[x], conf'[x])
    BY <2>1, <2>2, <1>1, ConfOnly
  <2>5. QuietAt(s, st, cf, poll[s])
    BY <2>1, <2>2, <2>3, <2>4, <1>1 DEF QuietAt, ThreadPhase
  <2> QED BY <2>5, QuietStep
<1> QED BY <1>2, <1>3, <1>4, <1>5, <1>6, <1>7, <1>8, <1>9, <1>10

----------------------------------------------------------------------------
(* Frames between the two ends.                                            *)

\* The types of one end, and of what it sends and handles.
LEMMA TrafficTypes ==
    ASSUME SessionInv, NEW s \in Side
    PROVE  /\ self[s] \in SelfType /\ conf[s] \in ConfType /\ poll[s] \in PollType
           /\ sent[s] \in Seq(MessageType) /\ handled[s] \in Seq(MessageType)
           /\ faults \in Nat /\ Other(s) \in Side /\ Half(s) \in 1 .. 2
BY SideFacts DEF SessionInv, Types

\* What a socket holds: the head is an act or a cell.
LEMMA SocketOf ==
    ASSUME SessionInv, NEW s \in Side
    PROVE  \E cs \in Seq(CellType) :
              /\ wire[s] = Lead(s) \o cs
              /\ Stream(cs, Half(Other(s)), sent[Other(s)], handled[s], faults)
              /\ sent[Other(s)] = <<>> => cs = <<>>
<1>1. PICK cs \in Seq(CellType) :
              /\ wire[s] = Lead(s) \o cs
              /\ Stream(cs, Half(Other(s)), sent[Other(s)], handled[s], faults)
  BY DEF SessionInv, Flow
<1>2. ASSUME sent[Other(s)] = <<>> PROVE cs = <<>>
  <2>1. Len(cs) <= 2 * Len(sent[Other(s)]) /\ Len(sent[Other(s)]) = 0 /\ Len(cs) \in Nat
    BY <1>1, <1>2 DEF Stream
  <2>2. Len(cs) = 0
    BY <2>1
  <2> QED BY <2>2
<1> QED BY <1>1, <1>2

\* An end that runs its threads has no act in its socket.
LEMMA NoLead ==
    ASSUME SessionInv, NEW s \in Side, Threads(s)
    PROVE  /\ Lead(s) = <<>>
           /\ Stream(wire[s], Half(Other(s)), sent[Other(s)], handled[s], faults)
<1>1. /\ conf[s].phase # "act_one" /\ conf[s].phase # "act_two"
      /\ conf[s].phase # "act_three" /\ conf[s].phase # "none"
  BY DEF Threads
<1>2. s = Initiator \/ s = Responder
  BY DEF Side
<1>3. Lead(s) = <<>>
  BY <1>1, <1>2, SideAssumption DEF Lead
<1>4. PICK cs \in Seq(CellType) :
              /\ wire[s] = Lead(s) \o cs
              /\ Stream(cs, Half(Other(s)), sent[Other(s)], handled[s], faults)
  BY SocketOf
<1>5. wire[s] = cs
  BY <1>3, <1>4
<1> QED BY <1>3, <1>4, <1>5

\* What the receive thread finds.
LEMMA TakeFacts ==
    ASSUME SessionInv, NEW s \in Side, Receiving(s)
    PROVE  LET q == Other(s)
               msg == wire[s][2].msg
               st == Decoded(s)
           IN  /\ Threads(s) /\ conf[s].loop
               /\ ~Decodes(s) =>
                    /\ faults > 0
                    /\ Stream(Rest(s), Half(q), sent[q], handled[s], faults)
               /\ Decodes(s) =>
                    /\ Len(handled[s]) + 1 \in 1 .. Len(sent[q])
                    /\ msg = sent[q][Len(handled[s]) + 1] /\ msg \in MessageType
                    /\ InStep(st.noise_recv, Half(q), Append(handled[s], msg))
                    /\ Stream(Rest(s), Half(q), sent[q], Append(handled[s], msg), faults)
                    /\ st \in SelfType /\ st.p_handshake = self[s].p_handshake
                    /\ st.noise_send = self[s].noise_send
                    /\ st.init_flag = self[s].init_flag
                    /\ st.missing_pong_cnt = self[s].missing_pong_cnt
<1> DEFINE q == Other(s)
           msg == wire[s][2].msg
           n == self[s].noise_recv
           m == ln_enc_auth_dec_msg(ln_enc_auth_dec_len(n))
<1>1. /\ self[s] \in SelfType /\ handled[s] \in Seq(MessageType)
      /\ sent[q] \in Seq(MessageType) /\ faults \in Nat /\ Half(q) \in 1 .. 2
  BY TrafficTypes, SideFacts
<1>2. Threads(s) /\ conf[s].loop /\ wire[s] # <<>>
  BY DEF Receiving, Running, Arrived
<1>3. Stream(wire[s], Half(q), sent[q], handled[s], faults)
  BY <1>2, NoLead
<1>4. InStep(n, Half(q), handled[s])
  BY <1>2 DEF SessionInv, Ciphers
<1> HIDE DEF n, m, q
<1>5. ASSUME ~Decodes(s)
      PROVE  faults > 0 /\ Stream(Rest(s), Half(q), sent[q], handled[s], faults)
  BY <1>1, <1>2, <1>3, <1>4, <1>5, StreamFails DEF Decodes, Rest, n
<1>6. ASSUME Decodes(s)
      PROVE  /\ Len(handled[s]) + 1 \in 1 .. Len(sent[q])
             /\ msg = sent[q][Len(handled[s]) + 1] /\ msg \in MessageType
             /\ InStep(m, Half(q), Append(handled[s], msg))
             /\ Stream(Rest(s), Half(q), sent[q], Append(handled[s], msg), faults)
  <2> DEFINE cs == wire[s]
             hs == handled[s]
             ms == sent[q]
             h == Half(q)
  <2>1. Opens(n, cs[1]) /\ Opens(ln_enc_auth_dec_len(n), cs[2])
    BY <1>6 DEF Decodes, n
  <2>2. /\ Len(hs) + 1 \in 1 .. Len(ms) /\ cs[2].msg = ms[Len(hs) + 1]
        /\ cs[2].msg \in MessageType
        /\ InStep(ln_enc_auth_dec_msg(ln_enc_auth_dec_len(n)), h, Append(hs, cs[2].msg))
        /\ Stream(SubSeq(cs, 3, Len(cs)), h, ms, Append(hs, cs[2].msg), faults)
    <3>1. /\ cs # <<>> /\ Stream(cs, h, ms, hs, faults) /\ InStep(n, h, hs)
          /\ h \in 1 .. 2 /\ ms \in Seq(MessageType) /\ hs \in Seq(MessageType)
          /\ faults \in Nat
      BY <1>1, <1>2, <1>3, <1>4
    <3> HIDE DEF cs, hs, ms, h
    <3> QED BY <2>1, <3>1, StreamTaken
  <2> QED BY <2>2 DEF Rest, m
<1>7. Decoded(s) = [self[s] EXCEPT !.noise_recv = m]
  BY DEF Decoded, m, n
<1>8. ASSUME Decodes(s) PROVE m \in CipherType
  <2>1. m \in [key : TrafficKeys(Half(q)), nonce : Nonce]
    BY <1>6, <1>8 DEF InStep
  <2>2. TrafficKeys(Half(q)) \subseteq KeyType /\ Nonce \subseteq Nat
    BY <1>1, RotateAssumption DEF TrafficKeys, KeyType, Nonce
  <2> QED BY <2>1, <2>2 DEF CipherType
<1>9. ASSUME Decodes(s)
      PROVE  LET st == Decoded(s)
             IN  /\ st \in SelfType /\ st.noise_recv = m
                 /\ st.p_handshake = self[s].p_handshake
                 /\ st.noise_send = self[s].noise_send
                 /\ st.init_flag = self[s].init_flag
                 /\ st.missing_pong_cnt = self[s].missing_pong_cnt
  <2>1. m \in CipherType
    BY <1>8, <1>9
  <2> QED BY <2>1, <1>1, <1>7 DEF SelfType
<1> QED BY <1>2, <1>5, <1>6, <1>9 DEF q

\* A step of s that sends or receives frames: besides self, conf and poll it
\* leaves ms sent, hs handled and us used.
FrameAt(s, st, cf, pl, ms, hs, us) ==
    LET q == Other(s)
    IN  /\ st \in SelfType /\ cf \in ConfType /\ pl \in PollType
        /\ ms \in Seq(MessageType) /\ hs \in Seq(MessageType)
        /\ self' = [self EXCEPT ![s] = st]
        /\ conf' = [conf EXCEPT ![s] = cf]
        /\ poll' = [poll EXCEPT ![s] = pl]
        /\ sent' = [sent EXCEPT ![s] = ms]
        /\ handled' = [handled EXCEPT ![s] = hs]
        /\ DOMAIN used' = Side /\ used'[s] = us /\ used'[q] = used[q]
        /\ DOMAIN wire' = Side /\ faults' \in Nat /\ faults' >= faults
        /\ st.p_handshake = self[s].p_handshake
        /\ InStep(st.noise_send, Half(s), ms) /\ UsedOnce(us, Half(s), ms)
        /\ InStep(st.noise_recv, Half(q), hs)
        /\ Stream(wire'[s], Half(q), sent[q], hs, faults')
        /\ \E cs \in Seq(CellType) : /\ wire'[q] = Lead(q) \o cs
                                     /\ Stream(cs, Half(s), ms, handled[q], faults')
        /\ cf.phase = conf[s].phase \/ cf.phase \in ThreadPhase
        /\ cf.node_id = conf[s].node_id
        /\ cf.loop => conf[s].loop
        /\ cf.cause = "decode" => conf[s].cause = "decode" \/ faults > 0

\* Such a step keeps the invariant.
LEMMA FrameStep ==
    ASSUME SessionInv, NEW s \in Side, Threads(s), NEW st, NEW cf, NEW pl,
           NEW ms, NEW hs, NEW us, FrameAt(s, st, cf, pl, ms, hs, us)
    PROVE  SessionInv'
<1> DEFINE q == Other(s)
<1>1. Types /\ Apart /\ Known
      /\ \A x \in Side : Mixed(x) /\ Ciphers(x) /\ Flow(x) /\ Pinging(x) /\ Stopped(x)
  BY DEF SessionInv
<1>2. /\ self' \in [Side -> SelfType] /\ self'[s] = st
      /\ \A x \in Side : x # s => self'[x] = self[x]
  BY <1>1, Update DEF FrameAt, Types
<1>3. /\ conf' \in [Side -> ConfType] /\ conf'[s] = cf
      /\ \A x \in Side : x # s => conf'[x] = conf[x]
  BY <1>1, Update DEF FrameAt, Types
<1>4. /\ poll' \in [Side -> PollType] /\ poll'[s] = pl
      /\ \A x \in Side : x # s => poll'[x] = poll[x]
  BY <1>1, Update DEF FrameAt, Types
<1>5. /\ sent' \in [Side -> Seq(MessageType)] /\ sent'[s] = ms
      /\ \A x \in Side : x # s => sent'[x] = sent[x]
  BY <1>1, Update DEF FrameAt, Types
<1>6. /\ handled' \in [Side -> Seq(MessageType)] /\ handled'[s] = hs
      /\ \A x \in Side : x # s => handled'[x] = handled[x]
  BY <1>1, Update DEF FrameAt, Types
<1>7. DOMAIN used' = Side /\ used'[q] = used[q]
  BY DEF FrameAt
<1>8. DOMAIN wire' = Side /\ faults' \in Nat /\ faults \in Nat /\ faults' >= faults
  BY <1>1 DEF FrameAt, Types
<1>9. Types'
  BY <1>2, <1>3, <1>4, <1>5, <1>6, <1>7, <1>8 DEF Types
<1>10. q \in Side /\ q # s /\ Other(q) = s /\ Side = {s, q}
  BY SideFacts, SideAssumption DEF Side, Other
<1>11. Stays(s)
  BY <1>2, <1>3 DEF FrameAt, Stays, Threads, ThreadPhase
<1>12. Stays(q)
  BY <1>2, <1>3, <1>10 DEF Stays
<1>13. /\ Apart' /\ Known'
       /\ \A x \in Side : /\ Mixed(x)' /\ Lead(x)' = Lead(x)
                          /\ Threads(x)' <=> Threads(x)
  BY <1>1, <1>10, <1>11, <1>12, PhasesKept
<1>14. Ciphers(s)'
  BY <1>2, <1>5, <1>6, <1>7, <1>13 DEF FrameAt, Ciphers
<1>15. Ciphers(q)'
  BY <1>1, <1>2, <1>5, <1>6, <1>7, <1>10, <1>13 DEF Ciphers
<1>16. Flow(s)'
  <2>1. Lead(s) = <<>>
    BY NoLead
  <2>2. Stream(wire'[s], Half(q), sent'[q], handled'[s], faults')
    BY <1>5, <1>6, <1>10 DEF FrameAt
  <2>3. wire'[s] \in Seq(CellType) /\ wire'[s] = <<>> \o wire'[s]
    BY <2>2 DEF Stream
  <2> QED BY <2>1, <2>2, <2>3, <1>13 DEF Flow
<1>17. Flow(q)'
  <2>1. PICK cs \in Seq(CellType) : /\ wire'[q] = Lead(q) \o cs
                                    /\ Stream(cs, Half(s), ms, handled[q], faults')
    BY DEF FrameAt
  <2>2. Stream(cs, Half(s), sent'[s], handled'[q], faults')
    BY <2>1, <1>5, <1>6, <1>10
  <2> QED BY <2>1, <2>2, <1>10, <1>13 DEF Flow
<1>18. Pinging(s)' /\ Pinging(q)'
  BY <1>1, <1>4, <1>10, <1>13 DEF Pinging
<1>19. Stopped(s)' /\ Stopped(q)'
  <2>1. faults > 0 => faults' > 0
    BY <1>8
  <2>2. Stopped(s)'
    BY <2>1, <1>1, <1>3 DEF FrameAt, Stopped
  <2>3. Stopped(q)'
    BY <2>1, <1>1, <1>3, <1>10 DEF Stopped
  <2> QED BY <2>2, <2>3
<1> QED BY <1>9, <1>10, <1>13, <1>14, <1>15, <1>16, <1>17, <1>18, <1>19
        DEF SessionInv

\* What send_peer_noise leaves behind.
LEMMA SendFacts ==
    ASSUME SessionInv, NEW s \in Side, Threads(s), NEW st \in SelfType,
           st.noise_send = self[s].noise_send, NEW cf \in ConfType, NEW in,
           NEW msg \in MessageType, send_peer_noise(s, st, cf, in, msg)
    PROVE  LET q == Other(s)
               ms == Append(sent[s], msg)
           IN  \E a \in SelfType, b \in ConfType :
                /\ a.p_handshake = st.p_handshake /\ a.noise_recv = st.noise_recv
                /\ ConfAlike(cf, b) /\ b.loop = cf.loop /\ b.cause = cf.cause
                /\ self' = [self EXCEPT ![s] = a]
                /\ conf' = [conf EXCEPT ![s] = b]
                /\ sent' = [sent EXCEPT ![s] = ms]
                /\ DOMAIN used' = Side /\ used'[q] = used[q]
                /\ DOMAIN wire' = Side /\ faults' \in Nat /\ faults' >= faults
                /\ InStep(a.noise_send, Half(s), ms) /\ UsedOnce(used'[s], Half(s), ms)
                /\ wire'[s] = in
                /\ \E cs \in Seq(CellType) :
                        /\ wire'[q] = Lead(q) \o cs
                        /\ Stream(cs, Half(s), ms, handled[q], faults')
<1> DEFINE q == Other(s)
           n == st.noise_send
           ms == Append(sent[s], msg)
           frame == ln_enc_auth_enc(n, msg)
           cells == ln_enc_auth_enc(n, msg).cells
           a == [st EXCEPT !.noise_send = frame.cipher]
           b == [cf EXCEPT !.ping_counter = 0]
           us == used[s] \cup {<<cells[i].key, cells[i].nonce>> : i \in DOMAIN cells}
<1>1. /\ sent[s] \in Seq(MessageType) /\ faults \in Nat /\ Half(s) \in 1 .. 2
      /\ q \in Side /\ q # s /\ Other(q) = s /\ handled[q] \in Seq(MessageType)
  BY TrafficTypes, SideFacts
<1>2. InStep(n, Half(s), sent[s]) /\ UsedOnce(used[s], Half(s), sent[s])
  BY DEF SessionInv, Ciphers
<1>3. InStep(frame.cipher, Half(s), ms)
  BY <1>1, <1>2, FrameMade
<1>4. UsedOnce(us, Half(s), ms)
  BY <1>1, <1>2, PairsNew
<1>5. frame.cipher \in CipherType
  <2>1. frame.cipher \in [key : TrafficKeys(Half(s)), nonce : Nonce]
    BY <1>3 DEF InStep
  <2>2. TrafficKeys(Half(s)) \subseteq KeyType /\ Nonce \subseteq Nat
    BY <1>1, RotateAssumption DEF TrafficKeys, KeyType, Nonce
  <2> HIDE DEF frame
  <2> QED BY <2>1, <2>2 DEF CipherType
<1>6. /\ a \in SelfType /\ a.p_handshake = st.p_handshake
      /\ a.noise_recv = st.noise_recv /\ a.init_flag = st.init_flag
      /\ a.noise_send = frame.cipher
  <2> HIDE DEF frame
  <2> QED BY <1>5 DEF SelfType
<1>7. ConfAlike(cf, b) /\ b.loop = cf.loop /\ b.cause = cf.cause
  BY ConfCounted
<1>8. PICK fate \in Fate :
            /\ faults' = IF fate = "written" THEN faults ELSE faults + 1
            /\ self' = [self EXCEPT ![s] = a]
            /\ conf' = [conf EXCEPT ![s] = b]
            /\ wire' = [wire EXCEPT ![s] = in, ![q] = @ \o Written(cells, fate)]
            /\ sent' = [sent EXCEPT ![s] = ms]
            /\ used' = [used EXCEPT ![s] = us]
  <2> HIDE DEF Fate
  <2>1. PICK fate \in Fate :
            /\ faults' = IF fate = "written" THEN faults ELSE faults + 1
            /\ self' = [self EXCEPT ![s] = [st EXCEPT !.noise_send = frame.cipher]]
            /\ conf' = [conf EXCEPT ![s] = [cf EXCEPT !.ping_counter = 0]]
            /\ wire' = [wire EXCEPT ![s] = in,
                                    ![Other(s)] = @ \o Written(frame.cells, fate)]
            /\ sent' = [sent EXCEPT ![s] = Append(@, msg)]
            /\ used' = [used EXCEPT ![s] = @ \cup
                        {<<frame.cells[i].key, frame.cells[i].nonce>> :
                            i \in DOMAIN frame.cells}]
    BY Zenon DEF send_peer_noise
  <2>2. DOMAIN sent = Side /\ DOMAIN used = Side
    BY DEF SessionInv, Types
  <2>3. sent' = [sent EXCEPT ![s] = ms] /\ used' = [used EXCEPT ![s] = us]
    BY <2>1, <2>2
  <2> QED BY <2>1, <2>3
<1>9. faults' \in Nat /\ faults' >= faults
  BY <1>1, <1>8
<1>10. DOMAIN wire = Side
  BY DEF SessionInv, Types
<1>11. PICK cs \in Seq(CellType) :
            /\ wire[q] = Lead(q) \o cs
            /\ Stream(cs, Half(s), sent[s], handled[q], faults)
  BY <1>1, SocketOf
<1> DEFINE ds == cs \o Written(cells, fate)
<1>12. Stream(ds, Half(s), ms, handled[q], faults')
  BY <1>1, <1>2, <1>8, <1>11, StreamGrows
<1>13. ds \in Seq(CellType)
  BY <1>12 DEF Stream
<1>14. wire'[q] = Lead(q) \o ds
  <2>1. wire'[q] = (Lead(q) \o cs) \o Written(cells, fate)
    BY <1>1, <1>8, <1>10, <1>11
  <2>2. Written(cells, fate) \in Seq(CellType)
    <3>1. cells \in Seq(CellType)
      <4> DEFINE x == Cell(n, msg)
                 y == Cell([key |-> n.key, nonce |-> n.nonce + 1], msg)
      <4>1. /\ cells = <<x, y>>
            /\ CellOf(x, Half(s), ms, Len(sent[s]) + 1)
            /\ CellOf(y, Half(s), ms, Len(sent[s]) + 1)
        BY <1>1, <1>2, FrameMade
      <4>2. Len(sent[s]) + 1 \in 1 .. Len(ms)
        BY <1>1
      <4>3. Genuine(x, Half(s), ms) /\ Genuine(y, Half(s), ms)
        BY <4>1, <4>2 DEF Genuine
      <4>4. x \in CellType /\ y \in CellType
        BY <4>3, <1>1, GenuineType
      <4> HIDE DEF cells, x, y
      <4> QED BY <4>1, <4>4
    <3> HIDE DEF cells
    <3>2. [i \in DOMAIN cells |-> Damaged] \in Seq(CellType)
      BY <3>1, DamagedType
    <3> QED BY <3>1, <3>2 DEF Written, Fate
  <2>3. PICK l : Lead(q) = <<>> \/ Lead(q) = <<l>>
    BY DEF Lead
  <2> DEFINE S == CellType \cup {l}
  <2>4. Lead(q) \in Seq(S) /\ cs \in Seq(S) /\ Written(cells, fate) \in Seq(S)
    <3> HIDE DEF cells
    <3>1. cs \in Seq(S) /\ Written(cells, fate) \in Seq(S)
      BY <2>2
    <3>2. <<l>> \in Seq(S) /\ <<>> \in Seq(S)
      OBVIOUS
    <3> QED BY <3>1, <3>2, <2>3
  <2> HIDE DEF S, cells
  <2>5. (Lead(q) \o cs) \o Written(cells, fate) = Lead(q) \o (cs \o Written(cells, fate))
    BY <2>4, ConcatAssociative
  <2> QED BY <2>1, <2>5
<1>15. /\ DOMAIN wire' = Side /\ wire'[s] = in
       /\ DOMAIN used' = Side /\ used'[s] = us /\ used'[q] = used[q]
  <2>1. DOMAIN used = Side
    BY DEF SessionInv, Types
  <2> HIDE DEF us
  <2> QED BY <2>1, <1>1, <1>8, <1>10
<1> HIDE DEF a, b, us, ms, ds, frame, cells, n
<1> QED BY <1>3, <1>4, <1>6, <1>7, <1>8, <1>9, <1>12, <1>13, <1>14, <1>15
        DEF ConfAlike, ms

----------------------------------------------------------------------------
(* The actions that send and receive frames.                               *)

\* A sequence that was appended to.
LEMMA AppendFacts ==
    ASSUME NEW ms \in Seq(MessageType), NEW msg \in MessageType
    PROVE  Append(ms, msg) \in Seq(MessageType) /\ Append(ms, msg) # <<>>
BY AppendProperties

\* A message after the first one is no init.
LEMMA AppendOrder ==
    ASSUME NEW ms \in Seq(MessageType), NEW msg \in MessageType,
           \A j \in 1 .. Len(ms) : ms[j].type = "init" <=> j = 1,
           msg.type = "init" <=> ms = <<>>
    PROVE  LET ns == Append(ms, msg)
           IN  /\ ns # <<>> /\ ns \in Seq(MessageType) /\ (Len(ns) > 1 => ms # <<>>)
               /\ \A j \in 1 .. Len(ns) : ns[j].type = "init" <=> j = 1
<1> DEFINE ns == Append(ms, msg)
<1>1. /\ ns \in Seq(MessageType) /\ ns # <<>> /\ Len(ns) = Len(ms) + 1
      /\ ns[Len(ms) + 1] = msg /\ \A j \in 1 .. Len(ms) : ns[j] = ms[j]
      /\ Len(ms) \in Nat
  OBVIOUS
<1>2. ms = <<>> <=> Len(ms) = 0
  OBVIOUS
<1> HIDE DEF ns
<1>3. ASSUME NEW j \in 1 .. Len(ns) PROVE ns[j].type = "init" <=> j = 1
  <2>1. CASE j \in 1 .. Len(ms)
    BY <2>1, <1>1
  <2>2. CASE j = Len(ms) + 1
    BY <2>2, <1>1, <1>2
  <2>3. j \in 1 .. Len(ms) \/ j = Len(ms) + 1
    BY <1>1
  <2> QED BY <2>1, <2>2, <2>3
<1> QED BY <1>1, <1>2, <1>3 DEF ns

\* A frame that is sent without one being received.
LEMMA SendStep ==
    ASSUME SessionInv, NEW s \in Side, Threads(s), NEW st \in SelfType,
           NEW cf \in ConfType, NEW msg \in MessageType, NEW pl \in PollType,
           send_peer_noise(s, st, cf, wire[s], msg),
           handled' = handled, poll' = [poll EXCEPT ![s] = pl],
           st.p_handshake = self[s].p_handshake, st.noise_send = self[s].noise_send,
           st.noise_recv = self[s].noise_recv,
           cf.phase = conf[s].phase \/ cf.phase \in ThreadPhase,
           cf.node_id = conf[s].node_id,
           cf.loop = conf[s].loop, cf.cause = conf[s].cause
    PROVE  SessionInv'
<1> DEFINE q == Other(s)
           ms == Append(sent[s], msg)
<1>1. PICK a \in SelfType, b \in ConfType :
                /\ a.p_handshake = st.p_handshake /\ a.noise_recv = st.noise_recv
                /\ ConfAlike(cf, b) /\ b.loop = cf.loop /\ b.cause = cf.cause
                /\ self' = [self EXCEPT ![s] = a]
                /\ conf' = [conf EXCEPT ![s] = b]
                /\ sent' = [sent EXCEPT ![s] = ms]
                /\ DOMAIN used' = Side /\ used'[q] = used[q]
                /\ DOMAIN wire' = Side /\ faults' \in Nat /\ faults' >= faults
                /\ InStep(a.noise_send, Half(s), ms) /\ UsedOnce(used'[s], Half(s), ms)
                /\ wire'[s] = wire[s]
                /\ \E cs \in Seq(CellType) :
                        /\ wire'[q] = Lead(q) \o cs
                        /\ Stream(cs, Half(s), ms, handled[q], faults')
  BY SendFacts
<1>2. /\ sent[s] \in Seq(MessageType) /\ handled[s] \in Seq(MessageType) /\ faults \in Nat
  BY TrafficTypes
<1>3. InStep(self[s].noise_recv, Half(q), handled[s])
  BY DEF SessionInv, Ciphers
<1>4. Stream(wire'[s], Half(q), sent[q], handled[s], faults')
  <2>1. Stream(wire[s], Half(q), sent[q], handled[s], faults)
    BY NoLead
  <2>2. faults' = 0 => faults = 0
    BY <1>1, <1>2
  <2> QED BY <2>1, <2>2, <1>1, StreamFaulted
<1>5. handled' = [handled EXCEPT ![s] = handled[s]]
  BY DEF SessionInv, Types
<1>6. ms \in Seq(MessageType)
  BY <1>2, AppendFacts
<1> HIDE DEF ms
<1>7. FrameAt(s, a, b, pl, ms, handled[s], used'[s])
  BY <1>1, <1>2, <1>3, <1>4, <1>5, <1>6 DEF FrameAt, ConfAlike
<1> QED BY <1>7, FrameStep

\* init, the other messages and the ping.
LEMMA SendActions ==
    ASSUME SessionInv, NEW s \in Side, SendInit(s) \/ SendOther(s) \/ PingSend(s)
    PROVE  SessionInv'
<1>1. /\ self[s] \in SelfType /\ conf[s] \in ConfType /\ poll[s] \in PollType
      /\ poll = [poll EXCEPT ![s] = poll[s]] /\ Pinging(s)
  BY TypesAt DEF SessionInv
<1>2. \A t \in {"init", "ping", "pong", "other"}, n \in Nat \cup PongSizes :
        Message(t, n) \in MessageType
  BY DEF Message, MessageType
<1>3. CASE SendInit(s)
  <2> DEFINE cf == [conf[s] EXCEPT !.phase = "wait"]
  <2>1. /\ Threads(s) /\ handled' = handled /\ poll' = poll
        /\ send_peer_noise(s, self[s], cf, wire[s], Message("init", 0))
    BY <1>3 DEF SendInit, Threads
  <2>2. /\ cf \in ConfType /\ cf.phase \in ThreadPhase /\ cf.node_id = conf[s].node_id
        /\ cf.loop = conf[s].loop /\ cf.cause = conf[s].cause
    BY <1>1, ConfMoved DEF Phase, ThreadPhase
  <2>3. Message("init", 0) \in MessageType
    BY <1>2
  <2> HIDE DEF cf
  <2> QED BY <2>1, <2>2, <2>3, <1>1, SendStep
<1>4. CASE SendOther(s)
  <2> DEFINE cf == [conf[s] EXCEPT !.others = @ + 1]
             msg == Message("other", conf[s].others)
  <2>1. /\ Threads(s) /\ handled' = handled /\ poll' = poll
        /\ send_peer_noise(s, self[s], cf, wire[s], msg)
    BY <1>4 DEF SendOther, Threads
  <2>2. conf[s].others \in Nat /\ conf[s].others + 1 \in Nat
    BY <1>1 DEF ConfType
  <2>3. ConfAlike(conf[s], cf) /\ cf.loop = conf[s].loop /\ cf.cause = conf[s].cause
    BY <2>2, <1>1, ConfCounted
  <2>4. msg \in MessageType /\ cf \in ConfType /\ cf.phase = conf[s].phase
        /\ cf.node_id = conf[s].node_id
    BY <2>2, <2>3, <1>2 DEF ConfAlike
  <2> HIDE DEF cf, msg
  <2> QED BY <2>1, <2>3, <2>4, <1>1, SendStep
<1>5. CASE PingSend(s)
  <2> DEFINE msg == Message("ping", poll[s].size)
  <2>1. /\ Threads(s)
        /\ handled' = handled /\ poll' = [poll EXCEPT ![s] = NoPing]
        /\ send_peer_noise(s, self[s], conf[s], wire[s], msg)
    BY <1>1, <1>5 DEF PingSend, Pinging
  <2>2. poll[s].size \in Nat \cup PongSizes
    BY <1>1 DEF PollType
  <2>3. msg \in MessageType
    BY <2>2, <1>2
  <2>4. NoPing \in PollType
    BY DEF NoPing, PollType
  <2> HIDE DEF msg
  <2> QED BY <2>1, <2>3, <2>4, <1>1, SendStep
<1> QED BY <1>3, <1>4, <1>5

\* A frame that is received without an answer.
LEMMA TakeStep ==
    ASSUME SessionInv, NEW s \in Side, Receiving(s), Decodes(s),
           NEW st \in SelfType, NEW cf \in ConfType, NEW pl \in PollType,
           self' = [self EXCEPT ![s] = st], conf' = [conf EXCEPT ![s] = cf],
           poll' = [poll EXCEPT ![s] = pl],
           wire' = [wire EXCEPT ![s] = Rest(s)],
           UNCHANGED <<faults, sent, used>>,
           handled' = [handled EXCEPT ![s] = Append(@, wire[s][2].msg)],
           st.p_handshake = self[s].p_handshake, st.noise_send = self[s].noise_send,
           st.noise_recv = Decoded(s).noise_recv,
           cf.phase = conf[s].phase, cf.node_id = conf[s].node_id,
           cf.loop => conf[s].loop,
           cf.cause = "decode" => conf[s].cause = "decode"
    PROVE  SessionInv'
<1> DEFINE q == Other(s)
           msg == wire[s][2].msg
           hs == Append(handled[s], msg)
<1>1. /\ Threads(s) /\ msg \in MessageType
      /\ InStep(st.noise_recv, Half(q), hs)
      /\ Stream(Rest(s), Half(q), sent[q], hs, faults)
  BY TakeFacts
<1>2. /\ sent[s] \in Seq(MessageType) /\ handled[s] \in Seq(MessageType) /\ faults \in Nat
      /\ q \in Side /\ q # s /\ Other(q) = s
  BY TrafficTypes, SideFacts
<1>3. hs \in Seq(MessageType) /\ hs # <<>>
  BY <1>1, <1>2, AppendFacts
<1>4. /\ InStep(self[s].noise_send, Half(s), sent[s])
      /\ UsedOnce(used[s], Half(s), sent[s])
  BY <1>1 DEF SessionInv, Ciphers
<1>5. /\ DOMAIN wire = Side /\ DOMAIN sent = Side /\ DOMAIN used = Side
      /\ DOMAIN handled = Side
  BY DEF SessionInv, Types
<1>6. /\ DOMAIN wire' = Side /\ wire'[s] = Rest(s) /\ wire'[q] = wire[q]
  BY <1>2, <1>5
<1>7. sent' = [sent EXCEPT ![s] = sent[s]] /\ handled' = [handled EXCEPT ![s] = hs]
  <2>1. sent = [sent EXCEPT ![s] = sent[s]]
    BY DEF SessionInv, Types
  <2>2. handled' = [handled EXCEPT ![s] = hs]
    BY <1>5
  <2> QED BY <2>1, <2>2
<1>8. \E cs \in Seq(CellType) : /\ wire'[q] = Lead(q) \o cs
                                /\ Stream(cs, Half(s), sent[s], handled[q], faults')
  BY <1>2, <1>6, SocketOf
<1>9. faults' \in Nat /\ faults' >= faults /\ faults' = faults
  BY <1>2
<1> HIDE DEF hs
<1>10. FrameAt(s, st, cf, pl, sent[s], hs, used[s])
  BY <1>1, <1>2, <1>3, <1>4, <1>5, <1>6, <1>7, <1>8, <1>9 DEF FrameAt
<1> QED BY <1>1, <1>10, FrameStep

\* The receive thread.
LEMMA ReceiveActions ==
    ASSUME SessionInv, NEW s \in Side, Receive(s)
    PROVE  SessionInv'
<1> DEFINE q == Other(s)
           msg == wire[s][2].msg
<1>1. /\ self[s] \in SelfType /\ conf[s] \in ConfType /\ poll[s] \in PollType
      /\ poll = [poll EXCEPT ![s] = poll[s]] /\ conf = [conf EXCEPT ![s] = conf[s]]
  BY TypesAt DEF SessionInv
<1>2. /\ sent[s] \in Seq(MessageType) /\ handled[s] \in Seq(MessageType) /\ faults \in Nat
      /\ q \in Side /\ q # s /\ Other(q) = s
  BY TrafficTypes, SideFacts
<1>3. CASE RecvUndecodable(s)
  <2> DEFINE cf == [conf[s] EXCEPT !.loop = FALSE, !.cause = "decode"]
  <2>1. /\ Receiving(s) /\ ~Decodes(s) /\ conf' = [conf EXCEPT ![s] = cf]
        /\ wire' = [wire EXCEPT ![s] = Rest(s)]
        /\ UNCHANGED <<self, poll, faults, sent, handled, used>>
    BY <1>3 DEF RecvUndecodable, stop_threads, Ghosts
  <2>2. ConfAlike(conf[s], cf) /\ cf.loop = FALSE /\ cf.cause = "decode"
    BY <1>1, ConfStopped DEF Cause
  <2>3. /\ Threads(s) /\ faults > 0
        /\ Stream(Rest(s), Half(q), sent[q], handled[s], faults)
    BY <2>1, TakeFacts
  <2>4. /\ InStep(self[s].noise_send, Half(s), sent[s])
        /\ InStep(self[s].noise_recv, Half(q), handled[s])
        /\ UsedOnce(used[s], Half(s), sent[s])
    BY <2>3 DEF SessionInv, Ciphers
  <2>5. /\ DOMAIN wire = Side /\ DOMAIN used = Side
        /\ self = [self EXCEPT ![s] = self[s]] /\ sent = [sent EXCEPT ![s] = sent[s]]
        /\ handled = [handled EXCEPT ![s] = handled[s]]
    BY DEF SessionInv, Types
  <2>6. DOMAIN wire' = Side /\ wire'[s] = Rest(s) /\ wire'[q] = wire[q]
    BY <2>1, <2>5, <1>2
  <2>7. \E cs \in Seq(CellType) : /\ wire'[q] = Lead(q) \o cs
                                  /\ Stream(cs, Half(s), sent[s], handled[q], faults')
    BY <2>1, <2>6, <1>2, SocketOf
  <2>8. faults' \in Nat /\ faults' >= faults /\ faults' = faults
    BY <2>1, <1>2
  <2> HIDE DEF cf
  <2>9. FrameAt(s, self[s], cf, poll[s], sent[s], handled[s], used[s])
    BY <2>1, <2>2, <2>3, <2>4, <2>5, <2>6, <2>7, <2>8, <1>1, <1>2
       DEF FrameAt, ConfAlike
  <2> QED BY <2>3, <2>9, FrameStep
<1>4. ASSUME NEW type, Handing(s, type)
      PROVE  /\ Receiving(s) /\ Decodes(s) /\ msg.type = type /\ conf[s].loop
             /\ handled' = [handled EXCEPT ![s] = Append(@, msg)]
             /\ Threads(s) /\ msg \in MessageType
             /\ Decoded(s) \in SelfType
             /\ Decoded(s).p_handshake = self[s].p_handshake
             /\ Decoded(s).noise_send = self[s].noise_send
             /\ Decoded(s).init_flag = self[s].init_flag
             /\ Decoded(s).missing_pong_cnt = self[s].missing_pong_cnt
  <2>1. /\ Receiving(s) /\ Decodes(s) /\ msg.type = type
        /\ handled' = [handled EXCEPT ![s] = Append(@, msg)]
    BY <1>4 DEF Handing
  <2>2. conf[s].loop
    BY <2>1 DEF Receiving, Running
  <2> QED BY <2>1, <2>2, TakeFacts
\* The handler fails, or the message changes no more than self.
<1>5. ASSUME NEW type, Handing(s, type), Refuse(s) PROVE SessionInv'
  <2> DEFINE cf == [conf[s] EXCEPT !.loop = FALSE, !.cause = "refused"]
             st == Decoded(s)
  <2>1. /\ self' = [self EXCEPT ![s] = st] /\ conf' = [conf EXCEPT ![s] = cf]
        /\ wire' = [wire EXCEPT ![s] = Rest(s)]
        /\ UNCHANGED <<poll, faults, sent, used>>
    BY <1>5 DEF Refuse, stop_threads
  <2>2. ConfAlike(conf[s], cf) /\ cf.loop = FALSE /\ cf.cause = "refused"
    BY <1>1, ConfStopped DEF Cause
  <2> HIDE DEF cf
  <2> QED BY <2>1, <2>2, <1>1, <1>4, <1>5, TakeStep DEF ConfAlike
<1>6. CASE recv_init(s)
  <2>1. Handing(s, "init")
    BY <1>6 DEF recv_init
  <2>2. CASE Refuse(s)
    BY <2>1, <2>2, <1>5
  <2>3. CASE ~Refuse(s)
    <3>1. PICK flag \in InitFlags(s) :
            /\ Accept(s, [Decoded(s) EXCEPT !.init_flag = flag])
            /\ conf' = [conf EXCEPT ![s].flag_recv = @ \cup {"INIT"}]
            /\ UNCHANGED poll
      BY <2>3, <1>6 DEF recv_init
    <3> DEFINE st == [Decoded(s) EXCEPT !.init_flag = flag]
               cf == [conf[s] EXCEPT !.flag_recv = @ \cup {"INIT"}]
    <3>2. /\ self' = [self EXCEPT ![s] = st] /\ conf' = [conf EXCEPT ![s] = cf]
          /\ wire' = [wire EXCEPT ![s] = Rest(s)]
          /\ UNCHANGED <<poll, faults, sent, used>>
      BY <3>1 DEF Accept
    <3>3. flag \in SUBSET {"SEND", "RECV"}
      BY <1>1 DEF InitFlags, SelfType
    <3>4. /\ st \in SelfType /\ st.p_handshake = self[s].p_handshake
          /\ st.noise_send = self[s].noise_send
          /\ st.noise_recv = Decoded(s).noise_recv
      BY <2>1, <3>3, <1>4 DEF SelfType
    <3>5. /\ cf \in ConfType /\ cf.phase = conf[s].phase /\ cf.node_id = conf[s].node_id
          /\ cf.loop = conf[s].loop /\ cf.cause = conf[s].cause
      BY <1>1 DEF ConfType
    <3>6. /\ Receiving(s) /\ Decodes(s)
          /\ handled' = [handled EXCEPT ![s] = Append(@, wire[s][2].msg)]
          /\ poll' = [poll EXCEPT ![s] = poll[s]]
      BY <2>1, <3>2, <1>1, <1>4
    <3>7. /\ UNCHANGED <<faults, sent, used>> /\ poll[s] \in PollType
          /\ cf.loop => conf[s].loop
          /\ cf.cause = "decode" => conf[s].cause = "decode"
      BY <3>2, <3>5, <1>1
    <3> HIDE DEF st, cf
    <3> QED BY <3>2, <3>4, <3>5, <3>6, <3>7, TakeStep
  <2> QED BY <2>2, <2>3
<1>7. ASSUME NEW type, Handing(s, type), NEW st, SelfAlike(Decoded(s), st),
             Accept(s, st), NEW pl \in PollType, poll' = [poll EXCEPT ![s] = pl],
             pl.stage = poll[s].stage, conf' = conf
      PROVE  SessionInv'
  <2>1. /\ st \in SelfType /\ st.p_handshake = self[s].p_handshake
        /\ st.noise_send = self[s].noise_send /\ st.noise_recv = Decoded(s).noise_recv
    BY <1>4, <1>7 DEF SelfAlike
  <2>2. /\ self' = [self EXCEPT ![s] = st] /\ wire' = [wire EXCEPT ![s] = Rest(s)]
        /\ UNCHANGED <<faults, sent, used>>
    BY <1>7 DEF Accept
  <2>3. Receiving(s) /\ Decodes(s)
        /\ handled' = [handled EXCEPT ![s] = Append(@, wire[s][2].msg)]
    BY <1>4, <1>7
  <2> QED BY <2>1, <2>2, <2>3, <1>1, <1>7, TakeStep
<1>8. CASE RecvOther(s)
  <2>1. Handing(s, "other")
    BY <1>8 DEF RecvOther
  <2>2. CASE Refuse(s)
    BY <2>1, <2>2, <1>5
  <2>3. CASE ~Refuse(s)
    <3>1. Accept(s, Decoded(s)) /\ UNCHANGED <<conf, poll>>
      BY <2>3, <1>8 DEF RecvOther
    <3>2. SelfAlike(Decoded(s), Decoded(s))
      BY <2>1, <1>4, SelfUpdates
    <3> QED BY <2>1, <3>1, <3>2, <1>1, <1>7
  <2> QED BY <2>2, <2>3
<1>9. CASE recv_pong(s)
  <2> DEFINE cnt == self[s].missing_pong_cnt
             down(k) == (cnt + 65536 - k) % 65536
             st == [Decoded(s) EXCEPT !.missing_pong_cnt = down(1),
                                      !.last_num_pong_bytes = 0]
  <2>1. Handing(s, "pong")
    BY <1>9 DEF recv_pong
  <2>2. Refuse(s) \/ TakePong(s)
    BY <1>9 DEF recv_pong
  <2>3. cnt \in Nat /\ down(1) \in Nat /\ down(2) \in Nat
    <3>1. cnt \in Nat
      BY <1>1 DEF SelfType
    <3> HIDE DEF cnt
    <3> QED BY <3>1
  <2>4. SelfAlike(Decoded(s), Decoded(s)) /\ SelfAlike(Decoded(s), st)
    <3> HIDE DEF down
    <3> QED BY <2>1, <2>3, <1>4, SelfUpdates
  <2>5. ASSUME TakePong(s)
        PROVE
        /\ conf' = conf
        /\ \/ Accept(s, Decoded(s)) /\ poll' = poll
           \/ /\ Accept(s, st)
              /\ \/ poll' = poll
                 \/ \E seen \in {cnt, down(1), down(2)} :
                        poll' = [poll EXCEPT ![s].loaded = seen]
    BY <2>5 DEF TakePong
  <2> HIDE DEF cnt, down, st
  <2>6. CASE TakePong(s) /\ poll' = poll
    BY <2>1, <2>4, <2>5, <2>6, <1>1, <1>7
  <2>7. CASE TakePong(s) /\ Accept(s, st) /\ \E seen \in {cnt, down(1), down(2)} :
                                poll' = [poll EXCEPT ![s].loaded = seen]
    <3>1. PICK seen \in {cnt, down(1), down(2)} :
                poll' = [poll EXCEPT ![s].loaded = seen]
      BY <2>7
    <3> DEFINE pl == [poll[s] EXCEPT !.loaded = seen]
    <3>2. poll' = [poll EXCEPT ![s] = pl] /\ pl \in PollType /\ pl.stage = poll[s].stage
      BY <3>1, <2>3, <1>1 DEF PollType
    <3> HIDE DEF pl
    <3> QED BY <3>2, <2>1, <2>4, <2>5, <2>7, <1>7
  <2>8. CASE Refuse(s)
    BY <2>1, <2>8, <1>5
  <2> QED BY <2>2, <2>5, <2>6, <2>7, <2>8
<1>10. CASE recv_ping(s) /\ Refuse(s)
  <2>1. Handing(s, "ping")
    BY <1>10 DEF recv_ping
  <2> QED BY <2>1, <1>5, <1>10
<1>11. CASE recv_ping(s) /\ ~Refuse(s)
  <2> DEFINE pong == Message("pong", msg.n)
             st == Decoded(s)
             ms == Append(sent[s], pong)
             hs == Append(handled[s], msg)
  <2>1. Handing(s, "ping")
    BY <1>11 DEF recv_ping
  <2>2. send_peer_noise(s, st, conf[s], Rest(s), pong) /\ poll' = poll
    BY <1>11 DEF recv_ping
  <2>3. pong \in MessageType 
    BY <2>1, <1>4 DEF MessageType, Message
  <2>4. /\ Threads(s) /\ st \in SelfType /\ st.noise_send = self[s].noise_send
        /\ st.p_handshake = self[s].p_handshake
        /\ Receiving(s) /\ Decodes(s) /\ msg \in MessageType
        /\ handled' = [handled EXCEPT ![s] = Append(@, msg)]
    BY <2>1, <1>4
  <2>5. /\ InStep(st.noise_recv, Half(q), hs)
        /\ Stream(Rest(s), Half(q), sent[q], hs, faults)
    BY <2>4, TakeFacts
  <2> HIDE DEF pong, st
  <2> DEFINE cf == conf[s]
             rest == Rest(s)
  <2>6. cf \in ConfType /\ send_peer_noise(s, st, cf, rest, pong)
    BY <2>2, <1>1
  <2> HIDE DEF cf, rest
  <2>7. PICK a \in SelfType, b \in ConfType :
                /\ a.p_handshake = st.p_handshake /\ a.noise_recv = st.noise_recv
                /\ ConfAlike(cf, b) /\ b.loop = cf.loop /\ b.cause = cf.cause
                /\ self' = [self EXCEPT ![s] = a]
                /\ conf' = [conf EXCEPT ![s] = b]
                /\ sent' = [sent EXCEPT ![s] = ms]
                /\ DOMAIN used' = Side /\ used'[q] = used[q]
                /\ DOMAIN wire' = Side /\ faults' \in Nat /\ faults' >= faults
                /\ InStep(a.noise_send, Half(s), ms) /\ UsedOnce(used'[s], Half(s), ms)
                /\ wire'[s] = rest
                /\ \E cs \in Seq(CellType) :
                        /\ wire'[q] = Lead(q) \o cs
                        /\ Stream(cs, Half(s), ms, handled[q], faults')
    BY <2>3, <2>4, <2>6, SendFacts
  <2>8. Stream(wire'[s], Half(q), sent[q], hs, faults')
    <3>1. faults' = 0 => faults = 0
      BY <2>7, <1>2
    <3> QED BY <3>1, <2>5, <2>7, StreamFaulted DEF rest
  <2>10. hs \in Seq(MessageType) /\ hs # <<>> /\ handled' = [handled EXCEPT ![s] = hs]
    <3>1. DOMAIN handled = Side
      BY DEF SessionInv, Types
    <3> QED BY <3>1, <2>4, <1>2, AppendFacts
  <2>11. ms \in Seq(MessageType)
    BY <2>3, <1>2, AppendFacts
  <2> HIDE DEF ms, hs
  <2>12. FrameAt(s, a, b, poll[s], ms, hs, used'[s])
    BY <2>2, <2>4, <2>5, <2>7, <2>8, <2>10, <2>11, <1>1 DEF FrameAt, ConfAlike, cf
  <2> QED BY <2>4, <2>12, FrameStep
<1> QED BY <1>3, <1>6, <1>8, <1>9, <1>10, <1>11 DEF Receive

----------------------------------------------------------------------------
(* The handshake.                                                          *)

\* Before the first frame there is nothing under way.
LEMMA EmptyStream ==
    ASSUME NEW h \in 1 .. 2, NEW f
    PROVE  Stream(<<>>, h, <<>>, <<>>, f) /\ UsedOnce({}, h, <<>>)
<1>1. IsFiniteSet({}) /\ Cardinality({}) = 0
  BY FS_EmptySet
<1>2. /\ <<>> \in Seq(CellType) /\ Len(<<>>) = 0 /\ 1 .. Len(<<>>) = {}
  OBVIOUS
<1>3. UsedOnce({}, h, <<>>)
  BY <1>1, <1>2 DEF UsedOnce
<1>4. Stream(<<>>, h, <<>>, <<>>, f)
  BY <1>2 DEF Stream
<1> QED BY <1>3, <1>4

\* The first cipher of either direction.
LEMMA FirstCipher ==
    ASSUME NEW h \in 1 .. 2
    PROVE  InStep(Cipher(FinalKey, h), h, <<>>) /\ Cipher(FinalKey, h) \in CipherType
<1> DEFINE k == [ck |-> FinalKey, half |-> h, rotations |-> 0]
<1>1. k \in TrafficKeys(h) /\ k \in KeyType /\ k.rotations = 0
  BY DEF TrafficKeys, KeyType
<1>2. Cipher(FinalKey, h) = [key |-> k, nonce |-> 0]
  BY DEF Cipher, TrafficKey
<1>3. 0 \in Nonce /\ 0 % 2 = 0 /\ Len(<<>>) = 0
  BY RotateAssumption DEF Nonce
<1>4. Place(0, 0) = 0
  BY RotateAssumption DEF Place
<1> HIDE DEF k
<1> QED BY <1>1, <1>2, <1>3, <1>4 DEF InStep, CipherType, PlaceOf

\* A step of the handshake at s, which leaves st and cf, and w1 and w2 in the
\* sockets of s and of the other end.
ActAt(s, st, cf, w1, w2) ==
    /\ st \in SelfType /\ cf \in ConfType
    /\ self' = [self EXCEPT ![s] = st]
    /\ conf' = [conf EXCEPT ![s] = cf]
    /\ DOMAIN wire' = Side /\ wire'[s] = w1 /\ wire'[Other(s)] = w2
    /\ UNCHANGED <<poll, faults, sent, handled, used>>
    /\ cf.cause = conf[s].cause /\ ~Threads(s)
    /\ cf.phase \notin {"create", "wait", "ready"}
    /\ \/ cf.phase # "init"
       \/ /\ InStep(st.noise_send, Half(s), <<>>)
          /\ InStep(st.noise_recv, Half(Other(s)), <<>>)

\* What such a step leaves to be shown: the phases, and the heads of the
\* sockets.
LEMMA ActStep ==
    ASSUME SessionInv, NEW s \in Side, NEW st, NEW cf, NEW w1, NEW w2,
           ActAt(s, st, cf, w1, w2),
           Apart', Known', Mixed(s)', Mixed(Other(s))', Flow(s)', Flow(Other(s))'
    PROVE  SessionInv'
<1> DEFINE q == Other(s)
<1>1. Types
      /\ \A x \in Side : Ciphers(x) /\ Pinging(x) /\ Stopped(x)
  BY DEF SessionInv
<1>2. /\ self' \in [Side -> SelfType] /\ self'[s] = st
      /\ \A x \in Side : x # s => self'[x] = self[x]
  BY <1>1, Update DEF ActAt, Types
<1>3. /\ conf' \in [Side -> ConfType] /\ conf'[s] = cf
      /\ \A x \in Side : x # s => conf'[x] = conf[x]
  BY <1>1, Update DEF ActAt, Types
<1>4. DOMAIN wire' = Side /\ UNCHANGED <<poll, faults, sent, handled, used>>
  BY DEF ActAt
<1>5. Types'
  BY <1>1, <1>2, <1>3, <1>4 DEF Types
<1>6. q \in Side /\ q # s /\ Side = {s, q}
  BY SideFacts, SideAssumption DEF Side, Other
<1>7. sent[s] = <<>> /\ handled[s] = <<>>
  BY <1>1 DEF ActAt, Ciphers
<1>8. Ciphers(s)'
  <2>1. Threads(s)' => cf.phase = "init"
    BY <1>3 DEF Threads, ActAt
  <2>2. UsedOnce(used[s], Half(s), sent[s])
    BY <1>1 DEF Ciphers
  <2> QED BY <2>1, <2>2, <1>2, <1>4, <1>7 DEF ActAt, Ciphers
<1>9. Ciphers(q)'
  BY <1>1, <1>2, <1>3, <1>4, <1>6 DEF Ciphers, Threads
<1>10. Pinging(s)' /\ Pinging(q)'
  BY <1>1, <1>3, <1>4, <1>6 DEF Pinging, ActAt, Threads
<1>11. Stopped(s)' /\ Stopped(q)'
  BY <1>1, <1>3, <1>4, <1>6 DEF Stopped, ActAt
<1> QED BY <1>5, <1>6, <1>8, <1>9, <1>10, <1>11 DEF SessionInv

\* Which end can be in which phase, and what follows for the frames.
LEMMA PhaseFacts ==
    ASSUME SessionInv
    PROVE  /\ conf[Initiator].phase \in {"none", "act_two"} \cup ThreadPhase
           /\ conf[Responder].phase \in {"none", "act_one", "act_three"} \cup ThreadPhase
           /\ \A s \in Side : ~Threads(s) => sent[s] = <<>> /\ handled[s] = <<>>
           /\ ~Threads(Initiator) => ~Threads(Responder)
<1>1. Apart /\ \A s \in Side : Ciphers(s)
  BY DEF SessionInv
<1>2. \A s \in Side : ~Threads(s) => sent[s] = <<>> /\ handled[s] = <<>>
  BY <1>1 DEF Ciphers
<1> QED BY <1>1, <1>2 DEF Apart, Threads, ThreadPhase

\* Until the other end sends frames, a socket holds its act and no more.
LEMMA LeadOnly ==
    ASSUME SessionInv, NEW s \in Side, ~Threads(Other(s))
    PROVE  wire[s] = Lead(s)
<1>1. sent[Other(s)] = <<>>
  BY PhaseFacts, SideFacts
<1>2. wire[s] = Lead(s) \o <<>>
  BY <1>1, SocketOf
<1>3. PICK l : Lead(s) = <<>> \/ Lead(s) = <<l>>
  BY DEF Lead
<1> QED BY <1>2, <1>3

\* And it holds no more after the act was taken or put there.
LEMMA LeadFlow ==
    ASSUME NEW s \in Side, wire'[s] = Lead(s)', sent'[Other(s)] = <<>>, handled'[s] = <<>>
    PROVE  Flow(s)'
<1>1. PICK l : Lead(s)' = <<>> \/ Lead(s)' = <<l>>
  BY DEF Lead
<1>2. wire'[s] = Lead(s)' \o <<>> /\ <<>> \in Seq(CellType)
  BY <1>1
<1>3. Stream(<<>>, Half(Other(s)), sent'[Other(s)], handled'[s], faults')
  BY EmptyStream, SideFacts
<1> QED BY <1>2, <1>3 DEF Flow

\* Only the handshake state of an end changes.
LEMMA SetHandshakeType ==
    ASSUME NEW st \in SelfType, NEW b \in HandshakeType
    PROVE  LET a == [st EXCEPT !.p_handshake = b]
           IN  /\ a \in SelfType /\ a.p_handshake = b /\ a.init_flag = st.init_flag
               /\ a.noise_send = st.noise_send /\ a.noise_recv = st.noise_recv
BY DEF SelfType

\* The handshake ends: the ciphers are set and its state is dropped.
LEMMA CiphersType ==
    ASSUME NEW st \in SelfType
    PROVE  LET a == InitiatorCiphers(st, FinalKey)
               b == ResponderCiphers(st, FinalKey)
           IN  /\ a \in SelfType /\ a.p_handshake = NoHandshake
               /\ a.init_flag = st.init_flag
               /\ InStep(a.noise_send, 1, <<>>) /\ InStep(a.noise_recv, 2, <<>>)
               /\ b \in SelfType /\ b.p_handshake = NoHandshake
               /\ b.init_flag = st.init_flag
               /\ InStep(b.noise_send, 2, <<>>) /\ InStep(b.noise_recv, 1, <<>>)
<1> DEFINE c1 == Cipher(FinalKey, 1)
           c2 == Cipher(FinalKey, 2)
           a == InitiatorCiphers(st, FinalKey)
           b == ResponderCiphers(st, FinalKey)
<1>1. /\ InStep(c1, 1, <<>>) /\ c1 \in CipherType
      /\ InStep(c2, 2, <<>>) /\ c2 \in CipherType
  BY FirstCipher
<1>2. NoHandshake \in HandshakeType
  BY DEF HandshakeType
<1>3. /\ a = [st EXCEPT !.p_handshake = NoHandshake, !.noise_send = c1, !.noise_recv = c2]
      /\ b = [st EXCEPT !.p_handshake = NoHandshake, !.noise_recv = c1, !.noise_send = c2]
  BY DEF InitiatorCiphers, ResponderCiphers
<1> HIDE DEF c1, c2, a, b
<1>4. /\ a \in SelfType /\ a.p_handshake = NoHandshake /\ a.init_flag = st.init_flag
      /\ a.noise_send = c1 /\ a.noise_recv = c2
  BY <1>1, <1>2, <1>3 DEF SelfType
<1>5. /\ b \in SelfType /\ b.p_handshake = NoHandshake /\ b.init_flag = st.init_flag
      /\ b.noise_send = c2 /\ b.noise_recv = c1
  BY <1>1, <1>2, <1>3 DEF SelfType
<1> QED BY <1>1, <1>4, <1>5 DEF a, b

\* Reply: one act is taken from the socket, the next one is sent.
LEMMA ReplyFacts ==
    ASSUME Types, NEW s \in Side, NEW msg
    PROVE  /\ Reply(s, 0, msg) /\ wire[s] = <<>> /\ wire[Other(s)] = <<>> =>
                /\ DOMAIN wire' = Side /\ wire'[s] = <<>> /\ wire'[Other(s)] = <<msg>>
           /\ \A m : Reply(s, 1, msg) /\ wire[s] = <<m>> /\ wire[Other(s)] = <<>> =>
                /\ DOMAIN wire' = Side /\ wire'[s] = <<>> /\ wire'[Other(s)] = <<msg>>
<1>1. Other(s) \in Side /\ Other(s) # s /\ DOMAIN wire = Side
  BY SideFacts DEF Types
<1>2. Append(<<>>, msg) = <<msg>> /\ SubSeq(<<>>, 0 + 1, Len(<<>>)) = <<>>
  OBVIOUS
<1>3. \A m : SubSeq(<<m>>, 1 + 1, Len(<<m>>)) = <<>>
  OBVIOUS
<1> QED BY <1>1, <1>2, <1>3 DEF Reply

\* The initiator connects and sends act one, the responder accepts.
LEMMA StartStep ==
    ASSUME SessionInv, NEW s \in Side, StartInitiator(s) \/ StartResponder(s)
    PROVE  SessionInv'
<1> DEFINE q == Other(s)
<1>1. /\ self[s] \in SelfType /\ conf[s] \in ConfType /\ Types /\ Known /\ Apart
      /\ Mixed(s) /\ Mixed(q) /\ q \in Side /\ q # s /\ Other(q) = s /\ DOMAIN conf = Side
      /\ DOMAIN self = Side
  BY TypesAt, SideFacts DEF SessionInv, Types
<1>2. CASE StartInitiator(s)
  <2> DEFINE act == ActOne(Dialled)
             st == [self[s] EXCEPT !.p_handshake = act.hs]
             cf == [conf[s] EXCEPT !.phase = "act_two"]
  <2>1. /\ s = Initiator /\ q = Responder /\ conf[s].phase = "none"
        /\ self' = [self EXCEPT ![s] = st] /\ conf' = [conf EXCEPT ![s] = cf]
        /\ Reply(s, 0, act.msg) /\ conf[s].loop
        /\ UNCHANGED <<poll, faults, sent, handled, used>>
    BY <1>2, SideFacts DEF StartInitiator, ActOne, SetHandshake, Dialled, Ghosts, Running
  <2>2. conf[q].phase \in {"none", "act_one"}
    BY <2>1, <1>1 DEF Apart, Threads
  <2>3. ~Threads(s) /\ ~Threads(q)
    BY <2>1, <2>2 DEF Threads
  <2>4. Lead(s) = <<>> /\ Lead(q) = <<>>
    BY <2>1, <2>2, <2>3, SideAssumption DEF Lead
  <2>5. wire[s] = <<>> /\ wire[q] = <<>>
    BY <2>3, <2>4, <1>1, LeadOnly
  <2>6. DOMAIN wire' = Side /\ wire'[s] = <<>> /\ wire'[q] = <<act.msg>>
    BY <2>1, <2>5, <1>1, ReplyFacts
  <2>7. act.hs \in HandshakeType
    BY <1>1 DEF HandshakeType, Known
  <2>8. /\ st \in SelfType /\ st.p_handshake = act.hs
        /\ st.init_flag = self[s].init_flag
    BY <2>7, <1>1, SetHandshakeType
  <2>9. /\ cf \in ConfType /\ cf.phase = "act_two" /\ cf.node_id = conf[s].node_id
        /\ cf.flag_recv = conf[s].flag_recv /\ cf.loop = conf[s].loop
        /\ cf.cause = conf[s].cause
    BY <1>1, ConfMoved DEF Phase
  <2> HIDE DEF st, cf, act
  <2>10. ActAt(s, st, cf, <<>>, <<act.msg>>)
    BY <2>1, <2>3, <2>6, <2>8, <2>9 DEF ActAt
  <2>11. /\ self'[s] = st /\ self'[q] = self[q] /\ conf'[s] = cf /\ conf'[q] = conf[q]
         /\ Dialled' = Dialled
    BY <2>1, <2>9, <1>1 DEF Dialled
  <2>12. ~Threads(s)' /\ ~Threads(q)' /\ Apart' /\ Known'
    BY <2>1, <2>2, <2>9, <2>11, <1>1 DEF Apart, Known, Threads
  <2>13. Mixed(s)' /\ Mixed(q)'
    BY <2>1, <2>2, <2>8, <2>9, <2>11, <1>1 DEF Mixed, act
  <2>14. Lead(s)' = <<>> /\ Lead(q)' = <<act.msg>>
    BY <2>1, <2>2, <2>9, <2>11, SideAssumption DEF Lead, act
  <2>15. sent[s] = <<>> /\ sent[q] = <<>> /\ handled[s] = <<>> /\ handled[q] = <<>>
    BY <2>3, <1>1, PhaseFacts
  <2>16. Flow(s)' /\ Flow(q)'
    BY <2>1, <2>6, <2>14, <2>15, <1>1, LeadFlow
  <2> QED BY <2>10, <2>12, <2>13, <2>16, ActStep
<1>3. CASE StartResponder(s)
  <2> DEFINE st == [self[s] EXCEPT !.p_handshake = WaitOne]
             cf == [conf[s] EXCEPT !.phase = "act_one"]
  <2>1. /\ s = Responder /\ q = Initiator /\ conf[s].phase = "none"
        /\ self' = [self EXCEPT ![s] = st] /\ conf' = [conf EXCEPT ![s] = cf]
        /\ conf[s].loop /\ UNCHANGED <<wire, poll, faults, sent, handled, used>>
    BY <1>3, SideFacts DEF StartResponder, WaitOne, SetHandshake, Ghosts, Running
  <2>2. conf[q].phase \in {"none", "act_two"}
    BY <2>1, <1>1 DEF Apart, Threads
  <2>3. ~Threads(s) /\ ~Threads(q)
    BY <2>1, <2>2 DEF Threads
  <2>4. wire[s] = Lead(s) /\ wire[q] = Lead(q)
    BY <2>3, <1>1, LeadOnly
  <2>5. WaitOne \in HandshakeType
    BY DEF HandshakeType
  <2>6. /\ st \in SelfType /\ st.p_handshake = WaitOne
        /\ st.init_flag = self[s].init_flag
    BY <2>5, <1>1, SetHandshakeType
  <2>7. /\ cf \in ConfType /\ cf.phase = "act_one" /\ cf.node_id = conf[s].node_id
        /\ cf.flag_recv = conf[s].flag_recv /\ cf.loop = conf[s].loop
        /\ cf.cause = conf[s].cause
    BY <1>1, ConfMoved DEF Phase
  <2> HIDE DEF st, cf
  <2>8. ActAt(s, st, cf, wire[s], wire[q])
    BY <2>1, <2>3, <2>6, <2>7, <1>1 DEF ActAt, Types
  <2>9. /\ self'[s] = st /\ self'[q] = self[q] /\ conf'[s] = cf /\ conf'[q] = conf[q]
        /\ Dialled' = Dialled
    BY <2>1, <1>1 DEF Dialled
  <2>10. ~Threads(s)' /\ ~Threads(q)' /\ Apart' /\ Known'
    BY <2>1, <2>2, <2>7, <2>9, <1>1 DEF Apart, Known, Threads
  <2>11. Mixed(s)' /\ Mixed(q)'
    BY <2>1, <2>2, <2>6, <2>7, <2>9, <1>1 DEF Mixed
  <2>12. Lead(s)' = Lead(s) /\ Lead(q)' = Lead(q)
    BY <2>1, <2>2, <2>3, <2>7, <2>9, <2>10, SideAssumption DEF Lead
  <2>13. sent[s] = <<>> /\ sent[q] = <<>> /\ handled[s] = <<>> /\ handled[q] = <<>>
    BY <2>3, <1>1, PhaseFacts
  <2>14. Flow(s)' /\ Flow(q)'
    BY <2>1, <2>4, <2>12, <2>13, <1>1, LeadFlow
  <2> QED BY <2>8, <2>10, <2>11, <2>14, ActStep
<1> QED BY <1>2, <1>3

\* The responder takes act one and sends act two.
LEMMA ActOneStep ==
    ASSUME SessionInv, NEW s \in Side, RecvActOne(s)
    PROVE  SessionInv'
<1> DEFINE q == Other(s)
           msg == ActOne(Dialled).msg
           st == [self[s] EXCEPT !.p_handshake = WaitThree]
           cf == [conf[s] EXCEPT !.phase = "act_three"]
<1>1. /\ self[s] \in SelfType /\ conf[s] \in ConfType /\ Types /\ Known /\ Apart
      /\ Mixed(s) /\ Mixed(q) /\ q \in Side /\ q # s /\ Other(q) = s /\ DOMAIN conf = Side
      /\ DOMAIN self = Side
  BY TypesAt, SideFacts DEF SessionInv, Types
<1>2. conf[s].phase = "act_one" /\ conf[s].loop /\ wire[s] # <<>>
  BY DEF RecvActOne, Running, Arrived
<1>3. s = Responder /\ q = Initiator
  BY <1>2, PhaseFacts, SideFacts DEF Side, ThreadPhase
<1>4. conf[q].phase \in {"none", "act_two"} /\ ~Threads(s) /\ ~Threads(q)
  BY <1>1, <1>2, <1>3 DEF Apart, Threads
<1>5. wire[s] = Lead(s) /\ wire[q] = Lead(q)
  BY <1>1, <1>4, LeadOnly
<1>6. conf[q].phase = "act_two"
  BY <1>2, <1>3, <1>4, <1>5, SideAssumption DEF Lead
<1>7. wire[s] = <<msg>> /\ wire[q] = <<>>
  BY <1>2, <1>3, <1>4, <1>5, <1>6, SideAssumption DEF Lead
<1>8. Head(wire[s]) = msg /\ self[s].p_handshake = WaitOne
  BY <1>1, <1>2, <1>7 DEF Mixed
<1> DEFINE b == actone_receiver(Responder, WaitOne, msg)
<1>9. CASE FailHandshake(s, "handshake")
  BY <1>9, FailStep
<1>10. CASE ~FailHandshake(s, "handshake")
  <2>1. /\ KeyActValid(b, msg)
        /\ LET act == acttwo_sender(Responder, MixHash(b, msg.c), msg.e)
           IN  /\ SetHandshake(s, [act.hs EXCEPT !.state = "WAIT_ACT_THREE"])
               /\ Reply(s, 1, act.msg)
        /\ conf' = [conf EXCEPT ![s].phase = "act_three"]
        /\ UNCHANGED <<poll, faults, sent, handled, used>>
    BY <1>3, <1>8, <1>10 DEF RecvActOne, Ghosts
  <2>2. Dialled = Responder
    BY <2>1, ActOneProves
  <2>3. acttwo_sender(Responder, MixHash(b, msg.c), msg.e) = ActTwo
    BY <2>2 DEF ActTwo
  <2>4. self' = [self EXCEPT ![s] = st] /\ Reply(s, 1, ActTwo.msg)
    BY <2>1, <2>3 DEF SetHandshake, WaitThree
  <2>5. conf' = [conf EXCEPT ![s] = cf]
    BY <2>1
  <2>6. DOMAIN wire' = Side /\ wire'[s] = <<>> /\ wire'[q] = <<ActTwo.msg>>
    BY <2>4, <1>1, <1>7, ReplyFacts
  <2>7. WaitThree \in HandshakeType
    BY DEF HandshakeType
  <2>8. /\ st \in SelfType /\ st.p_handshake = WaitThree
        /\ st.init_flag = self[s].init_flag
    BY <2>7, <1>1, SetHandshakeType
  <2>9. /\ cf \in ConfType /\ cf.phase = "act_three" /\ cf.node_id = conf[s].node_id
        /\ cf.flag_recv = conf[s].flag_recv /\ cf.loop = conf[s].loop
        /\ cf.cause = conf[s].cause
    BY <1>1, ConfMoved DEF Phase
  <2> HIDE DEF st, cf, msg
  <2>10. ActAt(s, st, cf, <<>>, <<ActTwo.msg>>)
    BY <2>1, <2>4, <2>5, <2>6, <2>8, <2>9, <1>4 DEF ActAt
  <2>11. /\ self'[s] = st /\ self'[q] = self[q] /\ conf'[s] = cf /\ conf'[q] = conf[q]
         /\ Dialled' = Dialled
    BY <2>4, <2>5, <1>1, <1>3 DEF Dialled
  <2>12. ~Threads(s)' /\ ~Threads(q)' /\ Apart' /\ Known'
    BY <2>2, <2>9, <2>11, <1>1, <1>3, <1>6 DEF Apart, Known, Threads
  <2>13. Mixed(s)' /\ Mixed(q)'
    BY <2>8, <2>9, <2>11, <1>1, <1>6 DEF Mixed
  <2>14. Lead(s)' = <<>> /\ Lead(q)' = <<ActTwo.msg>>
    BY <2>9, <2>11, <2>12, <1>3, <1>6, SideAssumption DEF Lead
  <2>15. sent[s] = <<>> /\ sent[q] = <<>> /\ handled[s] = <<>> /\ handled[q] = <<>>
    BY <1>1, <1>4, PhaseFacts
  <2>16. Flow(s)' /\ Flow(q)'
    BY <2>1, <2>6, <2>14, <2>15, <1>1, LeadFlow
  <2> QED BY <2>10, <2>12, <2>13, <2>16, ActStep
<1> QED BY <1>9, <1>10

\* The initiator takes act two, sends act three and starts its threads.
LEMMA ActTwoStep ==
    ASSUME SessionInv, NEW s \in Side, RecvActTwo(s)
    PROVE  SessionInv'
<1> DEFINE q == Other(s)
           msg == ActTwo.msg
           st == InitiatorCiphers(self[s], FinalKey)
           cf == [conf[s] EXCEPT !.phase = "init"]
<1>1. /\ self[s] \in SelfType /\ conf[s] \in ConfType /\ Types /\ Known /\ Apart
      /\ Mixed(s) /\ Mixed(q) /\ q \in Side /\ q # s /\ Other(q) = s /\ DOMAIN conf = Side
      /\ DOMAIN self = Side
  BY TypesAt, SideFacts DEF SessionInv, Types
<1>2. conf[s].phase = "act_two" /\ conf[s].loop /\ wire[s] # <<>>
  BY DEF RecvActTwo, Running, Arrived
<1>3. s = Initiator /\ q = Responder
  BY <1>2, PhaseFacts, SideFacts DEF Side, ThreadPhase
<1>4. /\ conf[q].phase \in {"none", "act_one", "act_three"}
      /\ ~Threads(s) /\ ~Threads(q)
  BY <1>1, <1>2, <1>3 DEF Apart, Threads
<1>5. wire[s] = Lead(s) /\ wire[q] = Lead(q)
  BY <1>1, <1>4, LeadOnly
<1>6. conf[q].phase = "act_three"
  BY <1>2, <1>3, <1>4, <1>5, SideAssumption DEF Lead
<1>7. wire[s] = <<msg>> /\ wire[q] = <<>>
  BY <1>2, <1>3, <1>4, <1>5, <1>6, SideAssumption DEF Lead
<1>8. Dialled = Responder
  BY <1>1, <1>3, <1>6 DEF Known
<1>9. Head(wire[s]) = msg /\ self[s].p_handshake = ActOne(Responder).hs
  BY <1>1, <1>2, <1>7, <1>8 DEF Mixed
<1> DEFINE b == acttwo_receiver(Initiator, ActOne(Responder).hs, msg)
<1>10. CASE FailHandshake(s, "handshake")
  BY <1>10, FailStep
<1>11. CASE ~FailHandshake(s, "handshake")
  <2>1. /\ LET act == actthree_sender(Initiator, MixHash(b, msg.c), msg.e)
           IN  /\ self' = [self EXCEPT ![s] = InitiatorCiphers(@, act.hs.ck)]
               /\ Reply(s, 1, act.msg)
        /\ conf' = [conf EXCEPT ![s].phase = "init"]
        /\ UNCHANGED <<poll, faults, sent, handled, used>>
    BY <1>3, <1>9, <1>11 DEF RecvActTwo, Ghosts
  <2>2. actthree_sender(Initiator, MixHash(b, msg.c), msg.e) = ActThree
    BY DEF ActThree
  <2>3. self' = [self EXCEPT ![s] = st] /\ Reply(s, 1, ActThree.msg)
    BY <2>1, <2>2, <1>1 DEF FinalKey
  <2>4. conf' = [conf EXCEPT ![s] = cf]
    BY <2>1
  <2>5. DOMAIN wire' = Side /\ wire'[s] = <<>> /\ wire'[q] = <<ActThree.msg>>
    BY <2>3, <1>1, <1>7, ReplyFacts
  <2>6. /\ st \in SelfType /\ st.p_handshake = NoHandshake
        /\ st.init_flag = self[s].init_flag
        /\ InStep(st.noise_send, Half(s), <<>>) /\ InStep(st.noise_recv, Half(q), <<>>)
    BY <1>1, <1>3, CiphersType, SideAssumption DEF Half
  <2>7. /\ cf \in ConfType /\ cf.phase = "init" /\ cf.node_id = conf[s].node_id
        /\ cf.flag_recv = conf[s].flag_recv /\ cf.loop = conf[s].loop
        /\ cf.cause = conf[s].cause
    BY <1>1, ConfMoved DEF Phase
  <2> HIDE DEF st, cf, msg
  <2>8. ActAt(s, st, cf, <<>>, <<ActThree.msg>>)
    BY <2>1, <2>3, <2>4, <2>5, <2>6, <2>7, <1>4 DEF ActAt
  <2>9. /\ self'[s] = st /\ self'[q] = self[q] /\ conf'[s] = cf /\ conf'[q] = conf[q]
        /\ Dialled' = Dialled
    BY <2>3, <2>4, <2>7, <1>1, <1>3 DEF Dialled
  <2>10. Threads(s)' /\ ~Threads(q)' /\ Apart' /\ Known'
    BY <2>7, <2>9, <1>1, <1>3, <1>6, <1>8 DEF Apart, Known, Threads
  <2>11. Mixed(s)' /\ Mixed(q)'
    BY <2>6, <2>7, <2>9, <1>1, <1>6 DEF Mixed
  <2>12. Lead(s)' = <<>> /\ Lead(q)' = <<ActThree.msg>>
    BY <2>7, <2>9, <2>10, <1>3, <1>6, SideAssumption DEF Lead
  <2>13. sent[s] = <<>> /\ sent[q] = <<>> /\ handled[s] = <<>> /\ handled[q] = <<>>
    BY <1>1, <1>4, PhaseFacts
  <2>14. Flow(s)' /\ Flow(q)'
    BY <2>1, <2>5, <2>12, <2>13, <1>1, LeadFlow
  <2> QED BY <2>8, <2>10, <2>11, <2>14, ActStep
<1> QED BY <1>10, <1>11

\* The responder takes act three and starts its threads.
LEMMA ActThreeStep ==
    ASSUME SessionInv, NEW s \in Side, RecvActThree(s)
    PROVE  SessionInv'
<1> DEFINE q == Other(s)
           msg == ActThree.msg
           st == ResponderCiphers(self[s], FinalKey)
           cf == [conf[s] EXCEPT !.phase = "init", !.node_id = Initiator]
<1>1. /\ self[s] \in SelfType /\ conf[s] \in ConfType /\ Types /\ Known /\ Apart
      /\ Mixed(s) /\ Mixed(q) /\ q \in Side /\ q # s /\ Other(q) = s /\ DOMAIN conf = Side
      /\ DOMAIN self = Side /\ DOMAIN wire = Side /\ Flow(q)
  BY TypesAt, SideFacts DEF SessionInv, Types
<1>2. /\ conf[s].phase = "act_three" /\ conf[s].loop /\ wire[s] # <<>>
      /\ Head(wire[s]).kind = "three"
  BY DEF RecvActThree, Running, Arrived
<1>3. s = Responder /\ q = Initiator
  BY <1>2, PhaseFacts, SideFacts DEF Side, ThreadPhase
<1>4. /\ conf[q].phase = "act_two" \/ Threads(q)
      /\ ~Threads(s) /\ sent[s] = <<>> /\ handled[s] = <<>>
  BY <1>1, <1>2, <1>3, PhaseFacts DEF Apart, Threads
<1>5. Threads(q)
  <2> SUFFICES ASSUME ~Threads(q) PROVE FALSE
    OBVIOUS
  <2>1. wire[s] = Lead(s)
    BY <1>1, LeadOnly
  <2> QED BY <2>1, <1>2, <1>3, <1>4, SideAssumption DEF Lead
<1>6. Lead(s) = <<msg>> /\ Lead(q) = <<>>
  BY <1>2, <1>3, <1>5, SideAssumption DEF Lead, Threads
<1>7. PICK cs \in Seq(CellType) :
            /\ wire[s] = <<msg>> \o cs
            /\ Stream(cs, Half(q), sent[q], handled[s], faults)
  BY <1>6, SocketOf
<1>8. Head(wire[s]) = msg /\ Tail(wire[s]) = cs
  <2> DEFINE S == CellType \cup {msg}
  <2>1. cs \in Seq(S) /\ <<msg>> \in Seq(S) /\ Len(<<msg>>) = 1 /\ <<msg>>[1] = msg
    BY <1>7
  <2> HIDE DEF S, msg
  <2> QED BY <2>1, <1>7
<1>9. self[s].p_handshake = WaitThree
  BY <1>1, <1>2 DEF Mixed
<1>10. CASE FailHandshake(s, "handshake")
  BY <1>10, FailStep
<1>11. CASE ~FailHandshake(s, "handshake")
  <2>1. /\ ActThreeValid(s, WaitThree, msg)
        /\ self' = [self EXCEPT ![s] =
                        ResponderCiphers(@, actthree_receiver(s, WaitThree, msg).ck)]
        /\ conf' = [conf EXCEPT ![s].phase = "init", ![s].node_id = msg.c.plain[2]]
        /\ wire' = [wire EXCEPT ![s] = Tail(@)]
        /\ UNCHANGED <<poll, faults, sent, handled, used>>
    BY <1>8, <1>9, <1>11 DEF RecvActThree, Ghosts
  <2>2. actthree_receiver(s, WaitThree, msg).ck = FinalKey
    BY <2>1, ActKinds DEF ActThreeValid, Decrypts
  <2>3. self' = [self EXCEPT ![s] = st]
    BY <2>1, <2>2, <1>1
  <2>4. conf' = [conf EXCEPT ![s] = cf]
    BY <2>1, ActKinds
  <2>5. DOMAIN wire' = Side /\ wire'[s] = cs /\ wire'[q] = wire[q]
    BY <2>1, <1>1, <1>8
  <2>6. /\ st \in SelfType /\ st.p_handshake = NoHandshake
        /\ st.init_flag = self[s].init_flag
        /\ InStep(st.noise_send, Half(s), <<>>) /\ InStep(st.noise_recv, Half(q), <<>>)
    BY <1>1, <1>3, CiphersType, SideAssumption DEF Half
  <2>7. /\ cf \in ConfType /\ cf.phase = "init" /\ cf.node_id = Initiator
        /\ cf.flag_recv = conf[s].flag_recv /\ cf.loop = conf[s].loop
        /\ cf.cause = conf[s].cause
    BY <1>1 DEF ConfType, Phase, NodeId
  <2> HIDE DEF st, cf, msg
  <2>8. ActAt(s, st, cf, cs, wire[q])
    BY <2>1, <2>3, <2>4, <2>5, <2>6, <2>7, <1>4 DEF ActAt
  <2>9. /\ self'[s] = st /\ self'[q] = self[q] /\ conf'[s] = cf /\ conf'[q] = conf[q]
        /\ Dialled' = Dialled
    BY <2>3, <2>4, <1>1, <1>3 DEF Dialled
  <2>10. Threads(s)' /\ Threads(q)' /\ Apart' /\ Known'
    BY <2>7, <2>9, <1>1, <1>2, <1>3, <1>5 DEF Apart, Known, Threads
  <2>11. Mixed(s)'
    BY <2>6, <2>7, <2>9 DEF Mixed
  <2>12. Mixed(q)'
    BY <2>9, <1>1 DEF Mixed
  <2>13. Lead(s)' = <<>> /\ Lead(q)' = <<>>
    BY <2>7, <2>9, <2>10, <1>3, <1>5, SideAssumption DEF Lead, Threads
  <2>14. Flow(s)'
    <3>1. wire'[s] = Lead(s)' \o cs
      BY <2>5, <2>13
    <3>2. Stream(cs, Half(q), sent'[q], handled'[s], faults')
      BY <2>1, <1>7
    <3> QED BY <3>1, <3>2 DEF Flow
  <2>15. Flow(q)'
    BY <2>1, <2>5, <2>13, <1>1, <1>6 DEF Flow
  <2> QED BY <2>8, <2>10, <2>11, <2>12, <2>14, <2>15, ActStep
<1> QED BY <1>10, <1>11

----------------------------------------------------------------------------
(* The theorems.                                                           *)

\* The handshake and the frames keep the invariant, at every step of either
\* end (noise_handshake, send_peer_noise, the receive and the poll thread).
THEOREM SessionInvariant == Spec => []SessionInv
<1>1. Init => SessionInv
  <2> SUFFICES ASSUME Init PROVE SessionInv
    OBVIOUS
  <2>1. PICK dialled \in {Responder, Stranger} :
            conf = [s \in Side |-> NewConf(s, dialled)]
    BY DEF Init
  <2>2. /\ self = [s \in Side |-> NewSelf] /\ poll = [s \in Side |-> NoPing]
        /\ wire = [s \in Side |-> <<>>] /\ faults = 0 /\ sent = [s \in Side |-> <<>>]
        /\ handled = [s \in Side |-> <<>>] /\ used = [s \in Side |-> {}]
    BY DEF Init
  <2>3. Initiator \in Side /\ Responder \in Side
    BY SideFacts
  <2>4. NewSelf \in SelfType /\ NewSelf.p_handshake = NoHandshake /\ NewSelf.init_flag = {}
    <3>1. NoCipher \in CipherType
      BY DEF NoCipher, Cipher, TrafficKey, CipherType, KeyType
    <3>2. NoHandshake \in HandshakeType
      BY DEF HandshakeType
    <3> QED BY <3>1, <3>2 DEF NewSelf, SelfType
  <2>5. ASSUME NEW s \in Side
        PROVE  /\ conf[s] \in ConfType /\ conf[s].phase = "none" /\ conf[s].cause = ""
               /\ conf[s].flag_recv = {}
    BY <2>1 DEF NewConf, ConfType, Phase, Cause, NodeId, Side
  <2>6. Dialled = dialled
    BY <2>1, <2>3 DEF Dialled, NewConf
  <2>7. NoPing \in PollType /\ NoPing.stage = "idle"
    BY DEF NoPing, PollType
  <2>8. Types
    <3>1. self \in [Side -> SelfType] /\ poll \in [Side -> PollType]
      BY <2>2, <2>4, <2>7
    <3>2. conf \in [Side -> ConfType]
      BY <2>1, <2>5
    <3> QED BY <3>1, <3>2, <2>2 DEF Types
  <2>9. Apart /\ Known
    BY <2>3, <2>5, <2>6 DEF Apart, Known, Threads
  <2>10. ASSUME NEW s \in Side
         PROVE  Mixed(s) /\ Ciphers(s) /\ Flow(s) /\ Pinging(s) /\ Stopped(s)
    <3>1. Other(s) \in Side /\ Half(s) \in 1 .. 2 /\ Half(Other(s)) \in 1 .. 2
      BY SideFacts
    <3>2. ~Threads(s) /\ Mixed(s)
      BY <2>2, <2>4, <2>5 DEF Threads, Mixed
    <3>3. Ciphers(s)
      BY <3>1, <3>2, <2>2, EmptyStream DEF Ciphers
    <3>4. Lead(s) = <<>>
      BY <2>3, <2>5 DEF Lead, Threads
    <3>5. Flow(s)
      <4>1. wire[s] = Lead(s) \o <<>> /\ <<>> \in Seq(CellType)
        BY <3>4, <2>2
      <4>2. Stream(<<>>, Half(Other(s)), sent[Other(s)], handled[s], faults)
        BY <3>1, <2>2, EmptyStream
      <4> QED BY <4>1, <4>2 DEF Flow
    <3>6. Pinging(s) /\ Stopped(s)
      BY <2>2, <2>5, <2>7 DEF Pinging, Stopped
    <3> QED BY <3>2, <3>3, <3>5, <3>6
  <2> QED BY <2>8, <2>9, <2>10 DEF SessionInv
<1>2. SessionInv /\ [Next]_vars => SessionInv'
  <2> SUFFICES ASSUME SessionInv, [Next]_vars PROVE SessionInv'
    OBVIOUS
  <2>1. CASE UNCHANGED vars
    <3>1. UNCHANGED <<self, conf, poll, wire, faults, sent, handled, used>>
      BY <2>1 DEF vars
    <3>2. /\ self[Initiator] \in SelfType /\ conf[Initiator] \in ConfType
          /\ poll[Initiator] \in PollType
          /\ self = [self EXCEPT ![Initiator] = self[Initiator]]
          /\ conf = [conf EXCEPT ![Initiator] = conf[Initiator]]
          /\ poll = [poll EXCEPT ![Initiator] = poll[Initiator]]
      BY TypesAt, SideFacts DEF SessionInv
    <3>3. /\ conf' \in [Side -> ConfType] /\ conf'[Initiator] = conf[Initiator]
          /\ \A x \in Side \ {Initiator} : ConfKept(conf[x], conf'[x])
      <4>1. conf' = [conf EXCEPT ![Initiator] = conf[Initiator]]
        BY <3>1, <3>2
      <4> QED BY <4>1, <3>2, SideFacts, ConfOnly DEF SessionInv
    <3>4. poll[Initiator].stage = "idle" \/ Threads(Initiator)
      BY SideFacts DEF SessionInv, Pinging
    <3>5. QuietAt(Initiator, self[Initiator], conf[Initiator], poll[Initiator])
      BY <3>1, <3>2, <3>3, <3>4 DEF QuietAt
    <3> QED BY <3>5, SideFacts, QuietStep
  <2>2. ASSUME NEW s \in Side, Handshake(s) PROVE SessionInv'
    BY <2>2, StartStep, ActOneStep, ActTwoStep, ActThreeStep, QuietActions DEF Handshake
  <2>3. ASSUME NEW s \in Side, Main(s) \/ SendOther(s) PROVE SessionInv'
    BY <2>3, SendActions, QuietActions DEF Main
  <2>4. ASSUME NEW s \in Side, Ping(s) PROVE SessionInv'
    BY <2>4, SendActions, QuietActions DEF Ping
  <2>5. ASSUME NEW s \in Side, Receive(s) PROVE SessionInv'
    BY <2>5, ReceiveActions
  <2>6. ASSUME NEW s \in Side, PeerGone(s) \/ Freeze(s) PROVE SessionInv'
    BY <2>6, QuietActions
  <2> QED BY <2>1, <2>2, <2>3, <2>4, <2>5, <2>6 DEF Next
<1> QED BY <1>1, <1>2, PTL DEF Spec

\* Whoever leaves the handshake knows its peer, and the two hold matching
\* traffic keys (noise_handshake).
THEOREM PeersAuthenticated == Spec => []Authenticated
<1>1. SessionInv => Authenticated
  <2> SUFFICES ASSUME SessionInv PROVE Authenticated
    OBVIOUS
  <2>1. ASSUME NEW s \in Side, Threads(s) PROVE conf[s].node_id = Other(s)
    <3>1. Apart /\ Known
      BY DEF SessionInv
    <3>2. CASE s = Responder
      BY <3>1, <3>2, <2>1, SideFacts DEF Known
    <3>3. CASE s = Initiator
      <4>1. conf[Responder].phase = "act_three" \/ Threads(Responder)
        BY <3>1, <3>3, <2>1 DEF Apart, Threads
      <4> QED BY <4>1, <3>1, <3>3, SideFacts DEF Known, Dialled
    <3> QED BY <3>2, <3>3 DEF Side
  <2>2. ASSUME \A s \in Side : Threads(s), NEW s \in Side
        PROVE  /\ self[s].noise_send.key.ck = self[Other(s)].noise_recv.key.ck
               /\ self[s].noise_send.key.half = self[Other(s)].noise_recv.key.half
    <3>1. Other(s) \in Side /\ Other(Other(s)) = s
      BY SideFacts
    <3>2. /\ InStep(self[s].noise_send, Half(s), sent[s])
          /\ InStep(self[Other(s)].noise_recv, Half(s), handled[Other(s)])
      BY <2>2, <3>1 DEF SessionInv, Ciphers
    <3>3. /\ self[s].noise_send.key \in TrafficKeys(Half(s))
          /\ self[Other(s)].noise_recv.key \in TrafficKeys(Half(s))
      BY <3>2 DEF InStep
    <3> QED BY <3>3 DEF TrafficKeys
  <2> QED BY <2>1, <2>2 DEF Authenticated
<1> QED BY <1>1, SessionInvariant, PTL

\* What ln_recv is given is what the peer sent, in order and without a gap,
\* whichever frames were lost or damaged (send_peer_noise, ln_enc_auth_dec_msg).
THEOREM HandledInOrder == Spec => []InOrder
<1>1. SessionInv => InOrder
  <2> SUFFICES ASSUME SessionInv, NEW s \in Side
               PROVE  IsPrefix(handled[s], sent[Other(s)])
    BY DEF InOrder
  <2> DEFINE hs == handled[s]
             ms == sent[Other(s)]
  <2>1. PICK cs : Stream(cs, Half(Other(s)), ms, hs, faults)
    BY SocketOf
  <2>2. Len(hs) <= Len(ms) /\ \A j \in 1 .. Len(hs) : hs[j] = ms[j]
    BY <2>1 DEF Stream
  <2>3. hs \in Seq(MessageType) /\ ms \in Seq(MessageType)
    BY TrafficTypes, SideFacts
  <2> HIDE DEF hs, ms
  <2>4. SubSeq(hs, 1, Len(hs)) = SubSeq(ms, 1, Len(hs))
    BY <2>2, <2>3
  <2>5. IsPrefix(hs, ms)
    BY <2>2, <2>4 DEF IsPrefix
  <2> QED BY <2>5 DEF hs, ms
<1> QED BY <1>1, SessionInvariant, PTL

\* No key encrypts twice with one nonce, over any number of frames and
\* rotations, and the two directions share no key (ln_enc_auth_enc).
THEOREM NoncesOnce == Spec => []NonceOnce
<1>1. SessionInv => NonceOnce
  <2> SUFFICES ASSUME SessionInv PROVE NonceOnce
    OBVIOUS
  <2>1. \A s \in Side : UsedOnce(used[s], Half(s), sent[s])
    BY DEF SessionInv, Ciphers
  <2>2. \A s \in Side : Cardinality(used[s]) = 2 * Len(sent[s])
    BY <2>1 DEF UsedOnce
  <2>3. Initiator \in Side /\ Responder \in Side /\ Half(Initiator) # Half(Responder)
    BY SideFacts
  <2>4. \A s \in Side : \A u \in used[s] : u[1].half = Half(s)
    BY <2>1 DEF UsedOnce, TrafficKeys
  <2> QED BY <2>2, <2>3, <2>4 DEF NonceOnce
<1> QED BY <1>1, SessionInvariant, PTL

\* As long as no frame was lost or damaged, none fails to decode: the two ends
\* rotate their keys at the same frame (noise_hkdf on both sides).
THEOREM KeysRotateTogether == Spec => []RotatesTogether
<1>1. SessionInv => RotatesTogether
  BY DEF SessionInv, Stopped, RotatesTogether
<1> QED BY <1>1, SessionInvariant, PTL

----------------------------------------------------------------------------
(* The exchange of init.  What an end has sent begins with its init as     *)
(* long as the other end runs: only then can it still be handled.  The     *)
(* poll thread of s may go round while s has not sent its init, but the    *)
(* other end then waits for that init: the first round makes it waited     *)
(* for, and it is over before the second, which would ping (Overdue).      *)

\* What s has sent, for an other end that runs.
InitLeads(s) ==
    /\ sent[s] # <<>> <=> InitSent(s)
    /\ \A j \in 1 .. Len(sent[s]) : sent[s][j].type = "init" <=> j = 1
    /\ Len(sent[s]) > 1 => "INIT" \in conf[s].flag_recv
    /\ ~InitSent(s) /\ "INIT" \in conf[s].flag_recv =>
            /\ poll[s].stage = "idle"
            /\ conf[s].ping_counter > 0 => conf[Other(s)].waited

\* What s has sent and handled, whatever the other end does.
InitKnown(s) ==
    /\ (\E j \in 1 .. Len(sent[s]) : sent[s][j].type = "init") => InitSent(s)
    /\ "INIT" \in conf[s].flag_recv => InitSent(Other(s)) /\ handled[s] # <<>>
    /\ "RECV" \in self[s].init_flag => handled[s] # <<>>
    /\ conf[s].phase = "ready" \/ poll[s].stage # "idle" => "INIT" \in conf[s].flag_recv
    /\ "INIT" \notin conf[s].flag_recv => conf[s].ping_counter = 0
    /\ Running(s) /\ handled[s] # <<>> => "INIT" \in conf[s].flag_recv
    /\ conf[s].cause = "refused" => ~conf[s].loop /\ FlagLost(s)

InitInv == \A s \in Side : InitKnown(s) /\ (Running(Other(s)) => InitLeads(s))

\* A step of s leaves st, cf, pl, ms and hs, and of the other end no more than
\* waited is changed.
InitAt(s, st, cf, pl, ms, hs) ==
    /\ cf \in ConfType
    /\ self' = [self EXCEPT ![s] = st]
    /\ conf' = [conf EXCEPT ![s] = cf] \/ Round(s, cf)
    /\ poll' = [poll EXCEPT ![s] = pl]
    /\ sent' = [sent EXCEPT ![s] = ms] /\ handled' = [handled EXCEPT ![s] = hs]
    /\ frozen \subseteq frozen'
    /\ cf.loop => conf[s].loop
    /\ cf.waited = conf[s].waited
    /\ InitSent(s) => cf.phase \in {"wait", "ready"}

\* What is known of the values after such a step.
LEMMA InitAtFacts ==
    ASSUME Types, NEW s \in Side, NEW st, NEW cf, NEW pl, NEW ms, NEW hs,
           InitAt(s, st, cf, pl, ms, hs)
    PROVE  /\ self'[s] = st /\ conf'[s] = cf /\ poll'[s] = pl
           /\ sent'[s] = ms /\ handled'[s] = hs
           /\ \A x \in Side \ {s} :
                /\ self'[x] = self[x] /\ poll'[x] = poll[x]
                /\ sent'[x] = sent[x] /\ handled'[x] = handled[x]
                /\ ConfKept(conf[x], conf'[x])
                /\ conf'[x].ping_counter = conf[x].ping_counter
                /\ InitSent(x)' <=> InitSent(x)
                /\ conf[x].waited => conf'[x].waited
           /\ conf[s].waited => conf'[s].waited
           /\ \A x \in Side : InitSent(x) => InitSent(x)'
           /\ \A x \in Side : Running(x)' => Running(x)
<1>1. /\ self'[s] = st /\ poll'[s] = pl /\ sent'[s] = ms /\ handled'[s] = hs
      /\ \A x \in Side \ {s} : /\ self'[x] = self[x] /\ poll'[x] = poll[x]
                               /\ sent'[x] = sent[x] /\ handled'[x] = handled[x]
  BY DEF InitAt, Types
<1>2. cf \in ConfType /\ (conf' = [conf EXCEPT ![s] = cf] \/ Round(s, cf))
  BY DEF InitAt
<1>3. /\ conf'[s] = cf
      /\ \A x \in Side \ {s} : /\ ConfKept(conf[x], conf'[x])
                               /\ conf'[x].ping_counter = conf[x].ping_counter
                               /\ conf[x].waited => conf'[x].waited
  <2>1. CASE conf' = [conf EXCEPT ![s] = cf]
    <3>1. /\ conf'[s] = cf
          /\ \A x \in Side \ {s} : conf'[x] = conf[x] /\ ConfKept(conf[x], conf'[x])
      BY <1>2, <2>1, ConfOnly
    <3> QED BY <3>1
  <2>2. CASE Round(s, cf)
    <3>1. Side \ {s} = {Other(s)}
      BY SideFacts, SideAssumption DEF Side, Other
    <3> QED BY <1>2, <2>2, <3>1, RoundFacts
  <2> QED BY <1>2, <2>1, <2>2
<1>4. \A x \in Side \ {s} : InitSent(x)' <=> InitSent(x)
  BY <1>3 DEF InitSent, ConfKept, ConfAlike
<1>5. InitSent(s) => InitSent(s)'
  BY <1>3 DEF InitAt, InitSent
<1>6. \A x \in Side : Running(x)' => Running(x)
  <2> SUFFICES ASSUME NEW x \in Side, conf'[x].loop, x \notin frozen'
               PROVE  conf[x].loop /\ x \notin frozen
    BY DEF Running
  <2>1. x \notin frozen
    BY DEF InitAt
  <2>2. conf[x].loop
    BY <1>3 DEF InitAt, ConfKept
  <2> QED BY <2>1, <2>2
<1>7. conf[s].waited => conf'[s].waited
  BY <1>3 DEF InitAt
<1> QED BY <1>1, <1>3, <1>4, <1>5, <1>6, <1>7

\* Such a step does not disturb what the other end has sent and handled.
LEMMA InitStep ==
    ASSUME Types, InitInv, NEW s \in Side, NEW st, NEW cf, NEW pl, NEW ms, NEW hs,
           InitAt(s, st, cf, pl, ms, hs),
           InitKnown(s)', Running(Other(s)) => InitLeads(s)'
    PROVE  InitInv'
<1> DEFINE q == Other(s)
<1>1. q \in Side /\ q # s /\ Other(q) = s /\ Side = {s, q}
  BY SideFacts, SideAssumption DEF Side, Other
<1>2. /\ self'[q] = self[q] /\ poll'[q] = poll[q]
      /\ sent'[q] = sent[q] /\ handled'[q] = handled[q]
      /\ conf'[q].phase = conf[q].phase /\ conf'[q].flag_recv = conf[q].flag_recv
      /\ conf'[q].loop = conf[q].loop /\ conf'[q].cause = conf[q].cause
      /\ conf'[q].ping_counter = conf[q].ping_counter
      /\ InitSent(q)' <=> InitSent(q)
      /\ conf[s].waited => conf'[s].waited
      /\ InitSent(s) => InitSent(s)'
      /\ Running(s)' => Running(s)
      /\ Running(q)' => Running(q)
  BY <1>1, InitAtFacts DEF ConfKept, ConfAlike
<1>3. InitKnown(q) /\ (Running(s) => InitLeads(q))
  BY <1>1 DEF InitInv
<1>4. InitKnown(q)'
  <2>1. FlagLost(q)' <=> FlagLost(q)
    BY <1>2 DEF FlagLost
  <2> QED BY <1>1, <1>2, <1>3, <2>1 DEF InitKnown
<1>5. ASSUME Running(s)' PROVE InitLeads(q)'
  BY <1>1, <1>2, <1>3, <1>5 DEF InitLeads
<1> QED BY <1>1, <1>2, <1>4, <1>5 DEF InitInv

\* A step that sends and handles nothing.
LEMMA InitStill ==
    ASSUME Types, InitInv, NEW s \in Side, NEW st, NEW cf, NEW pl,
           InitAt(s, st, cf, pl, sent[s], handled[s]),
           cf.flag_recv = conf[s].flag_recv, cf.ping_counter = conf[s].ping_counter,
           cf.phase \in {"wait", "ready"} => InitSent(s),
           cf.phase = "ready" => "INIT" \in conf[s].flag_recv,
           pl.stage # "idle" => poll[s].stage # "idle",
           "RECV" \in st.init_flag => "RECV" \in self[s].init_flag,
           cf.cause # "refused"
    PROVE  InitInv'
<1> DEFINE q == Other(s)
<1>1. q \in Side \ {s}
  BY SideFacts
<1>2. /\ self'[s] = st /\ conf'[s] = cf /\ poll'[s] = pl
      /\ sent'[s] = sent[s] /\ handled'[s] = handled[s]
      /\ InitSent(q)' <=> InitSent(q)
      /\ conf[q].waited => conf'[q].waited
      /\ Running(s)' => Running(s)
      /\ InitSent(s) => InitSent(s)'
  BY <1>1, InitAtFacts
<1>3. InitSent(s)' <=> InitSent(s)
  BY <1>2 DEF InitSent
<1>4. InitKnown(s) /\ (Running(q) => InitLeads(s))
  BY DEF InitInv
<1>5. InitKnown(s)'
  BY <1>2, <1>3, <1>4 DEF InitKnown
<1>6. ASSUME Running(q) PROVE InitLeads(s)'
  BY <1>2, <1>3, <1>4, <1>6 DEF InitLeads
<1> QED BY <1>5, <1>6, InitStep

\* An end that runs has not refused a message.
LEMMA NotRefused ==
    ASSUME InitInv, NEW s \in Side, conf[s].loop
    PROVE  conf[s].cause # "refused"
BY DEF InitInv, InitKnown

\* The steps of the handshake.
LEMMA InitHandshake ==
    ASSUME Types, Types', InitInv, NEW s \in Side, Handshake(s)
    PROVE  InitInv'
<1>1. /\ self[s] \in SelfType /\ conf[s] \in ConfType /\ poll[s] \in PollType
      /\ poll = [poll EXCEPT ![s] = poll[s]]
      /\ sent = [sent EXCEPT ![s] = sent[s]] /\ handled = [handled EXCEPT ![s] = handled[s]]
  BY TypesAt DEF Types
<1>2. conf[s].loop /\ conf[s].phase \notin {"init", "create", "wait", "ready"}
  BY DEF Handshake, StartInitiator, StartResponder, RecvActOne, RecvActTwo,
         RecvActThree, HandshakeTimeout, Running
<1>3. conf[s].cause # "refused"
  BY <1>2, NotRefused
<1>4. ASSUME NEW st, NEW cf \in ConfType,
             self' = [self EXCEPT ![s] = st], st.init_flag = self[s].init_flag,
             conf' = [conf EXCEPT ![s] = cf],
             UNCHANGED <<poll, frozen, sent, handled>>,
             cf.loop => conf[s].loop, cf.waited = conf[s].waited,
             cf.flag_recv = conf[s].flag_recv, cf.ping_counter = conf[s].ping_counter,
             cf.phase \notin {"wait", "ready"}, cf.cause # "refused"
      PROVE  InitInv'
  <2>1. InitAt(s, st, cf, poll[s], sent[s], handled[s])
    BY <1>1, <1>2, <1>4 DEF InitAt, InitSent
  <2> QED BY <2>1, <1>4, InitStill
<1>5. ASSUME NEW b, SetHandshake(s, b), NEW p \in Phase \ {"wait", "ready"},
             conf' = [conf EXCEPT ![s].phase = p],
             UNCHANGED <<poll, frozen, sent, handled>>
      PROVE  InitInv'
  <2> DEFINE st == [self[s] EXCEPT !.p_handshake = b]
             cf == [conf[s] EXCEPT !.phase = p]
  <2>1. self' = [self EXCEPT ![s] = st] /\ conf' = [conf EXCEPT ![s] = cf]
    BY <1>5 DEF SetHandshake
  <2>2. st.init_flag = self[s].init_flag
    BY <1>1 DEF SelfType
  <2>3. /\ cf \in ConfType /\ cf.loop = conf[s].loop /\ cf.waited = conf[s].waited
        /\ cf.flag_recv = conf[s].flag_recv /\ cf.ping_counter = conf[s].ping_counter
        /\ cf.phase = p /\ cf.cause = conf[s].cause
    BY <1>1 DEF ConfType
  <2> HIDE DEF st, cf
  <2> QED BY <2>1, <2>2, <2>3, <1>2, <1>3, <1>4, <1>5
<1>6. ASSUME NEW cause \in {"timeout", "handshake"}, FailHandshake(s, cause)
      PROVE  InitInv'
  <2> DEFINE st == [self[s] EXCEPT !.p_handshake = NoHandshake]
             cf == [conf[s] EXCEPT !.loop = FALSE, !.cause = cause]
  <2>1. /\ self' = [self EXCEPT ![s] = st] /\ conf' = [conf EXCEPT ![s] = cf]
        /\ UNCHANGED <<poll, frozen, sent, handled>>
    BY <1>6 DEF FailHandshake, SetHandshake, stop_threads, Ghosts
  <2>2. st.init_flag = self[s].init_flag
    BY <1>1 DEF SelfType
  <2>3. /\ cf \in ConfType /\ cf.loop = FALSE /\ cf.waited = conf[s].waited
        /\ cf.flag_recv = conf[s].flag_recv /\ cf.ping_counter = conf[s].ping_counter
        /\ cf.phase = conf[s].phase /\ cf.cause = cause
    BY <1>1 DEF ConfType, Cause
  <2> HIDE DEF st, cf
  <2> QED BY <2>1, <2>2, <2>3, <1>2, <1>4
<1>7. CASE StartInitiator(s)
  BY <1>5, <1>7 DEF StartInitiator, Phase, Ghosts
<1>8. CASE StartResponder(s)
  BY <1>5, <1>8 DEF StartResponder, Phase, Ghosts
<1>9. CASE RecvActOne(s)
  BY <1>5, <1>6, <1>9 DEF RecvActOne, Phase, Ghosts
<1>10. CASE RecvActTwo(s)
  <2>1. CASE FailHandshake(s, "handshake")
    BY <2>1, <1>6
  <2>2. CASE ~FailHandshake(s, "handshake")
    <3>1. PICK ck : self' = [self EXCEPT ![s] = InitiatorCiphers(@, ck)]
      BY <2>2, <1>10 DEF RecvActTwo
    <3>2. /\ conf' = [conf EXCEPT ![s].phase = "init"]
          /\ UNCHANGED <<poll, frozen, sent, handled>>
      BY <2>2, <1>10 DEF RecvActTwo, Ghosts
    <3> DEFINE st == InitiatorCiphers(self[s], ck)
               cf == [conf[s] EXCEPT !.phase = "init"]
    <3>3. self' = [self EXCEPT ![s] = st] /\ conf' = [conf EXCEPT ![s] = cf]
      BY <3>1, <3>2
    <3>4. st.init_flag = self[s].init_flag
      BY <1>1 DEF SelfType, InitiatorCiphers
    <3>5. /\ cf \in ConfType /\ cf.loop = conf[s].loop /\ cf.waited = conf[s].waited
          /\ cf.flag_recv = conf[s].flag_recv /\ cf.ping_counter = conf[s].ping_counter
          /\ cf.phase = "init" /\ cf.cause = conf[s].cause
      BY <1>1 DEF ConfType, Phase
    <3> HIDE DEF st, cf
    <3> QED BY <3>2, <3>3, <3>4, <3>5, <1>2, <1>3, <1>4
  <2> QED BY <2>1, <2>2
<1>12. CASE HandshakeTimeout(s)
  BY <1>6, <1>12 DEF HandshakeTimeout
<1>11. CASE RecvActThree(s)
  <2>1. CASE FailHandshake(s, "handshake")
    BY <2>1, <1>6
  <2>2. CASE ~FailHandshake(s, "handshake")
    <3>1. PICK ck : self' = [self EXCEPT ![s] = ResponderCiphers(@, ck)]
      BY <2>2, <1>11 DEF RecvActThree
    <3> DEFINE n == Head(wire[s]).c.plain[2]
    <3>2. /\ conf' = [conf EXCEPT ![s].phase = "init", ![s].node_id = n]
          /\ UNCHANGED <<poll, frozen, sent, handled>>
      BY <2>2, <1>11 DEF RecvActThree, Ghosts
    <3> DEFINE st == ResponderCiphers(self[s], ck)
               cf == [conf[s] EXCEPT !.phase = "init", !.node_id = n]
    <3>3. self' = [self EXCEPT ![s] = st] /\ conf' = [conf EXCEPT ![s] = cf]
      BY <3>1, <3>2
    <3>4. st.init_flag = self[s].init_flag
      BY <1>1 DEF SelfType, ResponderCiphers
    <3>5. cf \in ConfType
      <4> HIDE DEF cf
      <4> QED BY <3>3 DEF Types
    <3>6. /\ cf.loop = conf[s].loop /\ cf.waited = conf[s].waited
          /\ cf.flag_recv = conf[s].flag_recv /\ cf.ping_counter = conf[s].ping_counter
          /\ cf.phase = "init" /\ cf.cause = conf[s].cause
      <4> HIDE DEF n
      <4> QED BY <1>1 DEF ConfType
    <3> HIDE DEF st, cf, n
    <3> QED BY <3>2, <3>3, <3>4, <3>5, <3>6, <1>2, <1>3, <1>4
  <2> QED BY <2>1, <2>2
<1> QED BY <1>7, <1>8, <1>9, <1>10, <1>11, <1>12 DEF Handshake

\* The steps of the main and the poll thread that send nothing, the end of a
\* connection, and a process that hangs.
LEMMA InitQuiet ==
    ASSUME Types, InitInv, NEW s \in Side,
           \/ InitCreate(s) \/ exchange_init(s) \/ InitTimeout(s)
           \/ PingCount(s) \/ RecvUndecodable(s) \/ PeerGone(s) \/ Freeze(s)
    PROVE  InitInv'
<1>1. /\ self[s] \in SelfType /\ conf[s] \in ConfType /\ poll[s] \in PollType
      /\ self = [self EXCEPT ![s] = self[s]] /\ conf = [conf EXCEPT ![s] = conf[s]]
      /\ poll = [poll EXCEPT ![s] = poll[s]]
      /\ sent = [sent EXCEPT ![s] = sent[s]] /\ handled = [handled EXCEPT ![s] = handled[s]]
  BY TypesAt DEF Types
<1>2. conf[s].loop
  BY DEF InitCreate, exchange_init, InitTimeout, Waiting, PingCount, RecvUndecodable,
         Receiving, PeerGone, Freeze, Running
<1>3. conf[s].cause # "refused"
  BY <1>2, NotRefused
<1>4. conf[s].phase = "ready" => "INIT" \in conf[s].flag_recv
  BY DEF InitInv, InitKnown
<1>5. ASSUME NEW st, NEW cf \in ConfType, NEW pl,
             self' = [self EXCEPT ![s] = st], conf' = [conf EXCEPT ![s] = cf],
             poll' = [poll EXCEPT ![s] = pl],
             UNCHANGED <<sent, handled>>, frozen \subseteq frozen',
             "RECV" \in st.init_flag => "RECV" \in self[s].init_flag,
             pl.stage # "idle" => poll[s].stage # "idle",
             cf.waited = conf[s].waited,
             cf.flag_recv = conf[s].flag_recv, cf.ping_counter = conf[s].ping_counter,
             \/ cf.phase = conf[s].phase
             \/ cf.phase = "create" /\ conf[s].phase = "init"
             \/ cf.phase = "ready" /\ conf[s].phase = "wait" /\ "INIT" \in conf[s].flag_recv,
             cf.cause # "refused"
      PROVE  InitInv'
  <2>1. InitAt(s, st, cf, pl, sent[s], handled[s])
    BY <1>1, <1>2, <1>5 DEF InitAt, InitSent
  <2>2. cf.phase \in {"wait", "ready"} => InitSent(s)
    BY <1>5 DEF InitSent
  <2> QED BY <2>1, <2>2, <1>4, <1>5, InitStill
<1>6. ASSUME NEW cause \in Cause \ {"refused"}, stop_threads(s, cause),
             NEW st, NEW pl,
             self' = [self EXCEPT ![s] = st], st.init_flag = self[s].init_flag,
             poll' = [poll EXCEPT ![s] = pl],
             pl.stage # "idle" => poll[s].stage # "idle",
             UNCHANGED <<frozen, sent, handled>>
      PROVE  InitInv'
  <2> DEFINE cf == [conf[s] EXCEPT !.loop = FALSE, !.cause = cause]
  <2>1. conf' = [conf EXCEPT ![s] = cf]
    BY <1>6 DEF stop_threads
  <2>2. /\ cf \in ConfType /\ cf.loop = FALSE /\ cf.waited = conf[s].waited
        /\ cf.flag_recv = conf[s].flag_recv /\ cf.ping_counter = conf[s].ping_counter
        /\ cf.phase = conf[s].phase /\ cf.cause = cause
    BY <1>1 DEF ConfType
  <2> HIDE DEF cf
  <2> QED BY <2>1, <2>2, <1>5, <1>6
<1>7. ASSUME NEW p \in Phase, conf' = [conf EXCEPT ![s].phase = p],
             \/ p = "create" /\ conf[s].phase = "init"
             \/ p = "ready" /\ conf[s].phase = "wait" /\ "INIT" \in conf[s].flag_recv,
             NEW st, self' = [self EXCEPT ![s] = st],
             "RECV" \in st.init_flag => "RECV" \in self[s].init_flag,
             UNCHANGED <<poll, frozen, sent, handled>>
      PROVE  InitInv'
  <2> DEFINE cf == [conf[s] EXCEPT !.phase = p]
  <2>1. conf' = [conf EXCEPT ![s] = cf] /\ poll' = [poll EXCEPT ![s] = poll[s]]
    BY <1>1, <1>7
  <2>2. /\ cf \in ConfType /\ cf.loop = conf[s].loop /\ cf.waited = conf[s].waited
        /\ cf.flag_recv = conf[s].flag_recv /\ cf.ping_counter = conf[s].ping_counter
        /\ cf.phase = p /\ cf.cause = conf[s].cause
    BY <1>1 DEF ConfType
  <2> HIDE DEF cf
  <2> QED BY <2>1, <2>2, <1>3, <1>5, <1>7
<1>8. CASE InitCreate(s)
  <2> DEFINE st == [self[s] EXCEPT !.init_flag = @ \cup {"SEND"}]
  <2>1. /\ self' = [self EXCEPT ![s] = st] /\ conf' = [conf EXCEPT ![s].phase = "create"]
        /\ conf[s].phase = "init" /\ UNCHANGED <<poll, frozen, sent, handled>>
    BY <1>8 DEF InitCreate, Ghosts
  <2>2. "RECV" \in st.init_flag => "RECV" \in self[s].init_flag
    BY <1>1 DEF SelfType
  <2> HIDE DEF st
  <2> QED BY <2>1, <2>2, <1>7 DEF Phase
<1>9. CASE exchange_init(s)
  <2>1. /\ self' = [self EXCEPT ![s] = self[s]]
        /\ conf' = [conf EXCEPT ![s].phase = "ready"]
        /\ conf[s].phase = "wait" /\ "INIT" \in conf[s].flag_recv
        /\ UNCHANGED <<poll, frozen, sent, handled>>
    BY <1>1, <1>9 DEF exchange_init, Ghosts
  <2> QED BY <2>1, <1>7 DEF Phase
<1>10. ASSUME NEW cause \in {"timeout", "decode", "gone"}, stop_threads(s, cause),
              UNCHANGED <<self, poll, frozen, sent, handled>>
       PROVE  InitInv'
  <2>1. self' = [self EXCEPT ![s] = self[s]] /\ poll' = [poll EXCEPT ![s] = poll[s]]
    BY <1>1, <1>10
  <2> QED BY <2>1, <1>6, <1>10 DEF Cause
<1>11. CASE InitTimeout(s)
  BY <1>10, <1>11 DEF InitTimeout, Ghosts
<1>12. CASE RecvUndecodable(s)
  BY <1>10, <1>12 DEF RecvUndecodable, Ghosts
<1>13. CASE PeerGone(s)
  BY <1>10, <1>13 DEF PeerGone, Ghosts
<1>14. CASE Freeze(s)
  <2>1. frozen \subseteq frozen' /\ UNCHANGED <<self, conf, poll, sent, handled>>
    BY <1>14 DEF Freeze, Ghosts
  <2> QED BY <2>1, <1>1, <1>3, <1>5
<1>15. CASE PingCount(s)
  <2> DEFINE st == [self[s] EXCEPT !.missing_pong_cnt = CountMissing(poll[s].loaded)]
             pl == [poll[s] EXCEPT !.stage = "sending"]
  <2>1. /\ self' = [self EXCEPT ![s] = st] /\ poll[s].stage = "counting"
        /\ UNCHANGED <<frozen, sent, handled>>
    BY <1>15 DEF PingCount, Ghosts
  <2>2. st.init_flag = self[s].init_flag
    BY <1>1 DEF SelfType
  <2>3. \/ stop_threads(s, "pong") /\ poll' = [poll EXCEPT ![s] = NoPing]
        \/ conf' = conf /\ poll' = [poll EXCEPT ![s] = pl]
    BY <1>15 DEF PingCount
  <2> HIDE DEF st, pl
  <2>4. CASE stop_threads(s, "pong") /\ poll' = [poll EXCEPT ![s] = NoPing]
    <3>1. NoPing.stage = "idle"
      BY DEF NoPing
    <3> QED BY <3>1, <2>1, <2>2, <2>4, <1>6 DEF Cause
  <2>5. CASE conf' = conf /\ poll' = [poll EXCEPT ![s] = pl]
    BY <2>1, <2>2, <2>5, <1>1, <1>3, <1>5
  <2> QED BY <2>3, <2>4, <2>5
<1> QED BY <1>8, <1>9, <1>11, <1>12, <1>13, <1>14, <1>15

\* A round of the poll thread.  An end that has not sent its init yet is only
\* here when the other end waits for that init: the round finds it not yet
\* waited for, so it is the first one and does not ping.
LEMMA InitRound ==
    ASSUME Types, InitInv, NEW s \in Side, PollQuiet(s) \/ PingCreate(s)
    PROVE  InitInv'
<1> DEFINE q == Other(s)
<1>1. /\ self[s] \in SelfType /\ conf[s] \in ConfType /\ poll[s] \in PollType
      /\ self = [self EXCEPT ![s] = self[s]] /\ poll = [poll EXCEPT ![s] = poll[s]]
      /\ sent = [sent EXCEPT ![s] = sent[s]] /\ handled = [handled EXCEPT ![s] = handled[s]]
      /\ q \in Side \ {s}
  BY TypesAt, SideFacts DEF Types
<1>2. /\ conf[s].loop /\ poll[s].stage = "idle" /\ "INIT" \in conf[s].flag_recv
      /\ ~Overdue(q)
  BY DEF PollQuiet, PingCreate, Polling, Running
<1>3. conf[s].cause # "refused" /\ InitKnown(s) /\ InitKnown(q)
  BY <1>1, <1>2, NotRefused DEF InitInv
<1>4. ASSUME Running(q), ~InitSent(s)
      PROVE  Waiting(q) /\ conf[s].ping_counter = 0
  <2>1. InitLeads(s)
    BY <1>4 DEF InitInv
  <2>2. InitSent(q)
    BY <1>2, <1>3 DEF InitKnown
  <2>3. Other(q) = s
    BY SideFacts
  <2>4. "INIT" \notin conf[q].flag_recv
    BY <2>3, <1>3, <1>4 DEF InitKnown
  <2>5. conf[q].phase # "ready"
    BY <2>4, <1>3 DEF InitKnown
  <2>6. Waiting(q)
    BY <2>2, <2>4, <2>5, <1>4 DEF Waiting, InitSent
  <2>7. ~conf[q].waited
    BY <2>6, <1>2 DEF Overdue
  <2>8. conf[s].ping_counter \in Nat
    BY <1>1 DEF ConfType
  <2> QED BY <2>1, <2>6, <2>7, <2>8, <1>2, <1>4 DEF InitLeads
<1>5. ASSUME NEW st, st.init_flag = self[s].init_flag, self' = [self EXCEPT ![s] = st],
             NEW cf \in ConfType, Round(s, cf), NEW pl, poll' = [poll EXCEPT ![s] = pl],
             UNCHANGED <<frozen, sent, handled>>,
             cf.phase = conf[s].phase, cf.loop = conf[s].loop, cf.cause = conf[s].cause,
             cf.waited = conf[s].waited, cf.flag_recv = conf[s].flag_recv,
             Running(q) /\ ~InitSent(s) => pl.stage = "idle"
      PROVE  InitInv'
  <2>1. InitAt(s, st, cf, pl, sent[s], handled[s])
    BY <1>1, <1>2, <1>5 DEF InitAt, InitSent
  <2>2. /\ self'[s] = st /\ conf'[s] = cf /\ poll'[s] = pl
        /\ sent'[s] = sent[s] /\ handled'[s] = handled[s]
        /\ InitSent(q)' <=> InitSent(q)
        /\ Running(s)' => Running(s)
    BY <2>1, <1>1, InitAtFacts
  <2>3. conf'[q].waited = (conf[q].waited \/ Waiting(q))
    BY <1>5, RoundFacts
  <2>4. InitSent(s)' <=> InitSent(s)
    BY <2>2, <1>5 DEF InitSent
  <2>5. InitKnown(s)'
    BY <2>2, <2>4, <1>2, <1>3, <1>5 DEF InitKnown
  <2>6. ASSUME Running(q) PROVE InitLeads(s)'
    <3>1. InitLeads(s)
      BY <2>6 DEF InitInv
    <3>2. ~InitSent(s) => conf'[q].waited
      BY <2>3, <2>6, <1>4
    <3> QED BY <3>1, <3>2, <2>2, <2>4, <2>6, <1>5 DEF InitLeads
  <2> QED BY <2>1, <2>5, <2>6, InitStep
<1>6. CASE PollQuiet(s)
  <2> DEFINE cf == [conf[s] EXCEPT !.ping_counter = @ + 1]
  <2>1. /\ Round(s, cf) /\ self' = self /\ poll' = poll
        /\ UNCHANGED <<frozen, sent, handled>>
    BY <1>6 DEF PollQuiet, Ghosts
  <2>2. /\ cf \in ConfType /\ cf.phase = conf[s].phase /\ cf.loop = conf[s].loop
        /\ cf.cause = conf[s].cause /\ cf.waited = conf[s].waited
        /\ cf.flag_recv = conf[s].flag_recv
    BY <1>1 DEF ConfType
  <2> HIDE DEF cf
  <2> QED BY <2>1, <2>2, <1>1, <1>2, <1>5
<1>7. CASE PingCreate(s)
  <2>1. PICK size :
            /\ self' = [self EXCEPT ![s].last_num_pong_bytes = size]
            /\ poll' = [poll EXCEPT ![s] = [ stage |-> "counting", size |-> size,
                                             loaded |-> self[s].missing_pong_cnt ]]
    BY <1>7 DEF PingCreate
  <2> DEFINE st == [self[s] EXCEPT !.last_num_pong_bytes = size]
             pl == [ stage |-> "counting", size |-> size,
                     loaded |-> self[s].missing_pong_cnt ]
             m == IF frozen = {} THEN conf[s].pings + 1 ELSE conf[s].pings
             cf == [conf[s] EXCEPT !.ping_counter = PingPolls, !.pings = m]
  <2>2. /\ Round(s, [conf[s] EXCEPT !.ping_counter = PingPolls,
                                !.pings = IF frozen = {} THEN @ + 1 ELSE @])
        /\ conf[s].ping_counter + 1 >= PingPolls
        /\ UNCHANGED <<frozen, sent, handled>>
    BY <1>7 DEF PingCreate, Ghosts
  <2>3. Round(s, cf)
    BY <2>2, <1>1 DEF ConfType
  <2>4. m \in Nat /\ PingPolls \in Nat
    BY <1>1, PollAssumption DEF ConfType
  <2>5. /\ cf \in ConfType /\ cf.phase = conf[s].phase /\ cf.loop = conf[s].loop
        /\ cf.cause = conf[s].cause /\ cf.waited = conf[s].waited
        /\ cf.flag_recv = conf[s].flag_recv
    <3> HIDE DEF m
    <3> QED BY <2>4, <1>1 DEF ConfType
  <2>6. st.init_flag = self[s].init_flag /\ self' = [self EXCEPT ![s] = st]
    BY <2>1, <1>1 DEF SelfType
  <2>7. ~(Running(q) /\ ~InitSent(s))
    BY <2>2, <1>4, PollAssumption
  <2>8. poll' = [poll EXCEPT ![s] = pl]
    BY <2>1
  <2> HIDE DEF st, cf, pl, m
  <2> QED BY <2>2, <2>3, <2>5, <2>6, <2>7, <2>8, <1>5
<1> QED BY <1>6, <1>7

\* A message that is handled is the peer's init if it is the first one, and
\* every later one comes from a peer that has had the init of s.
LEMMA InitHandled ==
    ASSUME SessionInv, InitInv, NEW s \in Side, Receiving(s), Decodes(s)
    PROVE  LET q == Other(s)
               msg == wire[s][2].msg
           IN  /\ Running(s) /\ msg \in MessageType
               /\ msg.type = "init" => handled[s] = <<>> /\ InitSent(q)
               /\ msg.type # "init" =>
                    /\ handled[s] # <<>> /\ "INIT" \in conf[s].flag_recv
                    /\ InitSent(s)
<1> DEFINE q == Other(s)
           msg == wire[s][2].msg
           k == Len(handled[s]) + 1
<1>1. k \in 1 .. Len(sent[q]) /\ msg = sent[q][k] /\ msg \in MessageType
  BY TakeFacts
<1>2. Running(s) /\ q \in Side /\ Other(q) = s
  BY SideFacts DEF Receiving
<1>3. InitLeads(q) /\ InitKnown(s) /\ InitKnown(q)
  BY <1>2 DEF InitInv
<1>4. handled[s] \in Seq(MessageType) /\ sent[q] \in Seq(MessageType)
  BY <1>2, TrafficTypes
<1>5. k = 1 <=> handled[s] = <<>>
  <2> DEFINE hs == handled[s]
  <2>1. hs \in Seq(MessageType)
    BY <1>4
  <2> HIDE DEF hs
  <2>2. Len(hs) + 1 = 1 <=> hs = <<>>
    BY <2>1
  <2> QED BY <2>2 DEF hs
<1>6. msg.type = "init" <=> handled[s] = <<>>
  BY <1>1, <1>3, <1>5 DEF InitLeads
<1>7. ASSUME msg.type = "init" PROVE InitSent(q)
  BY <1>1, <1>3, <1>7 DEF InitKnown
<1>8. ASSUME msg.type # "init"
      PROVE  "INIT" \in conf[s].flag_recv /\ InitSent(s)
  <2>1. k > 1
    BY <1>1, <1>5, <1>6, <1>8
  <2>2. Len(sent[q]) > 1
    BY <2>1, <1>1, <1>4
  <2>3. "INIT" \in conf[q].flag_recv
    BY <2>2, <1>3 DEF InitLeads
  <2>4. InitSent(s)
    BY <2>3, <1>2, <1>3 DEF InitKnown
  <2> QED BY <2>4, <1>2, <1>3, <1>6, <1>8 DEF InitKnown
<1> QED BY <1>1, <1>2, <1>6, <1>7, <1>8

\* Where a message of what was appended to comes from.
LEMMA AppendEither ==
    ASSUME NEW ms \in Seq(MessageType), NEW msg \in MessageType
    PROVE  LET ns == Append(ms, msg)
           IN  \A j \in 1 .. Len(ns) : ns[j] = msg \/ (j \in 1 .. Len(ms) /\ ns[j] = ms[j])
<1> DEFINE ns == Append(ms, msg)
<1>1. /\ Len(ns) = Len(ms) + 1 /\ Len(ms) \in Nat
      /\ ns[Len(ms) + 1] = msg /\ \A j \in 1 .. Len(ms) : ns[j] = ms[j]
  OBVIOUS
<1> HIDE DEF ns
<1>2. \A j \in 1 .. Len(ns) : j \in 1 .. Len(ms) \/ j = Len(ms) + 1
  BY <1>1
<1> QED BY <1>1, <1>2 DEF ns

\* A message that is sent: init by an end that has not sent it, any other one
\* by an end that has, as far as the other end can still handle it.
InitSendAt(s, st, cf, in, msg, pl, hs) ==
    /\ st \in SelfType /\ cf \in ConfType /\ msg \in MessageType
    /\ send_peer_noise(s, st, cf, in, msg)
    /\ poll' = [poll EXCEPT ![s] = pl] /\ frozen' = frozen
    /\ handled' = [handled EXCEPT ![s] = hs]
    /\ hs = <<>> <=> handled[s] = <<>>
    /\ st.init_flag = self[s].init_flag
    /\ cf.loop = conf[s].loop /\ cf.cause = conf[s].cause
    /\ cf.waited = conf[s].waited /\ cf.flag_recv = conf[s].flag_recv
    /\ pl.stage # "idle" => poll[s].stage # "idle"
    /\ \/ msg.type = "init" /\ conf[s].phase = "create" /\ cf.phase = "wait"
       \/ /\ msg.type # "init" /\ cf.phase = conf[s].phase
          /\ "INIT" \in conf[s].flag_recv
          /\ Running(Other(s)) => InitSent(s)

\* Such a step keeps the invariant.
LEMMA InitSends ==
    ASSUME Types, InitInv, NEW s \in Side, conf[s].loop,
           NEW st, NEW cf, NEW in, NEW msg, NEW pl, NEW hs,
           InitSendAt(s, st, cf, in, msg, pl, hs)
    PROVE  InitInv'
<1> DEFINE q == Other(s)
           ms == sent[s]
           ns == Append(ms, msg)
           b == [cf EXCEPT !.ping_counter = 0]
<1>0. /\ st \in SelfType /\ cf \in ConfType /\ msg \in MessageType
      /\ send_peer_noise(s, st, cf, in, msg)
      /\ poll' = [poll EXCEPT ![s] = pl] /\ frozen' = frozen
      /\ handled' = [handled EXCEPT ![s] = hs]
      /\ hs = <<>> <=> handled[s] = <<>>
      /\ st.init_flag = self[s].init_flag
      /\ cf.loop = conf[s].loop /\ cf.cause = conf[s].cause
      /\ cf.waited = conf[s].waited /\ cf.flag_recv = conf[s].flag_recv
      /\ pl.stage # "idle" => poll[s].stage # "idle"
  BY DEF InitSendAt
<1>1. q \in Side \ {s} /\ ms \in Seq(MessageType)
  BY SideFacts DEF Types
<1>2. PICK c : self' = [self EXCEPT ![s] = [st EXCEPT !.noise_send = c]]
  BY <1>0 DEF send_peer_noise
<1> DEFINE a == [st EXCEPT !.noise_send = c]
<1>3. self' = [self EXCEPT ![s] = a] /\ a.init_flag = self[s].init_flag
  BY <1>0, <1>2 DEF SelfType
<1>4. conf' = [conf EXCEPT ![s] = b] /\ sent' = [sent EXCEPT ![s] = ns]
  <2>1. /\ conf' = [conf EXCEPT ![s] = [cf EXCEPT !.ping_counter = 0]]
        /\ sent' = [sent EXCEPT ![s] = Append(@, msg)]
    BY <1>0 DEF send_peer_noise
  <2> QED BY <2>1 DEF Types
<1>5. /\ b \in ConfType /\ b.phase = cf.phase /\ b.loop = conf[s].loop
      /\ b.cause = conf[s].cause /\ b.waited = conf[s].waited
      /\ b.flag_recv = conf[s].flag_recv /\ b.ping_counter = 0
  BY <1>0 DEF ConfType
<1> HIDE DEF a, b, ns
<1>6. InitAt(s, a, b, pl, ns, hs)
  <2>1. InitSent(s) => b.phase \in {"wait", "ready"}
    BY <1>5 DEF InitSendAt, InitSent
  <2> QED BY <2>1, <1>0, <1>3, <1>4, <1>5 DEF InitAt
<1>7. /\ self'[s] = a /\ conf'[s] = b /\ poll'[s] = pl /\ sent'[s] = ns
      /\ handled'[s] = hs /\ InitSent(q)' <=> InitSent(q)
      /\ InitSent(s) => InitSent(s)'
      /\ Running(s)' => Running(s)
  BY <1>1, <1>6, InitAtFacts
<1>8. InitKnown(s) /\ conf[s].cause # "refused" /\ (Running(q) => InitLeads(s))
  BY NotRefused DEF InitInv
<1>9. ASSUME NEW j \in 1 .. Len(ns), ns[j].type = "init" PROVE InitSent(s)'
  <2>1. ns[j] = msg \/ (j \in 1 .. Len(ms) /\ ns[j] = ms[j])
    BY <1>0, <1>1, AppendEither DEF ns
  <2>2. CASE ns[j] = msg
    BY <2>2, <1>5, <1>7, <1>9 DEF InitSendAt, InitSent
  <2>3. CASE j \in 1 .. Len(ms) /\ ns[j] = ms[j]
    BY <2>3, <1>7, <1>8, <1>9 DEF InitKnown
  <2> QED BY <2>1, <2>2, <2>3
<1>10. InitKnown(s)'
  <2>1. conf'[s].phase = "ready" => conf[s].phase = "ready"
    BY <1>5, <1>7 DEF InitSendAt
  <2> QED BY <2>1, <1>0, <1>3, <1>5, <1>7, <1>8, <1>9 DEF InitKnown
<1>11. ASSUME Running(q) PROVE InitLeads(s)'
  <2>1. InitLeads(s)
    BY <1>8, <1>11
  <2>2. InitSent(s)' /\ (msg.type = "init" <=> ms = <<>>)
    BY <2>1, <1>5, <1>7, <1>11 DEF InitLeads, InitSendAt, InitSent
  <2>3. /\ ns # <<>> /\ (Len(ns) > 1 => ms # <<>>)
        /\ \A j \in 1 .. Len(ns) : ns[j].type = "init" <=> j = 1
    BY <2>1, <2>2, <1>0, <1>1, AppendOrder DEF InitLeads, ns
  <2>4. ms # <<>> => "INIT" \in conf[s].flag_recv
    BY <2>2 DEF InitSendAt
  <2> QED BY <2>2, <2>3, <2>4, <1>0, <1>5, <1>7 DEF InitLeads
<1> QED BY <1>6, <1>10, <1>11, InitStep

\* init, the other messages and the ping.
LEMMA InitSendActions ==
    ASSUME Types, InitInv, NEW s \in Side, SendInit(s) \/ SendOther(s) \/ PingSend(s)
    PROVE  InitInv'
<1>1. /\ self[s] \in SelfType /\ conf[s] \in ConfType /\ poll[s] \in PollType
      /\ poll = [poll EXCEPT ![s] = poll[s]]
      /\ handled = [handled EXCEPT ![s] = handled[s]]
  BY TypesAt DEF Types
<1>2. conf[s].loop
  BY DEF SendInit, SendOther, PingSend, Running
<1>3. InitKnown(s) /\ (Running(Other(s)) => InitLeads(s))
  BY DEF InitInv
<1>4. \A t \in {"init", "ping", "pong", "other"}, n \in Nat \cup PongSizes :
        Message(t, n) \in MessageType /\ Message(t, n).type = t
  BY DEF Message, MessageType
<1>5. CASE SendInit(s)
  <2> DEFINE cf == [conf[s] EXCEPT !.phase = "wait"]
             msg == Message("init", 0)
  <2>1. /\ send_peer_noise(s, self[s], cf, wire[s], msg) /\ conf[s].phase = "create"
        /\ UNCHANGED <<poll, frozen, handled>>
    BY <1>5 DEF SendInit
  <2>2. /\ cf \in ConfType /\ cf.phase = "wait" /\ cf.loop = conf[s].loop
        /\ cf.cause = conf[s].cause /\ cf.waited = conf[s].waited
        /\ cf.flag_recv = conf[s].flag_recv
    BY <1>1 DEF ConfType, Phase
  <2>3. msg \in MessageType /\ msg.type = "init"
    BY <1>4
  <2> HIDE DEF cf, msg
  <2>4. InitSendAt(s, self[s], cf, wire[s], msg, poll[s], handled[s])
    BY <2>1, <2>2, <2>3, <1>1 DEF InitSendAt
  <2> QED BY <2>4, <1>2, InitSends
<1>6. CASE SendOther(s)
  <2> DEFINE cf == [conf[s] EXCEPT !.others = @ + 1]
             msg == Message("other", conf[s].others)
  <2>1. /\ send_peer_noise(s, self[s], cf, wire[s], msg) /\ conf[s].phase = "ready"
        /\ UNCHANGED <<poll, frozen, handled>>
    BY <1>6 DEF SendOther
  <2>2. /\ cf \in ConfType /\ cf.phase = conf[s].phase /\ cf.loop = conf[s].loop
        /\ cf.cause = conf[s].cause /\ cf.waited = conf[s].waited
        /\ cf.flag_recv = conf[s].flag_recv
    BY <1>1 DEF ConfType
  <2>3. msg \in MessageType /\ msg.type # "init"
    BY <1>1, <1>4 DEF ConfType
  <2>4. "INIT" \in conf[s].flag_recv /\ InitSent(s)
    BY <2>1, <1>3 DEF InitKnown, InitSent
  <2> HIDE DEF cf, msg
  <2>5. InitSendAt(s, self[s], cf, wire[s], msg, poll[s], handled[s])
    BY <2>1, <2>2, <2>3, <2>4, <1>1 DEF InitSendAt
  <2> QED BY <2>5, <1>2, InitSends
<1>7. CASE PingSend(s)
  <2> DEFINE msg == Message("ping", poll[s].size)
             cf == conf[s]
  <2>1. /\ send_peer_noise(s, self[s], cf, wire[s], msg) /\ poll[s].stage = "sending"
        /\ poll' = [poll EXCEPT ![s] = NoPing] /\ UNCHANGED <<frozen, handled>>
    BY <1>7 DEF PingSend
  <2>2. msg \in MessageType /\ msg.type # "init" /\ NoPing.stage = "idle"
    BY <1>1, <1>4 DEF PollType, NoPing
  <2>3. "INIT" \in conf[s].flag_recv /\ (Running(Other(s)) => InitSent(s))
    BY <2>1, <1>3 DEF InitKnown, InitLeads
  <2>4. /\ cf \in ConfType /\ cf.phase = conf[s].phase /\ cf.loop = conf[s].loop
        /\ cf.cause = conf[s].cause /\ cf.waited = conf[s].waited
        /\ cf.flag_recv = conf[s].flag_recv
    BY <1>1
  <2> HIDE DEF msg, cf
  <2>5. InitSendAt(s, self[s], cf, wire[s], msg, NoPing, handled[s])
    BY <2>1, <2>2, <2>3, <2>4, <1>1 DEF InitSendAt
  <2> QED BY <2>5, <1>2, InitSends
<1> QED BY <1>5, <1>6, <1>7

\* A message that is handled without an answer, or refused.
LEMMA InitTakes ==
    ASSUME SessionInv, InitInv, NEW s \in Side, Receiving(s), Decodes(s),
           NEW st, NEW cf, NEW pl, NEW hs, hs # <<>>,
           InitAt(s, st, cf, pl, sent[s], hs),
           pl.stage = poll[s].stage, cf.phase = conf[s].phase,
           cf.ping_counter = conf[s].ping_counter,
           \/ /\ wire[s][2].msg.type = "init" /\ cf.cause = conf[s].cause
              /\ cf.flag_recv = conf[s].flag_recv \cup {"INIT"}
           \/ /\ wire[s][2].msg.type # "init"
              /\ cf.flag_recv = conf[s].flag_recv /\ st.init_flag = self[s].init_flag
              /\ \/ cf.cause = conf[s].cause
                 \/ /\ cf.cause = "refused" /\ ~cf.loop
                    /\ st.init_flag # {"SEND", "RECV"}
    PROVE  InitInv'
<1> DEFINE q == Other(s)
           msg == wire[s][2].msg
<1>1. Types /\ q \in Side \ {s}
  BY SideFacts DEF SessionInv
<1>2. /\ self'[s] = st /\ conf'[s] = cf /\ poll'[s] = pl /\ sent'[s] = sent[s]
      /\ handled'[s] = hs /\ InitSent(q)' <=> InitSent(q)
      /\ conf[q].waited => conf'[q].waited
      /\ Running(s)' => Running(s)
  BY <1>1, InitAtFacts
<1>3. /\ Running(s)
      /\ msg.type = "init" => InitSent(q)
      /\ msg.type # "init" => "INIT" \in conf[s].flag_recv /\ InitSent(s)
  BY InitHandled
<1>4. InitKnown(s) /\ conf[s].cause # "refused" /\ (Running(q) => InitLeads(s))
  BY <1>3, NotRefused DEF InitInv, Running
<1>5. InitSent(s)' <=> InitSent(s)
  BY <1>2 DEF InitSent
<1>6. "INIT" \in cf.flag_recv
  BY <1>3
<1>7. cf.cause = "refused" => ~cf.loop /\ FlagLost(s)'
  BY <1>2, <1>3, <1>4, <1>5, <1>6 DEF FlagLost
<1>8. InitSent(q)
  BY <1>3, <1>4 DEF InitKnown
<1>9. InitKnown(s)'
  BY <1>2, <1>4, <1>5, <1>6, <1>7, <1>8 DEF InitKnown
<1>10. ASSUME Running(q) PROVE InitLeads(s)'
  <2>1. InitLeads(s)
    BY <1>4, <1>10
  <2>2. ASSUME ~InitSent(s)
        PROVE  /\ poll[s].stage = "idle"
               /\ conf[s].ping_counter > 0 => conf[q].waited
    <3>1. CASE "INIT" \in conf[s].flag_recv
      BY <3>1, <2>1, <2>2 DEF InitLeads
    <3>2. CASE "INIT" \notin conf[s].flag_recv
      BY <3>2, <1>4 DEF InitKnown
    <3> QED BY <3>1, <3>2
  <2> QED BY <2>1, <2>2, <1>2, <1>5, <1>6 DEF InitLeads
<1> QED BY <1>1, <1>9, <1>10, InitStep

\* The receive thread.
LEMMA InitReceive ==
    ASSUME SessionInv, InitInv, NEW s \in Side,
           recv_init(s) \/ recv_ping(s) \/ recv_pong(s) \/ RecvOther(s)
    PROVE  InitInv'
<1> DEFINE q == Other(s)
           msg == wire[s][2].msg
           hs == Append(handled[s], msg)
<1>1. /\ Types
      /\ self[s] \in SelfType /\ conf[s] \in ConfType /\ poll[s] \in PollType
      /\ poll = [poll EXCEPT ![s] = poll[s]] /\ conf = [conf EXCEPT ![s] = conf[s]]
      /\ sent = [sent EXCEPT ![s] = sent[s]]
      /\ handled[s] \in Seq(MessageType)
  BY TypesAt, TrafficTypes DEF SessionInv, Types
<1>2. ASSUME NEW type, Handing(s, type)
      PROVE  /\ Receiving(s) /\ Decodes(s) /\ msg.type = type /\ conf[s].loop
             /\ handled' = [handled EXCEPT ![s] = hs] /\ hs # <<>>
             /\ msg \in MessageType
             /\ Decoded(s) \in SelfType /\ Decoded(s).init_flag = self[s].init_flag
             /\ type # "init" => /\ handled[s] # <<>> /\ InitSent(s)
                                 /\ "INIT" \in conf[s].flag_recv
             /\ type = "init" => "RECV" \notin self[s].init_flag
  <2>1. /\ Receiving(s) /\ Decodes(s) /\ msg.type = type
        /\ handled' = [handled EXCEPT ![s] = Append(@, msg)]
    BY <1>2 DEF Handing
  <2>2. /\ Running(s) /\ msg \in MessageType
        /\ msg.type = "init" => handled[s] = <<>>
        /\ msg.type # "init" => /\ handled[s] # <<>> /\ InitSent(s)
                                /\ "INIT" \in conf[s].flag_recv
    BY <2>1, InitHandled
  <2>3. hs # <<>>
    BY <2>2, <1>1, AppendFacts
  <2>4. DOMAIN handled = Side
    BY <1>1 DEF Types
  <2>5. handled' = [handled EXCEPT ![s] = hs]
    BY <2>1, <2>4
  <2>6. Decoded(s) \in SelfType /\ Decoded(s).init_flag = self[s].init_flag
    BY <2>1, TakeFacts
  <2>7. type = "init" => "RECV" \notin self[s].init_flag
    BY <2>1, <2>2 DEF InitInv, InitKnown
  <2> QED BY <2>1, <2>2, <2>3, <2>5, <2>6, <2>7 DEF Running
<1> HIDE DEF hs
<1>3. ASSUME NEW type, Handing(s, type), type # "init", Refuse(s), ~ln_recv(s, type)
      PROVE  InitInv'
  <2> DEFINE cf == [conf[s] EXCEPT !.loop = FALSE, !.cause = "refused"]
             st == Decoded(s)
  <2>1. /\ self' = [self EXCEPT ![s] = st] /\ conf' = [conf EXCEPT ![s] = cf]
        /\ UNCHANGED <<poll, frozen, sent>>
    BY <1>3 DEF Refuse, stop_threads
  <2>2. /\ cf \in ConfType /\ cf.loop = FALSE /\ cf.cause = "refused"
        /\ cf.phase = conf[s].phase /\ cf.waited = conf[s].waited
        /\ cf.flag_recv = conf[s].flag_recv /\ cf.ping_counter = conf[s].ping_counter
    BY <1>1 DEF ConfType, Cause
  <2>3. st.init_flag = self[s].init_flag /\ st.init_flag # {"SEND", "RECV"}
    BY <1>2, <1>3 DEF ln_recv
  <2> HIDE DEF cf, st
  <2>4. InitAt(s, st, cf, poll[s], sent[s], hs)
    BY <2>1, <2>2, <1>1, <1>2, <1>3 DEF InitAt, InitSent
  <2> QED BY <2>2, <2>3, <2>4, <1>2, <1>3, InitTakes
<1>4. ASSUME NEW type, Handing(s, type), type # "init", NEW st, Accept(s, st),
             st.init_flag = self[s].init_flag,
             NEW pl, poll' = [poll EXCEPT ![s] = pl], pl.stage = poll[s].stage,
             conf' = conf
      PROVE  InitInv'
  <2>1. /\ self' = [self EXCEPT ![s] = st] /\ conf' = [conf EXCEPT ![s] = conf[s]]
        /\ UNCHANGED <<frozen, sent>>
    BY <1>1, <1>4 DEF Accept
  <2>2. InitAt(s, st, conf[s], pl, sent[s], hs)
    BY <2>1, <1>1, <1>2, <1>4 DEF InitAt, InitSent
  <2> QED BY <2>2, <1>2, <1>4, InitTakes
<1>5. CASE recv_init(s)
  <2>1. Handing(s, "init")
    BY <1>5 DEF recv_init
  <2>2. PICK flag \in InitFlags(s) :
            /\ Accept(s, [Decoded(s) EXCEPT !.init_flag = flag])
            /\ conf' = [conf EXCEPT ![s].flag_recv = @ \cup {"INIT"}]
            /\ UNCHANGED poll
    BY <2>1, <1>2, <1>5 DEF recv_init
  <2> DEFINE st == [Decoded(s) EXCEPT !.init_flag = flag]
             cf == [conf[s] EXCEPT !.flag_recv = @ \cup {"INIT"}]
  <2>3. /\ self' = [self EXCEPT ![s] = st] /\ conf' = [conf EXCEPT ![s] = cf]
        /\ UNCHANGED <<poll, frozen, sent>>
    BY <2>2 DEF Accept
  <2>4. /\ cf \in ConfType /\ cf.loop = conf[s].loop /\ cf.cause = conf[s].cause
        /\ cf.phase = conf[s].phase /\ cf.waited = conf[s].waited
        /\ cf.flag_recv = conf[s].flag_recv \cup {"INIT"}
        /\ cf.ping_counter = conf[s].ping_counter
    BY <1>1 DEF ConfType
  <2> HIDE DEF cf, st
  <2>5. InitAt(s, st, cf, poll[s], sent[s], hs)
    BY <2>1, <2>3, <2>4, <1>1, <1>2 DEF InitAt, InitSent
  <2> QED BY <2>1, <2>4, <2>5, <1>2, InitTakes
<1>6. CASE RecvOther(s)
  <2>1. Handing(s, "other")
    BY <1>6 DEF RecvOther
  <2>2. CASE ~ln_recv(s, "other")
    BY <2>1, <2>2, <1>3, <1>6 DEF RecvOther
  <2>3. CASE ln_recv(s, "other")
    <3>1. Accept(s, Decoded(s)) /\ conf' = conf /\ poll' = [poll EXCEPT ![s] = poll[s]]
      BY <2>3, <1>1, <1>6 DEF RecvOther
    <3> QED BY <2>1, <3>1, <1>2, <1>4
  <2> QED BY <2>2, <2>3
<1>7. CASE recv_pong(s)
  <2>1. Handing(s, "pong")
    BY <1>7 DEF recv_pong
  <2>2. CASE ~ln_recv(s, "pong")
    BY <2>1, <2>2, <1>3, <1>7 DEF recv_pong
  <2>3. CASE ln_recv(s, "pong")
    <3>1. TakePong(s)
      BY <2>3, <1>7 DEF recv_pong
    <3> DEFINE down == (self[s].missing_pong_cnt + 65536 - 1) % 65536
               st == [Decoded(s) EXCEPT !.missing_pong_cnt = down,
                                        !.last_num_pong_bytes = 0]
    <3>2. st.init_flag = self[s].init_flag /\ Decoded(s).init_flag = self[s].init_flag
      <4>1. Decoded(s) \in SelfType /\ Decoded(s).init_flag = self[s].init_flag
        BY <2>1, <1>2
      <4> HIDE DEF down
      <4> QED BY <4>1 DEF SelfType
    <3>3. /\ conf' = conf
          /\ Accept(s, Decoded(s)) \/ Accept(s, st)
          /\ poll' = poll \/ \E seen : poll' = [poll EXCEPT ![s].loaded = seen]
      BY <3>1 DEF TakePong
    <3> HIDE DEF st
    <3>4. CASE poll' = poll
      BY <3>2, <3>3, <3>4, <2>1, <1>1, <1>4
    <3>5. CASE \E seen : poll' = [poll EXCEPT ![s].loaded = seen]
      <4>1. PICK seen : poll' = [poll EXCEPT ![s].loaded = seen]
        BY <3>5
      <4> DEFINE pl == [poll[s] EXCEPT !.loaded = seen]
      <4>2. poll' = [poll EXCEPT ![s] = pl] /\ pl.stage = poll[s].stage
        BY <4>1, <1>1 DEF PollType
      <4> HIDE DEF pl
      <4> QED BY <4>2, <3>2, <3>3, <2>1, <1>4
    <3> QED BY <3>3, <3>4, <3>5
  <2> QED BY <2>2, <2>3
<1>8. CASE recv_ping(s)
  <2>1. Handing(s, "ping")
    BY <1>8 DEF recv_ping
  <2>2. CASE ~ln_recv(s, "ping")
    BY <2>1, <2>2, <1>3, <1>8 DEF recv_ping
  <2>3. CASE ln_recv(s, "ping")
    <3> DEFINE pong == Message("pong", msg.n)
               cf == conf[s]
               in == Rest(s)
               st == Decoded(s)
    <3>1. /\ send_peer_noise(s, st, cf, in, pong) /\ UNCHANGED <<poll, frozen>>
      BY <2>3, <1>8 DEF recv_ping
    <3>2. pong \in MessageType /\ pong.type = "pong"
      BY <2>1, <1>2 DEF MessageType, Message
    <3>3. st \in SelfType /\ st.init_flag = self[s].init_flag
      BY <2>1, <1>2
    <3>4. /\ cf \in ConfType /\ cf.loop = conf[s].loop /\ cf.cause = conf[s].cause
          /\ cf.waited = conf[s].waited /\ cf.flag_recv = conf[s].flag_recv
          /\ cf.phase = conf[s].phase
      BY <1>1
    <3>5. /\ handled' = [handled EXCEPT ![s] = hs] /\ hs # <<>> /\ handled[s] # <<>>
          /\ InitSent(s) /\ "INIT" \in conf[s].flag_recv /\ conf[s].loop
      BY <2>1, <1>2
    <3> HIDE DEF pong, cf, in, st
    <3>6. InitSendAt(s, st, cf, in, pong, poll[s], hs)
      BY <3>1, <3>2, <3>3, <3>4, <3>5, <1>1 DEF InitSendAt
    <3> QED BY <3>5, <3>6, <1>1, InitSends
  <2> QED BY <2>2, <2>3
<1> QED BY <1>5, <1>6, <1>7, <1>8

\* What an end that can still be heard has sent begins with its init, and no
\* end pings before it (exchange_init, thread_poll_start).
THEOREM InitInvariant == Spec => []InitInv
<1>1. Init => InitInv
  <2> SUFFICES ASSUME Init, NEW s \in Side PROVE InitKnown(s) /\ InitLeads(s)
    BY DEF InitInv
  <2>1. PICK dialled \in {Responder, Stranger} :
            conf = [x \in Side |-> NewConf(x, dialled)]
    BY DEF Init
  <2>2. /\ conf[s].phase = "none" /\ conf[s].flag_recv = {} /\ conf[s].cause = ""
        /\ conf[s].ping_counter = 0
    BY <2>1 DEF NewConf
  <2>3. /\ sent[s] = <<>> /\ handled[s] = <<>> /\ poll[s].stage = "idle"
        /\ self[s].init_flag = {} /\ Len(<<>>) = 0
    BY DEF Init, NewSelf, NoPing
  <2>4. ~InitSent(s)
    BY <2>2 DEF InitSent
  <2>5. \A j \in 1 .. Len(sent[s]) : FALSE
    BY <2>3
  <2>6. InitKnown(s)
    BY <2>2, <2>3, <2>4, <2>5 DEF InitKnown
  <2>7. InitLeads(s)
    <3>1. Len(sent[s]) = 0
      BY <2>3, Zenon
    <3>2. "INIT" \notin conf[s].flag_recv
      BY <2>2
    <3>3. ASSUME NEW k, k = 0 PROVE ~(k > 1)
      BY <3>3
    <3>4. ~(Len(sent[s]) > 1)
      BY <3>1, <3>3, Zenon
    <3> QED BY <3>2, <3>4, <2>3, <2>4, <2>5 DEF InitLeads
  <2> QED BY <2>6, <2>7
<1>2. SessionInv /\ SessionInv' /\ InitInv /\ [Next]_vars => InitInv'
  <2> SUFFICES ASSUME SessionInv, SessionInv', InitInv, [Next]_vars PROVE InitInv'
    OBVIOUS
  <2>1. Types /\ Types'
    BY DEF SessionInv
  <2>2. ASSUME NEW s \in Side, Handshake(s) PROVE InitInv'
    BY <2>1, <2>2, InitHandshake
  <2>3. ASSUME NEW s \in Side, Main(s) PROVE InitInv'
    BY <2>1, <2>3, InitQuiet, InitSendActions DEF Main
  <2>4. ASSUME NEW s \in Side, Ping(s) PROVE InitInv'
    BY <2>1, <2>4, InitQuiet, InitRound, InitSendActions DEF Ping
  <2>5. ASSUME NEW s \in Side, Receive(s) PROVE InitInv'
    BY <2>1, <2>5, InitQuiet, InitReceive DEF Receive
  <2>6. ASSUME NEW s \in Side, SendOther(s) \/ PeerGone(s) \/ Freeze(s) PROVE InitInv'
    BY <2>1, <2>6, InitQuiet, InitSendActions
  <2>7. CASE UNCHANGED vars
    BY <2>7 DEF vars, InitInv, InitKnown, InitLeads, InitSent, Running, FlagLost
  <2> QED BY <2>2, <2>3, <2>4, <2>5, <2>6, <2>7 DEF Next
<1> QED BY <1>1, <1>2, SessionInvariant, PTL DEF Spec

\* A message is refused only by an end that has lost one of its own flags:
\* none comes before the init of its sender (exchange_init, thread_poll_start,
\* ln_recv).
THEOREM InitAlwaysFirst == Spec => []InitFirst
<1>1. InitInv => InitFirst
  BY DEF InitInv, InitKnown, InitFirst
<1> QED BY <1>1, InitInvariant, PTL
=============================================================================
