------------------------------ MODULE Session ------------------------------
(***************************************************************************)
(* One connection between two nodes: the three acts of the noise           *)
(* handshake (ln_enc_auth.c, noise_handshake of lnapp.c), the encrypted    *)
(* frames with their nonces and key rotation, the exchange of init, and    *)
(* the ping that finds a silent peer.                                      *)
(*                                                                         *)
(* Cryptography is symbolic.  A shared secret is the set of the two keys   *)
(* it is made of; the chaining key is the sequence of the secrets mixed    *)
(* into it and the handshake hash the sequence of what was hashed; a       *)
(* ciphertext records the key, the nonce and the additional data it was    *)
(* made with, and decrypts under these only.  HKDF yields two keys of one  *)
(* input: the halves 1 and 2.                                              *)
(*                                                                         *)
(* send_peer_noise encrypts and writes under mux_send, so a frame is one   *)
(* step.  The sockets do not block: a full socket makes poll time out      *)
(* before anything is written (the frame is lost and the connection goes   *)
(* on), or write take a part, after which the loop writes the START of the *)
(* buffer again (the frame has its length and not its contents).  When     *)
(* poll times out after a part the frame is too short: the receiver then   *)
(* reads into the next frame, so this one is as good as damaged.           *)
(*                                                                         *)
(* The receive and the poll thread start before the main thread sends its  *)
(* init.  What keeps a ping from overtaking that init is time alone: see   *)
(* Overdue.                                                                *)
(***************************************************************************)
EXTENDS Integers, Sequences, FiniteSets, SequencesExt

CONSTANTS
    Initiator, Responder,   \* the two nodes
    Stranger,               \* a node_id the operator may dial by mistake
    RotateAt,               \* frames use this many nonces before the key is rotated
    M_PONG_MISSING,         \* pings that may stay unanswered
    PingPolls,              \* M_WAIT_PING_SEC / M_WAIT_POLL_SEC
    PongSizes,              \* the values of num_pong_bytes
    MaxOther,               \* bound: other messages an end sends
    MaxPing,                \* bound: pings an end sends while both run
    MaxFaults               \* bound: frames lost or damaged

\* Every frame takes two nonces: an odd RotateAt would be stepped over.
ASSUME RotateAssumption == RotateAt \in Nat \ {0} /\ RotateAt % 2 = 0
ASSUME SideAssumption == Initiator # Responder
\* An end that has heard nothing for two rounds of its poll thread pings at the
\* earliest (M_WAIT_PING_SEC / M_WAIT_POLL_SEC is 6).
ASSUME PollAssumption == PingPolls \in Nat /\ PingPolls >= 2

Side == {Initiator, Responder}
Other(s) == IF s = Initiator THEN Responder ELSE Initiator

VARIABLES
    self,       \* ln_self_t: the handshake, the ciphers, init_flag, the pongs
    conf,       \* lnapp_conf_t of the connection
    poll,       \* the poll thread inside poll_ping
    wire,       \* wire[s]: what the socket of s has to read
    frozen,     \* the ends whose process no longer runs
    faults,     \* frames lost or damaged so far
    sent,       \* sent[s]: the messages s gave to send_peer_noise
    handled,    \* handled[s]: the messages ln_recv of s was given
    used        \* used[s]: the keys and nonces s has encrypted frames with

vars == <<self, conf, poll, wire, frozen, faults, sent, handled, used>>
Ghosts == <<sent, handled, used>>

----------------------------------------------------------------------------
(* Keys.                                                                   *)

Static(n) == <<"static", n>>
Ephemeral(n) == <<"ephemeral", n>>
ECDH(a, b) == {a, b}

Encrypt(k, n, ad, plain) == [key |-> k, nonce |-> n, ad |-> ad, plain |-> plain]
Decrypts(c, k, n, ad) == c.key = k /\ c.nonce = n /\ c.ad = ad

\* The last act derives the two traffic keys from the chaining key.
TrafficKey(ck, half) == [ck |-> ck, half |-> half, rotations |-> 0]
Cipher(ck, half) == [key |-> TrafficKey(ck, half), nonce |-> 0]
NoCipher == Cipher(<<>>, 0)

----------------------------------------------------------------------------
(* The handshake.  bolt8_t: h and ck; temp_k is the other half of the      *)
(* HKDF that made ck, so ck stands for both.                               *)

NoHandshake == [state |-> "NULL", h |-> <<>>, ck |-> <<>>, re |-> <<>>]

ln_enc_auth_handshake_init(state, rs) ==
    [NoHandshake EXCEPT !.state = state, !.h = <<rs>>]

\* h = SHA256(h || pub), ck = HKDF(ck, ss)
MixKey(b, pub, ss) == [b EXCEPT !.h = Append(@, pub), !.ck = Append(@, ss)]
MixHash(b, c) == [b EXCEPT !.h = Append(@, c)]

\* The zero-length ciphertext that ends each act.
Tag(b) == Encrypt(b.ck, 0, b.h, <<>>)

\* Acts one and two: an ephemeral key and a tag.  The result is the handshake
\* afterwards and the message.
SendKeyAct(b, act, e, ss) ==
    LET m == MixKey(b, e, ss)
    IN  [ hs |-> MixHash(m, Tag(m)),
          msg |-> [kind |-> act, e |-> e, c |-> Tag(m)] ]

actone_sender(s, b, rs) ==
    SendKeyAct(b, "one", Ephemeral(s), ECDH(Ephemeral(s), rs))

acttwo_sender(s, b, re) ==
    SendKeyAct(b, "two", Ephemeral(s), ECDH(Ephemeral(s), re))

\* The receiver mixes in the ephemeral key of the message.
actone_receiver(s, b, msg) == MixKey(b, msg.e, ECDH(msg.e, Static(s)))
acttwo_receiver(s, b, msg) == MixKey(b, msg.e, ECDH(msg.e, Ephemeral(s)))

KeyActValid(b, msg) == Decrypts(msg.c, b.ck, 0, b.h)

\* Act three carries the static key of the initiator.
actthree_sender(s, b, re) ==
    LET c == Encrypt(b.ck, 1, b.h, Static(s))
        m == [MixHash(b, c) EXCEPT !.ck = Append(@, ECDH(Static(s), re))]
    IN  [hs |-> m, msg |-> [kind |-> "three", c |-> c, t |-> Tag(m)]]

actthree_receiver(s, b, msg) ==
    [MixHash(b, msg.c) EXCEPT !.ck = Append(@, ECDH(msg.c.plain, Ephemeral(s)))]

ActThreeValid(s, b, msg) ==
    /\ Decrypts(msg.c, b.ck, 1, b.h)
    /\ LET m == actthree_receiver(s, b, msg)
       IN  Decrypts(msg.t, m.ck, 0, m.h)

\* sk, rk = HKDF(ck, zero) at the initiator, rk, sk at the responder.
InitiatorCiphers(st, ck) ==
    [st EXCEPT !.p_handshake = NoHandshake,
               !.noise_send = Cipher(ck, 1), !.noise_recv = Cipher(ck, 2)]

\* A slip: the responder takes the keys in the order of the initiator.
ResponderCiphers_Same(st, ck) == InitiatorCiphers(st, ck)

ResponderCiphers(st, ck) ==
    [st EXCEPT !.p_handshake = NoHandshake,
               !.noise_recv = Cipher(ck, 1), !.noise_send = Cipher(ck, 2)]

----------------------------------------------------------------------------
(* Frames: the encrypted length, then the encrypted message.               *)

\* A slip: the nonce starts again under the same key.
noise_hkdf_NoKey(n) == [n EXCEPT !.nonce = 0]

noise_hkdf(n) == [n EXCEPT !.key.rotations = @ + 1, !.nonce = 0]

\* The second nonce of a frame ends the life of a key.
SecondNonce(n) ==
    IF n.nonce + 1 = RotateAt THEN noise_hkdf(n) ELSE [n EXCEPT !.nonce = @ + 1]

Cell(n, msg) == [kind |-> "cell", key |-> n.key, nonce |-> n.nonce, msg |-> msg]
Damaged == [kind |-> "cell", key |-> NoCipher.key, nonce |-> 0, msg |-> <<>>]

\* The cipher afterwards and the two cells; no cells when the length took the
\* last nonce ("This root shall not in").
ln_enc_auth_enc(n, msg) ==
    LET m == [n EXCEPT !.nonce = @ + 1]
    IN  IF m.nonce = RotateAt
        THEN [cipher |-> m, cells |-> <<>>]
        ELSE [cipher |-> SecondNonce(m), cells |-> <<Cell(n, msg), Cell(m, msg)>>]

\* A slip: the nonce is not part of what is authenticated.
Opens_AnyNonce(n, cell) == cell.key = n.key

Opens(n, cell) == cell.key = n.key /\ cell.nonce = n.nonce

ln_enc_auth_dec_len(n) == [n EXCEPT !.nonce = @ + 1]

\* A slip: the receiver keeps its key.
dec_msg_KeepKey(n) == [n EXCEPT !.nonce = (@ + 1) % RotateAt]

ln_enc_auth_dec_msg(n) == SecondNonce(n)

----------------------------------------------------------------------------
(* State.                                                                  *)

Phase == {"none", "act_one", "act_two", "act_three", "init", "create", "wait", "ready"}
Cause == {"", "timeout", "handshake", "decode", "refused", "pong", "gone"}

NewSelf == [ p_handshake |-> NoHandshake,
             noise_send |-> NoCipher, noise_recv |-> NoCipher,
             init_flag |-> {}, missing_pong_cnt |-> 0, last_num_pong_bytes |-> 0 ]

\* node_id: an accepted connection learns it from act three.
NewConf(s, dialled) ==
    [ loop |-> TRUE, phase |-> "none", cause |-> "",
      node_id |-> IF s = Initiator THEN dialled ELSE Stranger,
      flag_recv |-> {}, waited |-> FALSE, ping_counter |-> 0,
      pings |-> 0, others |-> 0 ]

NoPing == [stage |-> "idle", size |-> 0, loaded |-> 0]

Init ==
    /\ self = [s \in Side |-> NewSelf]
    /\ \E dialled \in {Responder, Stranger} :
            conf = [s \in Side |-> NewConf(s, dialled)]
    /\ poll = [s \in Side |-> NoPing]
    /\ wire = [s \in Side |-> <<>>]
    /\ frozen = {}
    /\ faults = 0
    /\ sent = [s \in Side |-> <<>>]
    /\ handled = [s \in Side |-> <<>>]
    /\ used = [s \in Side |-> {}]

Running(s) == conf[s].loop /\ s \notin frozen
Threads(s) == conf[s].phase \in {"init", "create", "wait", "ready"}
InitSent(s) == conf[s].phase \in {"wait", "ready"}

stop_threads(s, cause) ==
    conf' = [conf EXCEPT ![s].loop = FALSE, ![s].cause = cause]

\* The message at the head of the socket is of this kind.
Arrived(s, kind) == wire[s] # <<>> /\ Head(wire[s]).kind = kind

----------------------------------------------------------------------------
(* noise_handshake.                                                        *)

SetHandshake(s, b) == self' = [self EXCEPT ![s].p_handshake = b]
Reply(s, n, msg) == wire' = [wire EXCEPT ![s] = SubSeq(@, n + 1, Len(@)),
                                         ![Other(s)] = Append(@, msg)]

StartInitiator(s) ==
    LET rs == Static(conf[s].node_id)
        act == actone_sender(s, ln_enc_auth_handshake_init("WAIT_ACT_TWO", rs), rs)
    IN  /\ s = Initiator /\ Running(s) /\ conf[s].phase = "none"
        /\ SetHandshake(s, act.hs)
        /\ conf' = [conf EXCEPT ![s].phase = "act_two"]
        /\ Reply(s, 0, act.msg)
        /\ UNCHANGED <<poll, frozen, faults>> /\ UNCHANGED Ghosts

StartResponder(s) ==
    /\ s = Responder /\ Running(s) /\ conf[s].phase = "none"
    /\ SetHandshake(s, ln_enc_auth_handshake_init("WAIT_ACT_ONE", Static(s)))
    /\ conf' = [conf EXCEPT ![s].phase = "act_one"]
    /\ UNCHANGED <<poll, wire, frozen, faults>> /\ UNCHANGED Ghosts

\* noise_handshake returns false: LABEL_SHUTDOWN closes the socket.
FailHandshake(s, cause) ==
    /\ SetHandshake(s, NoHandshake)
    /\ stop_threads(s, cause)
    /\ UNCHANGED <<poll, wire, frozen, faults>> /\ UNCHANGED Ghosts

RecvActOne(s) ==
    LET msg == Head(wire[s])
        b == actone_receiver(s, self[s].p_handshake, msg)
        act == acttwo_sender(s, MixHash(b, msg.c), msg.e)
    IN  /\ Running(s) /\ conf[s].phase = "act_one" /\ Arrived(s, "one")
        /\ \/ /\ ~KeyActValid(b, msg)
              /\ FailHandshake(s, "handshake")
           \/ /\ KeyActValid(b, msg)
              /\ SetHandshake(s, [act.hs EXCEPT !.state = "WAIT_ACT_THREE"])
              /\ conf' = [conf EXCEPT ![s].phase = "act_three"]
              /\ Reply(s, 1, act.msg)
              /\ UNCHANGED <<poll, frozen, faults>> /\ UNCHANGED Ghosts

RecvActTwo(s) ==
    LET msg == Head(wire[s])
        b == acttwo_receiver(s, self[s].p_handshake, msg)
        act == actthree_sender(s, MixHash(b, msg.c), msg.e)
    IN  /\ Running(s) /\ conf[s].phase = "act_two" /\ Arrived(s, "two")
        /\ \/ /\ ~KeyActValid(b, msg)
              /\ FailHandshake(s, "handshake")
           \/ /\ KeyActValid(b, msg)
              /\ self' = [self EXCEPT ![s] = InitiatorCiphers(@, act.hs.ck)]
              /\ conf' = [conf EXCEPT ![s].phase = "init"]
              /\ Reply(s, 1, act.msg)
              /\ UNCHANGED <<poll, frozen, faults>> /\ UNCHANGED Ghosts

RecvActThree(s) ==
    LET msg == Head(wire[s])
        b == self[s].p_handshake
    IN  /\ Running(s) /\ conf[s].phase = "act_three" /\ Arrived(s, "three")
        /\ \/ /\ ~ActThreeValid(s, b, msg)
              /\ FailHandshake(s, "handshake")
           \/ /\ ActThreeValid(s, b, msg)
              /\ self' = [self EXCEPT ![s] =
                            ResponderCiphers(@, actthree_receiver(s, b, msg).ck)]
              /\ conf' = [conf EXCEPT ![s].phase = "init",
                                      ![s].node_id = msg.c.plain[2]]
              /\ wire' = [wire EXCEPT ![s] = Tail(@)]
              /\ UNCHANGED <<poll, frozen, faults>> /\ UNCHANGED Ghosts

\* recv_peer gives up after M_WAIT_RESPONSE_MSEC, or the peer has closed.
HandshakeTimeout(s) ==
    /\ Running(s) /\ wire[s] = <<>>
    /\ conf[s].phase \in {"act_one", "act_two", "act_three"}
    /\ FailHandshake(s, "timeout")

----------------------------------------------------------------------------
(* send_peer_noise.                                                        *)

Fate == {"written", "lost", "damaged"}

Written(cells, fate) ==
    CASE fate = "written" -> cells
      [] fate = "lost" -> <<>>
      [] fate = "damaged" -> [i \in DOMAIN cells |-> Damaged]

\* st, cf, in: the other effects of the action on self, conf and wire of s.
send_peer_noise(s, st, cf, in, msg) ==
    LET frame == ln_enc_auth_enc(st.noise_send, msg)
    IN  \E fate \in Fate :
            /\ faults' = IF fate = "written" THEN faults ELSE faults + 1
            /\ faults' <= MaxFaults
            /\ self' = [self EXCEPT ![s] = [st EXCEPT !.noise_send = frame.cipher]]
            /\ conf' = [conf EXCEPT ![s] = [cf EXCEPT !.ping_counter = 0]]
            /\ wire' = [wire EXCEPT ![s] = in,
                                    ![Other(s)] = @ \o Written(frame.cells, fate)]
            /\ sent' = [sent EXCEPT ![s] = Append(@, msg)]
            /\ used' = [used EXCEPT ![s] = @ \cup
                        {<<frame.cells[i].key, frame.cells[i].nonce>> :
                            i \in DOMAIN frame.cells}]

Message(type, n) == [type |-> type, n |-> n]

----------------------------------------------------------------------------
(* The main thread: exchange_init, then whatever the channel has to say.   *)

InitCreate(s) ==
    /\ Running(s) /\ conf[s].phase = "init"
    /\ self' = [self EXCEPT ![s].init_flag = @ \cup {"SEND"}]
    /\ conf' = [conf EXCEPT ![s].phase = "create"]
    /\ UNCHANGED <<poll, wire, frozen, faults>> /\ UNCHANGED Ghosts

SendInit(s) ==
    /\ Running(s) /\ conf[s].phase = "create"
    /\ send_peer_noise(s, self[s], [conf[s] EXCEPT !.phase = "wait"],
                       wire[s], Message("init", 0))
    /\ UNCHANGED <<poll, frozen, handled>>

\* The wait of exchange_init.
Waiting(s) ==
    /\ Running(s) /\ conf[s].phase = "wait"
    /\ "INIT" \notin conf[s].flag_recv

exchange_init(s) ==
    /\ Running(s) /\ conf[s].phase = "wait"
    /\ "INIT" \in conf[s].flag_recv
    /\ conf' = [conf EXCEPT ![s].phase = "ready"]
    /\ UNCHANGED <<self, poll, wire, frozen, faults>> /\ UNCHANGED Ghosts

\* A slip: only a closed connection ends the wait for init.
InitTimeout_Closed(s) ==
    /\ Waiting(s) /\ wire[s] = <<>>
    /\ ~conf[Other(s)].loop
    /\ stop_threads(s, "timeout")
    /\ UNCHANGED <<self, poll, wire, frozen, faults>> /\ UNCHANGED Ghosts

InitTimeout(s) ==
    /\ Waiting(s) /\ wire[s] = <<>>
    /\ stop_threads(s, "timeout")
    /\ UNCHANGED <<self, poll, wire, frozen, faults>> /\ UNCHANGED Ghosts

SendOther(s) ==
    /\ Running(s) /\ conf[s].phase = "ready"
    /\ conf[s].others < MaxOther[s]
    /\ send_peer_noise(s, self[s], [conf[s] EXCEPT !.others = @ + 1],
                       wire[s], Message("other", conf[s].others))
    /\ UNCHANGED <<poll, frozen, handled>>

----------------------------------------------------------------------------
(* The poll thread: poll_ping.  It does not hold mux_self, so a pong may   *)
(* be received while missing_pong_cnt is being counted up.                 *)

\* The rounds of a poll thread are M_WAIT_POLL_SEC apart, and the wait for init
\* takes no longer (M_WAIT_RESPONSE_MSEC).  A wait that the poll thread of the
\* other end has seen in one round is over before the next.
Overdue(s) == Waiting(s) /\ conf[s].waited

\* A slip: the poll thread does not wait for the init of the peer.
Polling_NoInit(s) ==
    /\ Running(s) /\ Threads(s)
    /\ poll[s].stage = "idle"
    /\ conf[s].pings < MaxPing[s] \/ frozen # {}
    /\ ~Overdue(Other(s))

\* thread_poll_start looks at RECV_MSG_INIT alone: it does not ask whether the
\* main thread has sent its own init.
Polling(s) ==
    /\ Running(s) /\ Threads(s)
    /\ "INIT" \in conf[s].flag_recv
    /\ poll[s].stage = "idle"
    /\ conf[s].pings < MaxPing[s] \/ frozen # {}
    /\ ~Overdue(Other(s))

\* One round: cf is what it leaves of conf[s].
Round(s, cf) ==
    conf' = [conf EXCEPT ![s] = cf,
                         ![Other(s)].waited = @ \/ Waiting(Other(s))]

PollQuiet(s) ==
    /\ Polling(s)
    /\ conf[s].ping_counter + 1 < PingPolls
    /\ Round(s, [conf[s] EXCEPT !.ping_counter = @ + 1])
    /\ UNCHANGED <<self, poll, wire, frozen, faults>> /\ UNCHANGED Ghosts

PingCreate(s) ==
    /\ Polling(s)
    /\ conf[s].ping_counter + 1 >= PingPolls
    /\ \E size \in PongSizes :
            /\ self' = [self EXCEPT ![s].last_num_pong_bytes = size]
            /\ poll' = [poll EXCEPT ![s] =
                            [ stage |-> "counting", size |-> size,
                              loaded |-> self[s].missing_pong_cnt ]]
    /\ Round(s, [conf[s] EXCEPT !.ping_counter = PingPolls,
                                !.pings = IF frozen = {} THEN @ + 1 ELSE @])
    /\ UNCHANGED <<wire, frozen, faults>> /\ UNCHANGED Ghosts

\* missing_pong_cnt is a uint16_t.
CountMissing(cnt) == (cnt + 1) % 65536

PingCount(s) ==
    LET cnt == CountMissing(poll[s].loaded)
    IN  /\ Running(s) /\ poll[s].stage = "counting"
        /\ self' = [self EXCEPT ![s].missing_pong_cnt = cnt]
        /\ IF cnt > M_PONG_MISSING
           THEN /\ stop_threads(s, "pong")
                /\ poll' = [poll EXCEPT ![s] = NoPing]
           ELSE /\ poll' = [poll EXCEPT ![s].stage = "sending"]
                /\ UNCHANGED conf
        /\ UNCHANGED <<wire, frozen, faults>> /\ UNCHANGED Ghosts

PingSend(s) ==
    /\ Running(s) /\ poll[s].stage = "sending"
    /\ send_peer_noise(s, self[s], conf[s], wire[s],
                       Message("ping", poll[s].size))
    /\ poll' = [poll EXCEPT ![s] = NoPing]
    /\ UNCHANGED <<frozen, handled>>

----------------------------------------------------------------------------
(* The receive thread.                                                     *)

Receiving(s) ==
    /\ Running(s) /\ Threads(s)
    /\ Arrived(s, "cell")

Rest(s) == SubSeq(wire[s], 3, Len(wire[s]))

\* Both cells open: the message and the cipher after it.
Decodes(s) ==
    LET n == self[s].noise_recv
    IN  /\ Opens(n, wire[s][1])
        /\ Opens(ln_enc_auth_dec_len(n), wire[s][2])

Decoded(s) == [self[s] EXCEPT !.noise_recv =
                    ln_enc_auth_dec_msg(ln_enc_auth_dec_len(@))]

RecvUndecodable(s) ==
    /\ Receiving(s) /\ ~Decodes(s)
    /\ stop_threads(s, "decode")
    /\ wire' = [wire EXCEPT ![s] = Rest(s)]
    /\ UNCHANGED <<self, poll, frozen, faults>> /\ UNCHANGED Ghosts

Handing(s, type) ==
    /\ Receiving(s) /\ Decodes(s)
    /\ wire[s][2].msg.type = type
    /\ handled' = [handled EXCEPT ![s] = Append(@, wire[s][2].msg)]

\* ln_recv takes nothing but init before both inits are through.
ln_recv(s, type) == type = "init" \/ self[s].init_flag = {"SEND", "RECV"}

\* The handler fails: the channel is closed by force (module Channel).
Refuse(s) ==
    /\ self' = [self EXCEPT ![s] = Decoded(s)]
    /\ stop_threads(s, "refused")
    /\ wire' = [wire EXCEPT ![s] = Rest(s)]
    /\ UNCHANGED <<poll, frozen, faults, sent, used>>

Accept(s, st) ==
    /\ self' = [self EXCEPT ![s] = st]
    /\ wire' = [wire EXCEPT ![s] = Rest(s)]
    /\ UNCHANGED <<frozen, faults, sent, used>>

\* ln_init_create sets its flag without mux_self: while it does, either of the
\* two flags may be lost.
InitFlags(s) ==
    LET both == self[s].init_flag \cup {"RECV"}
    IN  IF conf[s].phase = "create" THEN {both, {"SEND"}, {"RECV"}} ELSE {both}

recv_init(s) ==
    /\ Handing(s, "init")
    /\ IF "RECV" \in self[s].init_flag
       THEN Refuse(s)
       ELSE \E flag \in InitFlags(s) :
            /\ Accept(s, [Decoded(s) EXCEPT !.init_flag = flag])
            /\ conf' = [conf EXCEPT ![s].flag_recv = @ \cup {"INIT"}]
            /\ UNCHANGED poll

recv_ping(s) ==
    /\ Handing(s, "ping")
    /\ IF ~ln_recv(s, "ping")
       THEN Refuse(s)
       ELSE /\ send_peer_noise(s, Decoded(s), conf[s], Rest(s),
                               Message("pong", wire[s][2].msg.n))
            /\ UNCHANGED <<poll, frozen>>

PongMatches(s) == wire[s][2].msg.n = self[s].last_num_pong_bytes

\* While the poll thread is between the load and the store of the counter,
\* what it stores may be made of a value before, after or in spite of this
\* decrement.
TakePong(s) ==
    LET cnt == self[s].missing_pong_cnt
        down(k) == (cnt + 65536 - k) % 65536
    IN  /\ \/ /\ ~PongMatches(s)
              /\ Accept(s, Decoded(s))
              /\ UNCHANGED poll
           \/ /\ PongMatches(s)
              /\ Accept(s, [Decoded(s) EXCEPT !.missing_pong_cnt = down(1),
                                              !.last_num_pong_bytes = 0])
              /\ IF poll[s].stage = "counting"
                 THEN \E seen \in {cnt, down(1), down(2)} :
                        poll' = [poll EXCEPT ![s].loaded = seen]
                 ELSE UNCHANGED poll
        /\ UNCHANGED conf

recv_pong(s) ==
    /\ Handing(s, "pong")
    /\ IF ln_recv(s, "pong") THEN TakePong(s) ELSE Refuse(s)

RecvOther(s) ==
    /\ Handing(s, "other")
    /\ IF ~ln_recv(s, "other")
       THEN Refuse(s)
       ELSE /\ Accept(s, Decoded(s))
            /\ UNCHANGED <<conf, poll>>

Receive(s) ==
    \/ RecvUndecodable(s) \/ recv_init(s)
    \/ recv_ping(s) \/ recv_pong(s) \/ RecvOther(s)

----------------------------------------------------------------------------
(* The environment.                                                        *)

\* The peer closed its socket: recv_peer returns 0 once all is read.
PeerGone(s) ==
    /\ Running(s) /\ Threads(s)
    /\ ~conf[Other(s)].loop
    /\ wire[s] = <<>>
    /\ stop_threads(s, "gone")
    /\ UNCHANGED <<self, poll, wire, frozen, faults>> /\ UNCHANGED Ghosts

\* A process hangs with its sockets open.  MaxPing no longer counts.
Freeze(s) ==
    /\ frozen = {}
    /\ conf[s].loop
    /\ frozen' = {s}
    /\ UNCHANGED <<self, conf, poll, wire, faults>> /\ UNCHANGED Ghosts

Handshake(s) ==
    \/ StartInitiator(s) \/ StartResponder(s)
    \/ RecvActOne(s) \/ RecvActTwo(s) \/ RecvActThree(s) \/ HandshakeTimeout(s)

Main(s) == InitCreate(s) \/ SendInit(s) \/ exchange_init(s) \/ InitTimeout(s)
Ping(s) == PollQuiet(s) \/ PingCreate(s) \/ PingCount(s) \/ PingSend(s)

Next ==
    \E s \in Side :
        \/ Handshake(s) \/ Main(s) \/ Ping(s) \/ Receive(s)
        \/ SendOther(s) \/ PeerGone(s) \/ Freeze(s)

Spec == Init /\ [][Next]_vars

\* Every thread of a process that runs goes on: the handshake and the waits
\* time out, the poll thread wakes, the receive thread reads.
FairSpec ==
    /\ Spec
    /\ \A s \in Side : /\ WF_vars(Handshake(s)) /\ WF_vars(Main(s))
                       /\ WF_vars(Ping(s)) /\ WF_vars(Receive(s))
                       /\ WF_vars(PeerGone(s))

----------------------------------------------------------------------------
(* Properties.                                                             *)

NodeId == {Initiator, Responder, Stranger}

\* Types: the nonces stay below the rotation bound, the counter of missing
\* pongs in its sixteen bits.
TypeOK ==
    /\ \A s \in Side :
        /\ self[s].init_flag \subseteq {"SEND", "RECV"}
        /\ self[s].p_handshake.state \in
                {"NULL", "WAIT_ACT_ONE", "WAIT_ACT_TWO", "WAIT_ACT_THREE"}
        /\ self[s].noise_send.nonce \in 0 .. RotateAt - 1
        /\ self[s].noise_recv.nonce \in 0 .. RotateAt - 1
        /\ self[s].missing_pong_cnt \in 0 .. 65535
        /\ self[s].last_num_pong_bytes \in PongSizes \cup {0}
        /\ conf[s].loop \in BOOLEAN
        /\ conf[s].phase \in Phase /\ conf[s].cause \in Cause
        /\ conf[s].node_id \in NodeId
        /\ conf[s].flag_recv \subseteq {"INIT"}
        /\ conf[s].ping_counter \in 0 .. PingPolls
        /\ poll[s].stage \in {"idle", "counting", "sending"}
    /\ frozen \subseteq Side
    /\ faults \in 0 .. MaxFaults

\* An end that leaves the handshake knows whom it talks to, and when both have
\* left it each one's sending key descends from what the other receives with
\* (noise_handshake, the three acts): dialling another node's id fails.
Authenticated ==
    /\ \A s \in Side : Threads(s) => conf[s].node_id = Other(s)
    /\ (\A s \in Side : Threads(s)) =>
            \A s \in Side :
                LET k == self[s].noise_send.key
                    r == self[Other(s)].noise_recv.key
                IN  k.ck = r.ck /\ k.half = r.half

\* ln_recv is given what the peer sent, in order and without a gap, though
\* frames may be lost or damaged and several threads send (send_peer_noise,
\* ln_enc_auth_dec_msg).
InOrder == \A s \in Side : IsPrefix(handled[s], sent[Other(s)])

\* No key encrypts twice with one nonce, across any number of rotations
\* (ln_enc_auth_enc): each frame takes two pairs never used before, and the two
\* directions share no key.
NonceOnce ==
    /\ \A s \in Side : Cardinality(used[s]) = 2 * Len(sent[s])
    /\ used[Initiator] \cap used[Responder] = {}

\* The two ends rotate their keys at the same frame: as long as no frame was
\* lost or damaged none fails to decode.
RotatesTogether == \A s \in Side : conf[s].cause = "decode" => faults > 0

\* The two threads of s that set init_flag have overwritten one another.
FlagLost(s) ==
    /\ InitSent(s) /\ "INIT" \in conf[s].flag_recv
    /\ self[s].init_flag # {"SEND", "RECV"}

\* No message comes before the init of its sender, though its main thread sends
\* that while the poll thread already runs (thread_poll_start, exchange_init):
\* an end refuses a message, and closes the channel by force, only when it has
\* lost one of its own flags.
InitFirst == \A s \in Side : conf[s].cause = "refused" => FlagLost(s)

\* A peer that hangs with its socket open is noticed and the connection is
\* stopped, in the handshake, in the exchange of init or by missing pongs, once
\* the node itself has nothing more to send (ln_ping_create, poll_ping).
DeadPeerNoticed ==
    \A s \in Side : (Other(s) \in frozen) ~> ~conf[s].loop

=============================================================================
