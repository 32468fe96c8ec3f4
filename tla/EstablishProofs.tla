-------------------------- MODULE EstablishProofs --------------------------
(***************************************************************************)
(* Opening a channel, for every value of the constants of module           *)
(* Establish: any depths, amounts and pushes, any number of requests, lost *)
(* connections, refusals and processes that die.                           *)
(*                                                                         *)
(* The argument.  Within a connection an end is the funder or the fundee   *)
(* of one request, and the request has one message on its way (Once),      *)
(* which says how far each end has come (Fits).  An end keeps a channel    *)
(* only at the end of this exchange, and what it keeps never changes       *)
(* again except for its state and the announcement (Holds).  The number of *)
(* the request names the channel from then on: two ends that hold the same *)
(* number are its funder and its fundee and have the same terms (Pair).    *)
(***************************************************************************)
EXTENDS Establish, SequenceTheorems, TLAPS

----------------------------------------------------------------------------
(* The inductive invariant.                                                *)

Message ==
    [type : {"open_channel"}, push : 0 .. FundingSat, id : ChannelId]
      \cup [type : {"accept_channel"}, id : ChannelId, min_depth : Nat]
      \cup [type : {"funding_created"}, id : ChannelId, txid : 0 .. MaxOpens,
            signature : Seq(Nat)]
      \cup [type : {"funding_signed"}, id : ChannelId, signature : Seq(Nat)]
      \cup [type : {"error"}]
      \cup [type : {"funding_locked"}, id : ChannelId, pt : {0, 1}]
      \cup [type : {"channel_reestablish", "announcement_signatures"}, id : ChannelId]

Types ==
    /\ TypeOK
    /\ net \in [Peer -> Seq(Message)]
    /\ count \in [opens : 0 .. MaxOpens, drops : Nat, crashes : Nat, rejects : Nat]

\* The request an end takes part in, 0 if none, and its part in it.
Request(p) == self[p].channel_id[2]
IsFunder(p) == "FUNDER" \in self[p].fund_flag

\* An end that holds no channel: it has asked for one or been asked for one
\* in this connection, or nothing has happened.
Asks(p) ==
    /\ db[p] = NewSelf
    /\ self[p].status = "NONE" /\ ~self[p].short_channel_id /\ self[p].anno_flag = {}
    /\ self[p].local_pt = 0 /\ self[p].remote_pt = 0
    /\ ~conf[p].funding_waiting /\ ~conf[p].annosigns
    /\ conf[p].main = "loop" /\ conf[p].poll # "locked"
    /\ Running(p) => conf[p].poll = "idle"
    /\ \/ self[p].channel_id = <<"none", 0>> /\ self[p].txid = 0 /\ self[p].fund_flag = {}
       \/ /\ self[p].channel_id = <<"temp", Request(p)>> /\ Request(p) \in 1 .. count.opens
          /\ Running(p) => "FUNDING" \in self[p].fund_flag
          /\ IsFunder(p) => /\ self[p].txid \in {0, Request(p)}
                            /\ self[p].txid # 0 => self[p].min_depth = MinDepth[Other(p)]
                            /\ conf[p].poll = "idle" => chain[Request(p)] = -1
          /\ ~IsFunder(p) => self[p].txid = 0 /\ self[p].min_depth = MinDepth[p]

\* Memory and database hold the same channel.
Stored(p) ==
    /\ self[p].channel_id = db[p].channel_id /\ self[p].txid = db[p].txid
    /\ self[p].status = db[p].status
    /\ self[p].short_channel_id = db[p].short_channel_id
    /\ self[p].our = db[p].our /\ self[p].their = db[p].their
    /\ self[p].min_depth = db[p].min_depth
    /\ self[p].local_pt = db[p].local_pt
    /\ self[p].signature = db[p].signature
    /\ self[p].anno_flag = db[p].anno_flag
    /\ IsFunder(p) <=> "FUNDER" \in db[p].fund_flag
    /\ self[p].status # "NORMAL" => self[p].fund_flag = db[p].fund_flag

\* An end that holds a channel: what it is made of,
Holds(p) ==
    /\ self[p].status # "NONE" /\ Request(p) \in 1 .. count.opens
    /\ self[p].channel_id = <<"funding", Request(p)>> /\ self[p].txid = Request(p)
    /\ self[p].local_pt = 1
    /\ self[p].signature = <<Request(p), 0, self[p].our, self[p].their>>
    /\ self[p].min_depth = MinDepth[IF IsFunder(p) THEN Other(p) ELSE p]
    /\ IsFunder(p) => chain[Request(p)] >= 0
    /\ self[p].fund_flag \cap {"FUNDING", "OPENED"} # {}

\* and what its threads go by.
Waits(p) ==
    /\ self[p].status = "NORMAL" => self[p].short_channel_id
    /\ conf[p].poll = "locked" => self[p].status = "NORMAL"
    /\ conf[p].main = "locked" => self[p].short_channel_id
    /\ self[p].short_channel_id \/ conf[p].annosigns => chain[Request(p)] >= self[p].min_depth

Keeps(p) ==
    /\ ~Saved(p) => Asks(p)
    /\ Saved(p) => Stored(p) /\ Holds(p) /\ Waits(p)

\* What the two ends know of each other.
Pair(p) ==
    /\ Request(p) = Request(Other(p)) /\ Request(p) # 0 =>
          /\ IsFunder(p) <=> ~IsFunder(Other(p))
          /\ self[p].our = self[Other(p)].their
    /\ Saved(p) /\ "FUNDING" \notin self[p].fund_flag /\ ~self[p].short_channel_id
          => Saved(Other(p))
    /\ "RECV" \in self[p].anno_flag => "SEND" \in self[Other(p)].anno_flag
    /\ "END" \in self[p].anno_flag => {"SEND", "RECV"} \subseteq self[p].anno_flag

\* The messages of the exchange, and the error that ends it.
IsStep(m) ==
    m.type \in {"open_channel", "accept_channel", "funding_created", "funding_signed", "error"}

\* What a message on its way to p says of the two ends.
FitsStep(p, m) ==
    LET q == Other(p) IN
    /\ m.type = "open_channel" =>
          /\ ~Saved(q) /\ IsFunder(q) /\ self[q].txid = 0
          /\ m.id = self[q].channel_id /\ Request(p) # Request(q) /\ Request(q) # 0
          /\ self[q].our = FundingSat - m.push /\ self[q].their = m.push
    /\ m.type \in {"accept_channel", "funding_created"} =>
          /\ ~Saved(p) /\ ~Saved(q) /\ (IsFunder(p) <=> ~IsFunder(q))
          /\ m.id = self[p].channel_id /\ Request(p) = Request(q) /\ Request(p) # 0
    /\ m.type = "accept_channel" =>
          IsFunder(p) /\ self[p].txid = 0 /\ m.min_depth = MinDepth[q]
    /\ m.type = "funding_created" =>
          IsFunder(q) /\ self[q].txid = Request(q) /\ m.txid = Request(q)
    /\ m.type = "funding_signed" =>
          /\ ~Saved(p) /\ IsFunder(p) /\ self[p].txid # 0
          /\ \/ Saved(q) /\ Request(q) = Request(p)
             \/ ~Running(q) /\ count.crashes > 0
    /\ m.type = "error" => ~Saved(p) /\ IsFunder(p) /\ ~Running(q)

FitsHeld(p, m) ==
    LET q == Other(p) IN
    /\ m.type \in {"funding_locked", "channel_reestablish", "announcement_signatures"} =>
          Saved(q) /\ m.id = self[q].channel_id
    /\ m.type = "announcement_signatures" =>
          "SEND" \in self[q].anno_flag /\ chain[Request(q)] >= self[q].min_depth

\* Only one of them is a step of the exchange.
Once(s) == \A i, j \in DOMAIN s : IsStep(s[i]) /\ IsStep(s[j]) => i = j

Stream(p) ==
    /\ net[p] # <<>> => Running(p)
    /\ Once(net[p])
    /\ \A i \in DOMAIN net[p] : FitsStep(p, net[p][i]) /\ FitsHeld(p, net[p][i])

\* A transaction is known only after it was asked for.
Chain == \A t \in Txid : t > count.opens => chain[t] = -1

\* As long as no process dies, a channel whose transaction is out is held by
\* its funder, the fundee holds it too, and no end closes it.
Clean ==
    count.crashes = 0 =>
        /\ \A p \in Peer : Saved(p) /\ IsFunder(p) =>
              Saved(Other(p)) /\ Request(Other(p)) = Request(p)
        /\ \A t \in Txid : chain[t] >= 0 =>
              \E p \in Peer : Saved(p) /\ IsFunder(p) /\ Request(p) = t
        /\ forced = {}

OpenInv ==
    /\ Types /\ Chain /\ Clean
    /\ \A p \in Peer : Keeps(p) /\ Pair(p) /\ Stream(p)

----------------------------------------------------------------------------
(* The two ends.                                                           *)

LEMMA PeerFacts ==
    ASSUME NEW p \in Peer
    PROVE  /\ Other(p) \in Peer /\ Other(p) # p /\ Other(Other(p)) = p
           /\ \A r \in Peer : r = p \/ r = Other(p)
<1>1. PICK a \in Peer, b \in Peer : a # b /\ Peer = {a, b}
  BY EstPeerAssumption
<1>2. Other(a) = b /\ Other(b) = a
  BY <1>1 DEF Other
<1>3. p = a \/ p = b
  BY <1>1
<1> QED BY <1>1, <1>2, <1>3

\* What holds of both ends.
LEMMA BothEnds ==
    ASSUME OpenInv, NEW p \in Peer
    PROVE  /\ Types /\ Chain /\ Clean
           /\ Keeps(p) /\ Pair(p) /\ Stream(p)
           /\ Keeps(Other(p)) /\ Pair(Other(p)) /\ Stream(Other(p))
BY PeerFacts DEF OpenInv

LEMMA FromEnds ==
    ASSUME NEW p \in Peer, Types', Chain', Clean',
           Keeps(p)', Pair(p)', Stream(p)',
           Keeps(Other(p))', Pair(Other(p))', Stream(Other(p))'
    PROVE  OpenInv'
<1>1. \A r \in Peer : r = p \/ r = Other(p)
  BY PeerFacts
<1>2. ASSUME NEW r \in Peer PROVE Keeps(r)' /\ Pair(r)' /\ Stream(r)'
  <2>1. CASE r = p
    BY <2>1
  <2>2. CASE r = Other(p)
    BY <2>2
  <2> QED BY <1>1, <2>1, <2>2
<1> QED BY <1>2 DEF OpenInv

\* The types, one by one.
LEMMA TypeFacts ==
    ASSUME Types, NEW p \in Peer
    PROVE  /\ self[p] \in SelfType /\ db[p] \in SelfType /\ conf[p] \in ConfType
           /\ net[p] \in Seq(Message)
           /\ count.opens \in 0 .. MaxOpens /\ count.crashes \in Nat
           /\ count.drops \in Nat /\ count.rejects \in Nat
           /\ self[p].channel_id \in ChannelId /\ Request(p) \in 0 .. MaxOpens
           /\ self[p].txid \in 0 .. MaxOpens
           /\ self[p].min_depth \in Nat
           /\ self[p].fund_flag \subseteq {"FUNDER", "ANNO_CH", "FUNDING", "OPENED"}
           /\ self[p].anno_flag \subseteq {"SEND", "RECV", "END"}
           /\ self[p].our \in 0 .. FundingSat /\ self[p].their \in 0 .. FundingSat
           /\ \A t \in Txid : chain[t] \in -1 .. MaxDepth
<1>1. self[p] \in SelfType /\ db[p] \in SelfType /\ conf[p] \in ConfType /\ net[p] \in Seq(Message)
  BY DEF Types, TypeOK
<1>2. /\ self[p].channel_id \in ChannelId /\ self[p].txid \in 0 .. MaxOpens
      /\ self[p].min_depth \in Nat
      /\ self[p].fund_flag \subseteq {"FUNDER", "ANNO_CH", "FUNDING", "OPENED"}
      /\ self[p].anno_flag \subseteq {"SEND", "RECV", "END"}
      /\ self[p].our \in 0 .. FundingSat /\ self[p].their \in 0 .. FundingSat
  BY <1>1 DEF SelfType
<1>3. Request(p) \in 0 .. MaxOpens
  BY <1>2 DEF Request, ChannelId
<1> QED BY <1>1, <1>2, <1>3 DEF Types, TypeOK

\* The requests so far are transactions.
LEMMA Asked ==
    ASSUME Types
    PROVE  /\ count.opens \in Nat /\ count.opens =< MaxOpens /\ MaxOpens \in Nat
           /\ \A n : n \in 1 .. count.opens => n \in Txid
<1>1. count.opens \in 0 .. MaxOpens /\ MaxOpens \in Nat
  BY EstBoundAssumption DEF Types
<1> QED BY <1>1 DEF Txid

----------------------------------------------------------------------------
(* The messages on their way.                                              *)

\* The first message is read.
LEMMA TailFacts ==
    ASSUME NEW S, NEW s \in Seq(S), s # <<>>
    PROVE  /\ Tail(s) \in Seq(S) /\ 1 \in DOMAIN s /\ Head(s) = s[1]
           /\ \A i \in DOMAIN Tail(s) :
                 i \in Nat /\ i + 1 \in DOMAIN s /\ Tail(s)[i] = s[i + 1] /\ i + 1 # 1
OBVIOUS

LEMMA OnceTail ==
    ASSUME NEW S, NEW s \in Seq(S), s # <<>>, Once(s)
    PROVE  /\ Once(Tail(s))
           /\ IsStep(Head(s)) => \A i \in DOMAIN Tail(s) : ~IsStep(Tail(s)[i])
<1>1. /\ 1 \in DOMAIN s /\ Head(s) = s[1]
      /\ \A i \in DOMAIN Tail(s) :
            i \in Nat /\ i + 1 \in DOMAIN s /\ Tail(s)[i] = s[i + 1] /\ i + 1 # 1
  BY TailFacts
<1>2. Once(Tail(s))
  <2> SUFFICES ASSUME NEW i \in DOMAIN Tail(s), NEW j \in DOMAIN Tail(s),
                      IsStep(Tail(s)[i]), IsStep(Tail(s)[j])
               PROVE  i = j
    BY DEF Once
  <2>1. i + 1 \in DOMAIN s /\ j + 1 \in DOMAIN s /\ IsStep(s[i + 1]) /\ IsStep(s[j + 1])
    BY <1>1
  <2>2. i + 1 = j + 1
    BY <2>1 DEF Once
  <2> QED BY <2>2, <1>1
<1>3. ASSUME IsStep(Head(s)), NEW i \in DOMAIN Tail(s), IsStep(Tail(s)[i]) PROVE FALSE
  <2>1. i + 1 \in DOMAIN s /\ IsStep(s[i + 1]) /\ IsStep(s[1]) /\ i + 1 # 1 /\ 1 \in DOMAIN s
    BY <1>1, <1>3
  <2> QED BY <2>1 DEF Once
<1> QED BY <1>2, <1>3

\* One is sent.
LEMMA AppendFacts ==
    ASSUME NEW S, NEW s \in Seq(S), NEW m \in S
    PROVE  /\ s \o <<m>> \in Seq(S)
           /\ \A i \in DOMAIN (s \o <<m>>) :
                 \/ i \in DOMAIN s /\ (s \o <<m>>)[i] = s[i]
                 \/ i = Len(s) + 1 /\ (s \o <<m>>)[i] = m
OBVIOUS

LEMMA OnceAppend ==
    ASSUME NEW S, NEW s \in Seq(S), NEW m \in S, Once(s),
           IsStep(m) => \A i \in DOMAIN s : ~IsStep(s[i])
    PROVE  Once(s \o <<m>>)
<1>0. PICK u : u = s \o <<m>>
  OBVIOUS
<1>1. \A i \in DOMAIN u : \/ i \in DOMAIN s /\ u[i] = s[i]
                          \/ i = Len(s) + 1 /\ u[i] = m
  BY <1>0, AppendFacts
<1>2. Once(u)
  BY <1>1 DEF Once
<1> QED BY <1>0, <1>2

----------------------------------------------------------------------------
(* What a step leaves alone.                                               *)

\* An end is where it was in the exchange, with the same channel.
Alike(p) ==
    /\ Saved(p)' <=> Saved(p)
    /\ self'[p].channel_id = self[p].channel_id /\ self'[p].txid = self[p].txid
    /\ self'[p].our = self[p].our /\ self'[p].their = self[p].their
    /\ self'[p].min_depth = self[p].min_depth
    /\ IsFunder(p)' <=> IsFunder(p)
    /\ "SEND" \in self[p].anno_flag => "SEND" \in self'[p].anno_flag
    /\ Running(p)' => Running(p)

\* Transactions get deeper, requests and crashes more.
Later ==
    /\ \A t \in Txid : chain'[t] >= chain[t]
    /\ count'.opens >= count.opens /\ count'.crashes >= count.crashes

\* A message still fits.
LEMMA FitsAlike ==
    ASSUME Types, Types', NEW p \in Peer, Keeps(Other(p)), Alike(p), Alike(Other(p)), Later,
           NEW m, FitsStep(p, m), FitsHeld(p, m)
    PROVE  FitsStep(p, m)' /\ FitsHeld(p, m)'
<1>1. Other(p) \in Peer
  BY PeerFacts
<1>2. PICK q \in Peer : q = Other(p)
  BY <1>1
<1>3. Request(p)' = Request(p) /\ Request(q)' = Request(q)
  BY <1>2 DEF Alike, Request
<1>4. count.crashes \in Nat /\ count'.crashes \in Nat /\ count'.crashes >= count.crashes
  BY DEF Types, Later
<1>5. count.crashes > 0 => count'.crashes > 0
  BY <1>4
<1>6. FitsStep(p, m)'
  <2>1. m.type = "open_channel" =>
          (/\ ~Saved(q) /\ IsFunder(q) /\ self[q].txid = 0
           /\ m.id = self[q].channel_id /\ Request(p) # Request(q) /\ Request(q) # 0
           /\ self[q].our = FundingSat - m.push /\ self[q].their = m.push)'
    BY <1>2, <1>3 DEF FitsStep, Alike
  <2>2. m.type \in {"accept_channel", "funding_created"} =>
          (/\ ~Saved(p) /\ ~Saved(q) /\ (IsFunder(p) <=> ~IsFunder(q))
           /\ m.id = self[p].channel_id /\ Request(p) = Request(q) /\ Request(p) # 0)'
    BY <1>2, <1>3 DEF FitsStep, Alike
  <2>3. m.type = "accept_channel" =>
          (IsFunder(p) /\ self[p].txid = 0 /\ m.min_depth = MinDepth[q])'
    BY <1>2 DEF FitsStep, Alike
  <2>4. m.type = "funding_created" =>
          (IsFunder(q) /\ self[q].txid = Request(q) /\ m.txid = Request(q))'
    BY <1>2, <1>3 DEF FitsStep, Alike
  <2>5. m.type = "funding_signed" =>
          (/\ ~Saved(p) /\ IsFunder(p) /\ self[p].txid # 0
           /\ \/ Saved(q) /\ Request(q) = Request(p)
              \/ ~Running(q) /\ count.crashes > 0)'
    BY <1>2, <1>3, <1>5 DEF FitsStep, Alike
  <2>6. m.type = "error" => (~Saved(p) /\ IsFunder(p) /\ ~Running(q))'
    BY <1>2 DEF FitsStep, Alike
  <2> QED BY <1>2, <2>1, <2>2, <2>3, <2>4, <2>5, <2>6 DEF FitsStep
<1>7. FitsHeld(p, m)'
  <2>1. m.type \in {"funding_locked", "channel_reestablish", "announcement_signatures"} =>
          (Saved(q) /\ m.id = self[q].channel_id)'
    BY <1>2 DEF FitsHeld, Alike
  <2>2. ASSUME m.type = "announcement_signatures"
        PROVE  ("SEND" \in self[q].anno_flag /\ chain[Request(q)] >= self[q].min_depth)'
    <3>1. Saved(q) /\ "SEND" \in self[q].anno_flag /\ chain[Request(q)] >= self[q].min_depth
      BY <1>2, <2>2 DEF FitsHeld
    <3>2. Request(q) \in 1 .. count.opens
      BY <1>2, <3>1 DEF Keeps, Holds
    <3>3. Request(q) \in Txid
      BY <3>2, Asked
    <3>4. chain'[Request(q)] >= chain[Request(q)]
      BY <3>3 DEF Later
    <3>5. chain[Request(q)] \in Int /\ chain'[Request(q)] \in Int /\ self[q].min_depth \in Nat
      <4>1. self[q].min_depth \in Nat /\ \A t \in Txid : chain[t] \in -1 .. MaxDepth
        BY TypeFacts
      <4>2. \A t \in Txid : chain'[t] \in -1 .. MaxDepth
        BY DEF Types, TypeOK
      <4> QED BY <4>1, <4>2, <3>3
    <3>6. chain'[Request(q)] >= self[q].min_depth
      BY <3>1, <3>4, <3>5
    <3> QED BY <1>2, <1>3, <3>1, <3>6 DEF Alike
  <2> QED BY <1>2, <2>1, <2>2 DEF FitsHeld
<1> QED BY <1>6, <1>7

\* The threads of an end go on without a change to its channel.
Calm(p) ==
    /\ Running(p)' => Running(p)
    /\ conf'[p].funding_waiting => conf[p].funding_waiting
    /\ conf'[p].annosigns => conf[p].annosigns
    /\ \/ conf'[p].poll = conf[p].poll
       \/ conf'[p].poll = "ended" /\ ~Running(p)' /\ ~Saved(p)
    /\ \/ conf'[p].main = conf[p].main
       \/ Saved(p) /\ (conf'[p].main = "locked" => self[p].short_channel_id)
    /\ ~Saved(p) /\ IsFunder(p) /\ conf'[p].poll = "idle" /\ chain[Request(p)] = -1 =>
          chain'[Request(p)] = -1

LEMMA KeepsCalm ==
    ASSUME Types, Types', NEW p \in Peer, Keeps(p), Calm(p), Later,
           self'[p] = self[p], db'[p] = db[p]
    PROVE  Keeps(p)'
<1>1. /\ Request(p)' = Request(p) /\ (IsFunder(p)' <=> IsFunder(p)) /\ (Saved(p)' <=> Saved(p))
      /\ (Running(p)' => Running(p))
  BY DEF Request, IsFunder, Saved, Calm
<1>2. \A n : n \in 1 .. count.opens => n \in 1 .. count'.opens /\ n \in Txid
  <2>1. count.opens \in Nat /\ \A n : n \in 1 .. count.opens => n \in Txid
    BY Asked
  <2>2. count'.opens \in 0 .. MaxOpens /\ MaxOpens \in Nat /\ count'.opens >= count.opens
    BY EstBoundAssumption DEF Types, Later
  <2> QED BY <2>1, <2>2
<1>3. CASE ~Saved(p)
  <2>1. Asks(p)
    BY <1>3 DEF Keeps
  <2>2. CASE self[p].channel_id = <<"none", 0>> /\ self[p].txid = 0 /\ self[p].fund_flag = {}
    BY <1>1, <1>3, <2>1, <2>2 DEF Asks, Calm, Keeps
  <2>3. CASE self[p].channel_id = <<"temp", Request(p)>> /\ Request(p) \in 1 .. count.opens
             /\ (Running(p) => "FUNDING" \in self[p].fund_flag)
             /\ (IsFunder(p) => /\ self[p].txid \in {0, Request(p)}
                                /\ self[p].txid # 0 => self[p].min_depth = MinDepth[Other(p)]
                                /\ conf[p].poll = "idle" => chain[Request(p)] = -1)
             /\ (~IsFunder(p) => self[p].txid = 0 /\ self[p].min_depth = MinDepth[p])
    <3>1. Request(p)' \in 1 .. count'.opens
      BY <1>1, <1>2, <2>3
    <3>2. IsFunder(p) /\ conf'[p].poll = "idle" => chain'[Request(p)'] = -1
      BY <1>1, <1>3, <2>3 DEF Calm
    <3>3. Asks(p)'
      BY <1>1, <1>3, <2>1, <2>3, <3>1, <3>2 DEF Asks, Calm
    <3> QED BY <1>1, <1>3, <3>3 DEF Keeps
  <2> QED BY <2>1, <2>2, <2>3 DEF Asks
<1>4. CASE Saved(p)
  <2>1. Stored(p) /\ Holds(p) /\ Waits(p)
    BY <1>4 DEF Keeps
  <2>2. Request(p) \in Txid /\ Request(p)' \in 1 .. count'.opens
    BY <1>1, <1>2, <2>1 DEF Holds
  <2>3. chain'[Request(p)] >= chain[Request(p)]
    BY <2>2 DEF Later
  <2>4. chain[Request(p)] \in Int /\ chain'[Request(p)] \in Int /\ self[p].min_depth \in Nat
    <3>1. self[p].min_depth \in Nat /\ \A t \in Txid : chain[t] \in -1 .. MaxDepth
      BY TypeFacts
    <3>2. \A t \in Txid : chain'[t] \in -1 .. MaxDepth
      BY DEF Types, TypeOK
    <3> QED BY <3>1, <3>2, <2>2
  <2>5. /\ chain[Request(p)] >= 0 => chain'[Request(p)] >= 0
        /\ chain[Request(p)] >= self[p].min_depth => chain'[Request(p)] >= self[p].min_depth
    BY <2>3, <2>4
  <2>6. Stored(p)'
    BY <1>1, <2>1 DEF Stored
  <2>7. Holds(p)'
    BY <1>1, <2>1, <2>2, <2>5 DEF Holds
  <2>8. Waits(p)'
    BY <1>1, <2>1, <2>5 DEF Waits, Calm
  <2> QED BY <1>1, <1>4, <2>6, <2>7, <2>8 DEF Keeps
<1> QED BY <1>3, <1>4

----------------------------------------------------------------------------
(* Streams.                                                                *)

Carries(p, m) == \E i \in DOMAIN net[p] : net[p][i] = m
Fits(p, m) == FitsStep(p, m) /\ FitsHeld(p, m)

LEMMA Carried ==
    ASSUME NEW p \in Peer, Stream(p), NEW m, Carries(p, m)
    PROVE  FitsStep(p, m) /\ FitsHeld(p, m) /\ Running(p)
<1>1. PICK i \in DOMAIN net[p] : net[p][i] = m
  BY DEF Carries
<1>2. net[p] # <<>>
  BY <1>1
<1> QED BY <1>1, <1>2 DEF Stream

\* Nothing is added for p.
LEMMA StreamLess ==
    ASSUME Types, NEW p \in Peer, Stream(p),
           \/ net'[p] = net[p]
           \/ net[p] # <<>> /\ net'[p] = Tail(net[p])
           \/ net'[p] = <<>>,
           net'[p] # <<>> => Running(p)',
           \A m : Carries(p, m) => Fits(p, m)'
    PROVE  Stream(p)'
<1>1. net[p] \in Seq(Message) /\ Once(net[p])
  BY TypeFacts DEF Stream
<1>2. CASE net'[p] = net[p]
  <2>1. \A m : Carries(p, m)' => Carries(p, m)
    BY <1>2 DEF Carries
  <2>2. Once(net[p])'
    BY <1>1, <1>2 DEF Once
  <2> QED BY <2>1, <2>2 DEF Stream, Carries, Fits
<1>3. CASE net[p] # <<>> /\ net'[p] = Tail(net[p])
  <2>1. \A i \in DOMAIN Tail(net[p]) : i + 1 \in DOMAIN net[p] /\ Tail(net[p])[i] = net[p][i + 1]
    BY <1>1, <1>3, TailFacts
  <2>2. Once(Tail(net[p]))
    BY <1>1, <1>3, OnceTail
  <2>3. Once(net[p])'
    BY <1>3, <2>2 DEF Once
  <2>4. \A m : Carries(p, m)' => Carries(p, m)
    BY <1>3, <2>1 DEF Carries
  <2> QED BY <2>3, <2>4 DEF Stream, Carries, Fits
<1>4. CASE net'[p] = <<>>
  BY <1>4 DEF Stream, Once
<1> QED BY <1>2, <1>3, <1>4

\* A step of the exchange is read.
LEMMA StreamTaken ==
    ASSUME Types, NEW p \in Peer, Stream(p), net[p] # <<>>, net'[p] = Tail(net[p]), Running(p)',
           IsStep(Head(net[p])),
           \A m : Carries(p, m) /\ ~IsStep(m) => Fits(p, m)'
    PROVE  Stream(p)'
<1>1. net[p] \in Seq(Message) /\ Once(net[p])
  BY TypeFacts DEF Stream
<1>2. \A i \in DOMAIN Tail(net[p]) : i + 1 \in DOMAIN net[p] /\ Tail(net[p])[i] = net[p][i + 1]
  BY <1>1, TailFacts
<1>3. Once(Tail(net[p])) /\ \A i \in DOMAIN Tail(net[p]) : ~IsStep(Tail(net[p])[i])
  BY <1>1, OnceTail
<1>4. Once(net[p])'
  BY <1>3 DEF Once
<1>5. \A m : Carries(p, m)' => Carries(p, m) /\ ~IsStep(m)
  BY <1>2, <1>3 DEF Carries
<1> QED BY <1>4, <1>5 DEF Stream, Carries, Fits

\* At most one message is sent to q.
LEMMA StreamMore ==
    ASSUME Types, NEW q \in Peer, Stream(q), NEW m \in Message,
           net'[q] = net[q] \/ (Running(q)' /\ net'[q] = net[q] \o <<m>>),
           Running(q) => Running(q)',
           IsStep(m) => \A n : Carries(q, n) => ~IsStep(n),
           Fits(q, m)',
           \A n : Carries(q, n) => Fits(q, n)'
    PROVE  Stream(q)'
<1>1. net[q] \in Seq(Message) /\ Once(net[q]) /\ (net[q] # <<>> => Running(q))
  BY TypeFacts DEF Stream
<1>2. CASE net'[q] = net[q]
  BY <1>1, <1>2, StreamLess
<1>3. CASE Running(q)' /\ net'[q] = net[q] \o <<m>>
  <2>1. \A i \in DOMAIN net[q] : IsStep(m) => ~IsStep(net[q][i])
    BY DEF Carries
  <2>2. Once(net[q] \o <<m>>)
    BY <1>1, <2>1, OnceAppend
  <2>3. Once(net[q])'
    BY <1>3, <2>2 DEF Once
  <2>4. \A i \in DOMAIN (net[q] \o <<m>>) :
           \/ i \in DOMAIN net[q] /\ (net[q] \o <<m>>)[i] = net[q][i]
           \/ i = Len(net[q]) + 1 /\ (net[q] \o <<m>>)[i] = m
    BY <1>1, AppendFacts
  <2>5. \A n : Carries(q, n)' => Carries(q, n) \/ n = m
    BY <1>3, <2>4 DEF Carries
  <2> QED BY <1>3, <2>3, <2>5 DEF Stream, Carries, Fits
<1> QED BY <1>2, <1>3

\* What Sent does to the streams.
LEMMA SentFacts ==
    ASSUME NEW p \in Peer, NEW nt \in [Peer -> Seq(Message)], NEW m \in Message,
           net' = Sent(nt, p, <<m>>)
    PROVE  /\ net' \in [Peer -> Seq(Message)] /\ net'[p] = nt[p]
           /\ \/ net'[Other(p)] = nt[Other(p)]
              \/ Running(Other(p)) /\ net'[Other(p)] = nt[Other(p)] \o <<m>>
<1>1. Other(p) \in Peer /\ Other(p) # p
  BY PeerFacts
<1>2. CASE conf[Other(p)].loop
  <2>1. nt[Other(p)] \o <<m>> \in Seq(Message)
    BY <1>1, AppendFacts
  <2>2. net' = [nt EXCEPT ![Other(p)] = nt[Other(p)] \o <<m>>]
    BY <1>2 DEF Sent
  <2> QED BY <1>1, <1>2, <2>1, <2>2 DEF Running
<1>3. CASE ~conf[Other(p)].loop
  BY <1>3 DEF Sent
<1> QED BY <1>2, <1>3

\* What Read does to them.
LEMMA ReadFacts ==
    ASSUME Types, NEW p \in Peer, net[p] # <<>>
    PROVE  /\ Read(p) \in [Peer -> Seq(Message)] /\ Read(p)[p] = Tail(net[p])
           /\ Read(p)[Other(p)] = net[Other(p)]
           /\ Head(net[p]) \in Message /\ Carries(p, Head(net[p]))
<1>1. Other(p) \in Peer /\ Other(p) # p /\ net \in [Peer -> Seq(Message)]
  BY PeerFacts DEF Types
<1>2. Tail(net[p]) \in Seq(Message) /\ 1 \in DOMAIN net[p] /\ Head(net[p]) = net[p][1]
  BY <1>1, TailFacts
<1>3. Head(net[p]) \in Message
  BY <1>1
<1> QED BY <1>1, <1>2, <1>3 DEF Read, Carries

----------------------------------------------------------------------------
(* Steps that change no channel.                                           *)

LEMMA Quiet ==
    ASSUME OpenInv, Types', NEW p \in Peer, UNCHANGED <<self, db>>,
           Calm(p), Calm(Other(p)), Later
    PROVE  /\ Keeps(p)' /\ Pair(p)' /\ Keeps(Other(p))' /\ Pair(Other(p))'
           /\ \A m : Carries(p, m) => Fits(p, m)'
           /\ \A m : Carries(Other(p), m) => Fits(Other(p), m)'
<1>1. /\ Types /\ Keeps(p) /\ Pair(p) /\ Stream(p)
      /\ Keeps(Other(p)) /\ Pair(Other(p)) /\ Stream(Other(p))
      /\ Other(p) \in Peer /\ Other(Other(p)) = p
  BY BothEnds, PeerFacts
<1>2. Keeps(p)' /\ Keeps(Other(p))'
  BY <1>1, KeepsCalm
<1>3. Alike(p) /\ Alike(Other(p))
  BY <1>1 DEF Alike, Calm, Saved, IsFunder
<1>4. Pair(p)' /\ Pair(Other(p))'
  BY <1>1 DEF Pair, Request, IsFunder, Saved
<1>5. ASSUME NEW m, Carries(p, m) PROVE Fits(p, m)'
  <2>1. FitsStep(p, m) /\ FitsHeld(p, m)
    BY <1>1, <1>5, Carried
  <2> QED BY <1>1, <1>3, <2>1, FitsAlike DEF Fits
<1>6. ASSUME NEW m, Carries(Other(p), m) PROVE Fits(Other(p), m)'
  <2>1. FitsStep(Other(p), m) /\ FitsHeld(Other(p), m)
    BY <1>1, <1>6, Carried
  <2> QED BY <1>1, <1>3, <2>1, FitsAlike DEF Fits
<1> QED BY <1>2, <1>4, <1>5, <1>6

LEMMA CleanSame ==
    ASSUME Clean, UNCHANGED <<self, db, chain, forced>>, count'.crashes = 0 => count.crashes = 0
    PROVE  Clean'
BY DEF Clean, Saved, IsFunder, Request

\* An end stops.
LEMMA StopQuiet ==
    ASSUME OpenInv, NEW p \in Peer, UNCHANGED <<self, db>>, Later, Chain', Clean', Types',
           ~Running(p)', conf'[Other(p)] = conf[Other(p)],
           net'[p] = <<>>, net'[Other(p)] = net[Other(p)],
           Calm(p), Calm(Other(p))
    PROVE  OpenInv'
<1>1. /\ Types /\ Stream(p) /\ Stream(Other(p)) /\ Other(p) \in Peer /\ conf[p] \in ConfType
      /\ conf[Other(p)] \in ConfType
  BY BothEnds, PeerFacts, TypeFacts
<1>2. Calm(p) /\ ~Running(p)'
  OBVIOUS
<1>3. /\ Keeps(p)' /\ Pair(p)' /\ Keeps(Other(p))' /\ Pair(Other(p))'
      /\ \A m : Carries(p, m) => Fits(p, m)'
      /\ \A m : Carries(Other(p), m) => Fits(Other(p), m)'
  BY <1>2, Quiet
<1>4. Stream(p)'
  BY <1>1, <1>3, StreamLess
<1>5. net'[Other(p)] # <<>> => Running(Other(p))'
  BY <1>1 DEF Stream, Running
<1>6. Stream(Other(p))'
  BY <1>1, <1>3, <1>5, StreamLess
<1> QED BY <1>3, <1>4, <1>6, FromEnds

\* What Stop writes.
LEMMA StopFacts ==
    ASSUME Types, NEW p \in Peer, Stop(p)
    PROVE  /\ conf' \in [Peer -> ConfType] /\ net' \in [Peer -> Seq(Message)]
           /\ conf'[p] = [conf[p] EXCEPT !.loop = FALSE] /\ conf'[Other(p)] = conf[Other(p)]
           /\ net'[p] = <<>> /\ net'[Other(p)] = net[Other(p)]
<1>1. /\ Other(p) \in Peer /\ Other(p) # p /\ conf \in [Peer -> ConfType]
      /\ net \in [Peer -> Seq(Message)]
      /\ conf' = [conf EXCEPT ![p].loop = FALSE] /\ net' = [net EXCEPT ![p] = <<>>]
  BY PeerFacts DEF Types, TypeOK, Stop
<1>2. PICK c : c = [conf[p] EXCEPT !.loop = FALSE]
  OBVIOUS
<1>3. c \in ConfType
  BY <1>1, <1>2 DEF ConfType
<1>4. conf' = [conf EXCEPT ![p] = c]
  BY <1>1, <1>2
<1>5. conf' \in [Peer -> ConfType] /\ conf'[p] = c /\ conf'[Other(p)] = conf[Other(p)]
  BY <1>1, <1>3, <1>4
<1>6. <<>> \in Seq(Message)
  OBVIOUS
<1>7. net' \in [Peer -> Seq(Message)] /\ net'[p] = <<>> /\ net'[Other(p)] = net[Other(p)]
  BY <1>1, <1>6
<1> QED BY <1>2, <1>5, <1>7

\* It is an end of its threads and of nothing else.
LEMMA StopCalm ==
    ASSUME Types, NEW p \in Peer, chain' = chain, conf'[p] = [conf[p] EXCEPT !.loop = FALSE]
    PROVE  Calm(p) /\ ~Running(p)'
<1>1. conf[p] \in ConfType
  BY TypeFacts
<1>2. PICK c : c = conf'[p]
  OBVIOUS
<1>3. /\ ~c.loop /\ c.main = conf[p].main /\ c.poll = conf[p].poll
      /\ c.annosigns = conf[p].annosigns /\ c.funding_waiting = conf[p].funding_waiting
  BY <1>1, <1>2 DEF ConfType
<1> QED BY <1>2, <1>3 DEF Calm, Running

\* An end stops and nothing else changes but the number of faults.
LEMMA StopStep ==
    ASSUME OpenInv, NEW p \in Peer, Stop(p), UNCHANGED <<self, db, chain, forced>>,
           count' \in [opens : 0 .. MaxOpens, drops : Nat, crashes : Nat, rejects : Nat],
           count'.opens = count.opens, count'.crashes = count.crashes
    PROVE  OpenInv'
<1>1. /\ Types /\ Chain /\ Clean /\ Other(p) \in Peer
  BY BothEnds, PeerFacts
<1>2. /\ conf' \in [Peer -> ConfType] /\ net' \in [Peer -> Seq(Message)]
      /\ conf'[p] = [conf[p] EXCEPT !.loop = FALSE] /\ conf'[Other(p)] = conf[Other(p)]
      /\ net'[p] = <<>> /\ net'[Other(p)] = net[Other(p)]
  BY <1>1, StopFacts
<1>3. Types'
  BY <1>1, <1>2 DEF Types, TypeOK
<1>4. Chain' /\ Clean'
  BY <1>1, CleanSame DEF Chain
<1>5. Later
  BY <1>1 DEF Later, Types, TypeOK
<1>6. Calm(p) /\ Calm(Other(p)) /\ ~Running(p)'
  BY <1>1, <1>2, StopCalm DEF Calm, Running
<1> QED BY <1>2, <1>3, <1>4, <1>5, <1>6, StopQuiet

LEMMA DropStep ==
    ASSUME OpenInv, NEW p \in Peer,
           Drop(p) \/ PeerGone(p) \/ ReestablishTimeout(p) \/ BroadcastFails(p)
    PROVE  OpenInv'
<1>1. count \in [opens : 0 .. MaxOpens, drops : Nat, crashes : Nat, rejects : Nat]
  BY DEF OpenInv, Types
<1>2. /\ Stop(p) /\ UNCHANGED <<self, db, chain, forced>>
      /\ \/ count' = count
         \/ count' = [count EXCEPT !.drops = @ + 1]
         \/ count' = [count EXCEPT !.rejects = @ + 1]
  BY DEF Drop, PeerGone, ReestablishTimeout, BroadcastFails
<1>3. /\ count' \in [opens : 0 .. MaxOpens, drops : Nat, crashes : Nat, rejects : Nat]
      /\ count'.opens = count.opens /\ count'.crashes = count.crashes
  BY <1>1, <1>2
<1> QED BY <1>2, <1>3, StopStep

\* A handler that fails closes no channel that both ends hold.
LEMMA FailStep ==
    ASSUME OpenInv, NEW p \in Peer, Fail(p),
           ~(Saved(p) /\ Saved(Other(p)) /\ Request(Other(p)) = Request(p))
    PROVE  OpenInv'
<1>1. /\ Types /\ Chain /\ Clean /\ Keeps(p) /\ Keeps(Other(p)) /\ Other(p) \in Peer
      /\ \A r \in Peer : r = p \/ r = Other(p)
  BY BothEnds, PeerFacts
<1>2. /\ Stop(p) /\ UNCHANGED <<self, db, chain, count>>
      /\ forced' = IF Saved(p) /\ chain[db[p].txid] >= 0 THEN forced \cup {p} ELSE forced
  BY DEF Fail
<1>3. count.crashes = 0 => ~(Saved(p) /\ chain[db[p].txid] >= 0)
  <2> SUFFICES ASSUME count.crashes = 0, Saved(p), chain[db[p].txid] >= 0 PROVE FALSE
    OBVIOUS
  <2>1. /\ db[p].txid = Request(p) /\ Request(p) \in Txid
    BY <1>1, Asked DEF Keeps, Stored, Holds
  <2>2. PICK r \in Peer : Saved(r) /\ IsFunder(r) /\ Request(r) = Request(p)
    BY <1>1, <2>1 DEF Clean
  <2>3. CASE r = p
    BY <1>1, <2>2, <2>3 DEF Clean
  <2>4. CASE r = Other(p)
    BY <2>2, <2>4
  <2> QED BY <1>1, <2>3, <2>4
<1>4. /\ conf' \in [Peer -> ConfType] /\ net' \in [Peer -> Seq(Message)]
      /\ conf'[p] = [conf[p] EXCEPT !.loop = FALSE] /\ conf'[Other(p)] = conf[Other(p)]
      /\ net'[p] = <<>> /\ net'[Other(p)] = net[Other(p)]
  BY <1>1, <1>2, StopFacts
<1>5. Types'
  BY <1>1, <1>2, <1>4 DEF Types, TypeOK
<1>6. Chain'
  BY <1>1, <1>2 DEF Chain
<1>7. Clean'
  BY <1>1, <1>2, <1>3 DEF Clean, Saved, IsFunder, Request
<1>8. Later
  BY <1>1, <1>2 DEF Later, Types, TypeOK
<1>9. Calm(p) /\ Calm(Other(p)) /\ ~Running(p)'
  BY <1>1, <1>2, <1>4, StopCalm DEF Calm, Running
<1> QED BY <1>2, <1>4, <1>5, <1>6, <1>7, <1>8, <1>9, StopQuiet

\* The flags of the threads of an end change, a message is read or sent.
LEMMA ThreadStep ==
    ASSUME OpenInv, NEW p \in Peer, UNCHANGED <<self, db, chain, forced, count>>,
           NEW c \in ConfType, conf' = [conf EXCEPT ![p] = c], c.loop = conf[p].loop,
           Calm(p), net' \in [Peer -> Seq(Message)],
           net'[p] = net[p] \/ (net[p] # <<>> /\ net'[p] = Tail(net[p])),
           NEW m \in Message, ~IsStep(m), Fits(Other(p), m)',
           \/ net'[Other(p)] = net[Other(p)]
           \/ Running(Other(p)) /\ net'[Other(p)] = net[Other(p)] \o <<m>>
    PROVE  OpenInv'
<1>1. /\ Types /\ Chain /\ Clean /\ Stream(p) /\ Stream(Other(p))
      /\ Other(p) \in Peer /\ Other(p) # p /\ conf \in [Peer -> ConfType]
  BY BothEnds, PeerFacts DEF Types, TypeOK
<1>2. /\ conf' \in [Peer -> ConfType] /\ conf'[p] = c /\ conf'[Other(p)] = conf[Other(p)]
  BY <1>1
<1>3. Types'
  BY <1>1, <1>2 DEF Types, TypeOK
<1>4. Chain' /\ Clean'
  BY <1>1, CleanSame DEF Chain
<1>5. Later
  BY <1>1 DEF Later, Types, TypeOK
<1>6. Calm(Other(p))
  BY <1>2 DEF Calm, Running
<1>7. /\ Keeps(p)' /\ Pair(p)' /\ Keeps(Other(p))' /\ Pair(Other(p))'
      /\ \A n : Carries(p, n) => Fits(p, n)'
      /\ \A n : Carries(Other(p), n) => Fits(Other(p), n)'
  BY <1>3, <1>5, <1>6, Quiet
<1>8. (Running(p)' <=> Running(p)) /\ (Running(Other(p))' <=> Running(Other(p)))
  BY <1>2 DEF Running
<1>9. Stream(p)'
  <2>1. net'[p] # <<>> => Running(p)'
    BY <1>1, <1>8 DEF Stream
  <2> QED BY <1>1, <1>7, <2>1, StreamLess
<1>10. Stream(Other(p))'
  BY <1>1, <1>7, <1>8, StreamMore
<1> QED BY <1>3, <1>4, <1>7, <1>9, <1>10, FromEnds

\* The same without a message.
LEMMA ThreadAlone ==
    ASSUME OpenInv, NEW p \in Peer, UNCHANGED <<self, db, chain, forced, count>>,
           NEW c \in ConfType, conf' = [conf EXCEPT ![p] = c], c.loop = conf[p].loop, Calm(p),
           \/ net' = net
           \/ net[p] # <<>> /\ net' = Read(p)
    PROVE  OpenInv'
<1>1. /\ Types /\ Chain /\ Clean /\ Stream(p) /\ Stream(Other(p))
      /\ Other(p) \in Peer /\ Other(p) # p /\ conf \in [Peer -> ConfType]
  BY BothEnds, PeerFacts DEF Types, TypeOK
<1>2. /\ net' \in [Peer -> Seq(Message)] /\ net'[Other(p)] = net[Other(p)]
      /\ net'[p] = net[p] \/ (net[p] # <<>> /\ net'[p] = Tail(net[p]))
  BY <1>1, ReadFacts DEF Types
<1>3. /\ conf' \in [Peer -> ConfType] /\ conf'[p] = c /\ conf'[Other(p)] = conf[Other(p)]
  BY <1>1
<1>4. Types'
  BY <1>1, <1>2, <1>3 DEF Types, TypeOK
<1>5. Chain' /\ Clean'
  BY <1>1, CleanSame DEF Chain
<1>6. Later /\ Calm(Other(p))
  BY <1>1, <1>3 DEF Later, Types, TypeOK, Calm, Running
<1>7. /\ Keeps(p)' /\ Pair(p)' /\ Keeps(Other(p))' /\ Pair(Other(p))'
      /\ \A n : Carries(p, n) => Fits(p, n)'
      /\ \A n : Carries(Other(p), n) => Fits(Other(p), n)'
  BY <1>4, <1>6, Quiet
<1>8. (Running(p)' <=> Running(p)) /\ (Running(Other(p))' <=> Running(Other(p)))
  BY <1>3 DEF Running
<1>9. Stream(p)'
  <2>1. net'[p] # <<>> => Running(p)'
    BY <1>1, <1>2, <1>8 DEF Stream
  <2> QED BY <1>1, <1>2, <1>7, <2>1, StreamLess
<1>10. Stream(Other(p))'
  <2>1. net'[Other(p)] # <<>> => Running(Other(p))'
    BY <1>1, <1>2, <1>8 DEF Stream
  <2> QED BY <1>1, <1>2, <1>7, <2>1, StreamLess
<1> QED BY <1>4, <1>5, <1>7, <1>9, <1>10, FromEnds

\* exchange_reestablish returns.
LEMMA ReestablishedStep ==
    ASSUME OpenInv, NEW p \in Peer, Reestablished(p) PROVE OpenInv'
<1>1. /\ Keeps(p) /\ conf[p] \in ConfType /\ conf[p].main = "reestablish"
      /\ conf' = [conf EXCEPT ![p].main = "check", ![p].flag_recv = @ \cup {"END"}]
      /\ UNCHANGED <<self, db, net, chain, forced, count>>
      /\ conf \in [Peer -> ConfType]
  BY BothEnds, TypeFacts DEF Reestablished, Types, TypeOK
<1>2. PICK c : c = [conf[p] EXCEPT !.main = "check", !.flag_recv = @ \cup {"END"}]
  OBVIOUS
<1>3. /\ c \in ConfType /\ c.loop = conf[p].loop /\ c.main = "check" /\ c.poll = conf[p].poll
      /\ c.annosigns = conf[p].annosigns /\ c.funding_waiting = conf[p].funding_waiting
  BY <1>1, <1>2 DEF ConfType
<1>4. conf' = [conf EXCEPT ![p] = c]
  BY <1>1, <1>2
<1>5. conf'[p] = c
  BY <1>1, <1>4
<1>6. Saved(p)
  BY <1>1 DEF Keeps, Asks
<1>7. Calm(p)
  BY <1>1, <1>3, <1>5, <1>6 DEF Calm, Running
<1> QED BY <1>1, <1>3, <1>4, <1>7, ThreadAlone

LEMMA RecvReestablishStep ==
    ASSUME OpenInv, NEW p \in Peer, recv_channel_reestablish(p) PROVE OpenInv'
<1>1. /\ Types /\ Keeps(p) /\ Keeps(Other(p)) /\ Stream(p) /\ conf[p] \in ConfType /\ net[p] # <<>>
      /\ Head(net[p]).type = "channel_reestablish" /\ conf \in [Peer -> ConfType]
  BY BothEnds, TypeFacts DEF recv_channel_reestablish, Receiving, Types, TypeOK
<1>2. CASE Head(net[p]).id # self[p].channel_id
  <2>1. Fail(p)
    BY <1>2 DEF recv_channel_reestablish
  <2>2. PICK m : m = Head(net[p])
    OBVIOUS
  <2>3. FitsHeld(p, m)
    BY <1>1, <2>2, ReadFacts, Carried
  <2>4. Saved(Other(p)) /\ self[Other(p)].channel_id # self[p].channel_id
    BY <1>1, <1>2, <2>2, <2>3 DEF FitsHeld
  <2>5. ~(Saved(p) /\ Saved(Other(p)) /\ Request(Other(p)) = Request(p))
    BY <1>1, <2>4 DEF Keeps, Holds
  <2> QED BY <2>1, <2>5, FailStep
<1>3. CASE Head(net[p]).id = self[p].channel_id
  <2>1. /\ conf' = [conf EXCEPT ![p].flag_recv = @ \cup {"REESTABLISH"}]
        /\ net' = Read(p) /\ UNCHANGED <<self, db, chain, forced, count>>
    BY <1>3 DEF recv_channel_reestablish
  <2>2. PICK c : c = [conf[p] EXCEPT !.flag_recv = @ \cup {"REESTABLISH"}]
    OBVIOUS
  <2>3. /\ c \in ConfType /\ c.loop = conf[p].loop /\ c.main = conf[p].main /\ c.poll = conf[p].poll
        /\ c.annosigns = conf[p].annosigns /\ c.funding_waiting = conf[p].funding_waiting
    BY <1>1, <2>2 DEF ConfType
  <2>4. conf' = [conf EXCEPT ![p] = c]
    BY <2>1, <2>2
  <2>5. conf'[p] = c
    BY <1>1, <2>4
  <2>6. Calm(p)
    BY <2>1, <2>3, <2>5 DEF Calm, Running
  <2> QED BY <1>1, <2>1, <2>3, <2>4, <2>6, ThreadAlone
<1> QED BY <1>2, <1>3

\* The messages are messages.
LEMMA Messages ==
    ASSUME NEW id \in ChannelId
    PROVE  /\ \A pt \in {0, 1} : [type |-> "funding_locked", id |-> id, pt |-> pt] \in Message
           /\ [type |-> "announcement_signatures", id |-> id] \in Message
           /\ [type |-> "channel_reestablish", id |-> id] \in Message
           /\ \A push \in 0 .. FundingSat :
                 [type |-> "open_channel", push |-> push, id |-> id] \in Message
           /\ \A d \in Nat : [type |-> "accept_channel", id |-> id, min_depth |-> d] \in Message
           /\ \A t \in 0 .. MaxOpens, s \in Seq(Nat) :
                 [type |-> "funding_created", id |-> id, txid |-> t, signature |-> s] \in Message
           /\ \A s \in Seq(Nat) :
                 [type |-> "funding_signed", id |-> id, signature |-> s] \in Message
           /\ [type |-> "error"] \in Message
BY DEF Message

\* exchange_funding_locked of the main thread, up to its wait.
LEMMA ExchangeStep ==
    ASSUME OpenInv, NEW p \in Peer, exchange_funding_locked(p) PROVE OpenInv'
<1>1. /\ Types /\ Keeps(p) /\ conf[p] \in ConfType /\ conf[p].main = "check"
      /\ UNCHANGED <<self, db, chain, forced, count>> /\ conf \in [Peer -> ConfType]
      /\ self[p].channel_id \in ChannelId /\ Other(p) \in Peer /\ Other(Other(p)) = p
      /\ net \in [Peer -> Seq(Message)]
  BY BothEnds, TypeFacts, PeerFacts DEF exchange_funding_locked, Types, TypeOK
<1>2. Saved(p) /\ Holds(p)
  BY <1>1 DEF Keeps, Asks
<1>3. ASSUME NEW x \in {"locked", "loop"}, x = "locked" => self[p].short_channel_id,
             conf' = [conf EXCEPT ![p].main = x]
      PROVE  \E c \in ConfType : /\ conf' = [conf EXCEPT ![p] = c] /\ c.loop = conf[p].loop
                                 /\ Calm(p)
  <2>1. PICK c : c = [conf[p] EXCEPT !.main = x]
    OBVIOUS
  <2>2. /\ c \in ConfType /\ c.loop = conf[p].loop /\ c.main = x /\ c.poll = conf[p].poll
        /\ c.annosigns = conf[p].annosigns /\ c.funding_waiting = conf[p].funding_waiting
    BY <1>1, <2>1 DEF ConfType
  <2>3. conf' = [conf EXCEPT ![p] = c]
    BY <1>3, <2>1
  <2>4. conf'[p] = c
    BY <1>1, <2>3
  <2>5. Calm(p)
    BY <1>1, <1>2, <1>3, <2>2, <2>4 DEF Calm, Running
  <2> QED BY <2>2, <2>3, <2>5
<1>4. CASE ~self[p].short_channel_id
  <2>1. conf' = [conf EXCEPT ![p].main = "loop"] /\ net' = net
    BY <1>4 DEF exchange_funding_locked, ln_funding_locked_check_need
  <2>2. PICK c \in ConfType : conf' = [conf EXCEPT ![p] = c] /\ c.loop = conf[p].loop /\ Calm(p)
    BY <1>3, <2>1
  <2> QED BY <1>1, <2>1, <2>2, ThreadAlone
<1>5. CASE self[p].short_channel_id
  <2>1. /\ conf' = [conf EXCEPT ![p].main = "locked"]
        /\ net' = SentIfUp(p, ln_funding_locked_create(p))
    BY <1>5 DEF exchange_funding_locked, ln_funding_locked_check_need
  <2>2. PICK c \in ConfType : conf' = [conf EXCEPT ![p] = c] /\ c.loop = conf[p].loop /\ Calm(p)
    BY <1>3, <1>5, <2>1
  <2>3. PICK m : m = [type |-> "funding_locked", id |-> self[p].channel_id, pt |-> self[p].local_pt]
    OBVIOUS
  <2>4. m \in Message /\ m.type = "funding_locked" /\ m.id = self[p].channel_id
    BY <1>1, <1>2, <2>3, Messages DEF Holds
  <2>5. net' = SentIfUp(p, <<m>>)
    BY <2>1, <2>3 DEF ln_funding_locked_create
  <2>6. /\ net' \in [Peer -> Seq(Message)] /\ net'[p] = net[p]
        /\ \/ net'[Other(p)] = net[Other(p)]
           \/ Running(Other(p)) /\ net'[Other(p)] = net[Other(p)] \o <<m>>
    BY <1>1, <2>4, <2>5, SentFacts DEF SentIfUp
  <2>7. Fits(Other(p), m)' /\ ~IsStep(m)
    BY <1>1, <1>2, <2>4 DEF Fits, FitsStep, FitsHeld, IsStep, Saved
  <2> QED BY <1>1, <2>2, <2>4, <2>6, <2>7, ThreadStep
<1> QED BY <1>4, <1>5

\* A transaction gets one block deeper.
LEMMA ConfirmStep ==
    ASSUME OpenInv, NEW t \in Txid, Confirm(t) PROVE OpenInv'
<1>1. PICK p \in Peer : TRUE
  BY EstPeerAssumption
<1>2. /\ Types /\ Chain /\ Clean /\ Stream(p) /\ Stream(Other(p)) /\ Other(p) \in Peer
      /\ chain[t] \in 0 .. MaxDepth - 1 /\ chain' = [chain EXCEPT ![t] = @ + 1]
      /\ UNCHANGED <<self, db, conf, net, forced, count>>
      /\ chain \in [Txid -> -1 .. MaxDepth] /\ MaxDepth \in Nat
  BY <1>1, BothEnds, PeerFacts, EstBoundAssumption DEF Confirm, Types, TypeOK
<1>3. /\ chain' \in [Txid -> -1 .. MaxDepth]
      /\ \A u \in Txid : chain'[u] >= chain[u] /\ (chain[u] = -1 => chain'[u] = -1)
      /\ \A u \in Txid : chain'[u] >= 0 => chain[u] >= 0
  BY <1>2
<1>4. Types' /\ Later
  BY <1>2, <1>3 DEF Types, TypeOK, Later
<1>5. Chain'
  BY <1>2, <1>3 DEF Chain
<1>6. Clean'
  BY <1>2, <1>3 DEF Clean, Saved, IsFunder, Request
<1>7. ASSUME NEW r \in Peer PROVE Calm(r)
  <2>1. Keeps(r) /\ \A n : n \in 1 .. count.opens => n \in Txid
    BY <1>2, Asked DEF OpenInv
  <2>2. ~Saved(r) /\ IsFunder(r) => Request(r) \in Txid
    BY <2>1 DEF Keeps, Asks, IsFunder
  <2> QED BY <1>2, <1>3, <2>2 DEF Calm, Running
<1>8. /\ Keeps(p)' /\ Pair(p)' /\ Keeps(Other(p))' /\ Pair(Other(p))'
      /\ \A n : Carries(p, n) => Fits(p, n)'
      /\ \A n : Carries(Other(p), n) => Fits(Other(p), n)'
  BY <1>2, <1>4, <1>7, Quiet
<1>9. Stream(p)' /\ Stream(Other(p))'
  <2>1. (net'[p] # <<>> => Running(p)') /\ (net'[Other(p)] # <<>> => Running(Other(p))')
    BY <1>2 DEF Stream, Running
  <2>2. net'[p] = net[p] /\ net'[Other(p)] = net[Other(p)]
    BY <1>2
  <2> QED BY <1>2, <1>8, <2>1, <2>2, StreamLess
<1> QED BY <1>4, <1>5, <1>6, <1>8, <1>9, FromEnds

\* A process dies that has saved nothing.
LEMMA DieFacts ==
    ASSUME Types, NEW p \in Peer, ~Saved(p), Die(p)
    PROVE  /\ conf' \in [Peer -> ConfType] /\ conf'[Other(p)] = conf[Other(p)]
           /\ Calm(p) /\ ~Running(p)'
           /\ \E c \in ConfType : ~c.loop /\ conf' = [conf EXCEPT ![p] = c]
<1>1. /\ Other(p) \in Peer /\ Other(p) # p /\ conf \in [Peer -> ConfType]
      /\ conf[p] \in ConfType
      /\ conf' = [conf EXCEPT ![p].loop = FALSE, ![p].poll = "ended"]
  BY PeerFacts DEF Types, TypeOK, Die
<1>2. PICK c : c = [conf[p] EXCEPT !.loop = FALSE, !.poll = "ended"]
  OBVIOUS
<1>3. /\ c \in ConfType /\ ~c.loop /\ c.main = conf[p].main /\ c.poll = "ended"
      /\ c.annosigns = conf[p].annosigns /\ c.funding_waiting = conf[p].funding_waiting
  BY <1>1, <1>2 DEF ConfType
<1>4. conf' = [conf EXCEPT ![p] = c]
  BY <1>1, <1>2
<1>5. conf' \in [Peer -> ConfType] /\ conf'[p] = c /\ conf'[Other(p)] = conf[Other(p)]
  BY <1>1, <1>3, <1>4
<1>6. Calm(p) /\ ~Running(p)'
  BY <1>3, <1>5 DEF Calm, Running
<1> QED BY <1>3, <1>4, <1>5, <1>6

\* The funder dies after the broadcast: the transaction is out.
LEMMA CrashFunderStep ==
    ASSUME OpenInv, NEW p \in Peer, CrashFunder(p) PROVE OpenInv'
<1>1. /\ Types /\ Chain /\ Keeps(p) /\ Keeps(Other(p)) /\ Pair(p) /\ Stream(p)
      /\ Other(p) \in Peer /\ Other(p) # p
      /\ Running(p) /\ net[p] # <<>> /\ Head(net[p]).type = "funding_signed"
      /\ Die(p) /\ net' = [net EXCEPT ![p] = <<>>]
      /\ chain' = [chain EXCEPT ![self[p].txid] = 0]
      /\ count' = [count EXCEPT !.crashes = @ + 1] /\ UNCHANGED <<self, db, forced>>
      /\ chain \in [Txid -> -1 .. MaxDepth] /\ MaxDepth \in Nat
      /\ count \in [opens : 0 .. MaxOpens, drops : Nat, crashes : Nat, rejects : Nat]
  BY BothEnds, PeerFacts, EstBoundAssumption DEF CrashFunder, Receiving, Types, TypeOK
<1>2. PICK m : m = Head(net[p])
  OBVIOUS
<1>3. FitsStep(p, m) /\ m.type = "funding_signed"
  BY <1>1, <1>2, ReadFacts, Carried
<1>4. ~Saved(p) /\ IsFunder(p) /\ self[p].txid # 0
  BY <1>3 DEF FitsStep
<1>5. Asks(p)
  BY <1>1, <1>4 DEF Keeps
<1>6. /\ self[p].txid = Request(p) /\ Request(p) \in 1 .. count.opens /\ chain[Request(p)] = -1
  BY <1>1, <1>4, <1>5 DEF Asks, IsFunder
<1>7. Request(p) \in Txid
  BY <1>1, <1>6, Asked
<1>8. /\ chain' \in [Txid -> -1 .. MaxDepth]
      /\ \A u \in Txid : chain'[u] >= chain[u] /\ (u # Request(p) => chain'[u] = chain[u])
  BY <1>1, <1>6, <1>7
<1>9. /\ conf' \in [Peer -> ConfType] /\ net' \in [Peer -> Seq(Message)]
      /\ Calm(p) /\ ~Running(p)' /\ conf'[Other(p)] = conf[Other(p)]
      /\ net'[p] = <<>> /\ net'[Other(p)] = net[Other(p)]
  <2>1. net \in [Peer -> Seq(Message)] /\ <<>> \in Seq(Message)
    BY <1>1 DEF Types
  <2>2. net' \in [Peer -> Seq(Message)] /\ net'[p] = <<>> /\ net'[Other(p)] = net[Other(p)]
    BY <1>1, <2>1
  <2> QED BY <1>1, <1>4, <2>2, DieFacts
<1>10. /\ count' \in [opens : 0 .. MaxOpens, drops : Nat, crashes : Nat, rejects : Nat]
       /\ count'.opens = count.opens /\ count'.crashes = count.crashes + 1 /\ count.crashes \in Nat
  BY <1>1
<1>11. Types' /\ Later
  <2>1. self' = self /\ db' = db /\ forced' = forced /\ Types
    BY <1>1
  <2>2. TypeOK'
    BY <2>1, <1>8, <1>9 DEF Types, TypeOK
  <2>3. Types'
    BY <2>2, <1>9, <1>10 DEF Types
  <2>4. count.opens \in Nat
    BY <1>1, Asked
  <2> QED BY <2>3, <2>4, <1>8, <1>10 DEF Later
<1>12. Chain'
  <2>1. Request(p) =< count.opens /\ count.opens \in Nat /\ Request(p) \in Nat
    BY <1>6, <1>10
  <2> SUFFICES ASSUME NEW u \in Txid, u > count.opens PROVE chain'[u] = -1
    BY <1>10 DEF Chain
  <2>2. u # Request(p)
    BY <2>1
  <2> QED BY <1>1, <1>8, <2>2 DEF Chain
<1>13. Clean'
  BY <1>10 DEF Clean
<1>14. Calm(Other(p))
  <2>1. ~Saved(Other(p)) /\ IsFunder(Other(p)) => /\ Request(Other(p)) \in Txid
                                                  /\ Request(Other(p)) # Request(p)
    <3> SUFFICES ASSUME ~Saved(Other(p)), IsFunder(Other(p))
                 PROVE  Request(Other(p)) \in Txid /\ Request(Other(p)) # Request(p)
      OBVIOUS
    <3>1. Request(Other(p)) \in 1 .. count.opens
      BY <1>1 DEF Keeps, Asks, IsFunder
    <3>2. Request(Other(p)) # Request(p)
      BY <1>1, <1>4, <1>6 DEF Pair
    <3> QED BY <1>1, <3>1, <3>2, Asked
  <2> QED BY <1>8, <1>9, <2>1 DEF Calm, Running
<1> QED BY <1>1, <1>9, <1>11, <1>12, <1>13, <1>14, StopQuiet

----------------------------------------------------------------------------
(* While one end has a step of the exchange to answer, the other has none. *)

NoStep(q) == \A n : Carries(q, n) => ~IsStep(n)

LEMMA Waiting ==
    ASSUME OpenInv, NEW p \in Peer, Running(p), ~Saved(p), NEW q, q = Other(p)
    PROVE  \A n : Carries(q, n) /\ IsStep(n) =>
              /\ n.type = "open_channel" =>
                    IsFunder(p) /\ self[p].txid = 0 /\ Request(q) # Request(p) /\ Request(p) # 0
              /\ n.type = "accept_channel" =>
                    /\ IsFunder(q) /\ ~IsFunder(p) /\ Request(q) = Request(p) /\ Request(p) # 0
                    /\ self[q].txid = 0
              /\ n.type = "funding_created" =>
                    IsFunder(p) /\ ~IsFunder(q) /\ self[p].txid # 0 /\ Running(q) /\ ~Saved(q)
              /\ n.type \in {"open_channel", "accept_channel", "funding_created"}
<1>1. q \in Peer /\ Other(q) = p /\ Stream(q)
  BY BothEnds, PeerFacts
<1> SUFFICES ASSUME NEW n, Carries(q, n), IsStep(n)
             PROVE  /\ n.type = "open_channel" =>
                          IsFunder(p) /\ self[p].txid = 0 /\ Request(q) # Request(p) /\ Request(p) # 0
                    /\ n.type = "accept_channel" =>
                          /\ IsFunder(q) /\ ~IsFunder(p) /\ Request(q) = Request(p) /\ Request(p) # 0
                          /\ self[q].txid = 0
                    /\ n.type = "funding_created" =>
                          IsFunder(p) /\ ~IsFunder(q) /\ self[p].txid # 0 /\ Running(q) /\ ~Saved(q)
                    /\ n.type \in {"open_channel", "accept_channel", "funding_created"}
  OBVIOUS
<1>2. FitsStep(q, n) /\ Running(q)
  BY <1>1, Carried
<1>3. n.type # "funding_signed" /\ n.type # "error"
  BY <1>1, <1>2 DEF FitsStep
<1> QED BY <1>1, <1>2, <1>3 DEF FitsStep, IsStep

\* p reads open_channel and takes part in no other request.
LEMMA OpenTaken ==
    ASSUME OpenInv, NEW p \in Peer, Running(p), ~Saved(p), ~IsFunder(p), NEW m, FitsStep(p, m),
           m.type = "open_channel"
    PROVE  NoStep(Other(p))
<1>1. PICK q : q = Other(p)
  OBVIOUS
<1>2. Request(p) # Request(q)
  BY <1>1 DEF FitsStep
<1> QED BY <1>1, <1>2, Waiting DEF NoStep

\* p reads accept_channel.
LEMMA AcceptTaken ==
    ASSUME OpenInv, NEW p \in Peer, Running(p), NEW m, FitsStep(p, m),
           m.type = "accept_channel"
    PROVE  NoStep(Other(p))
<1>1. PICK q : q = Other(p)
  OBVIOUS
<1>2. ~Saved(p) /\ IsFunder(p) /\ Request(p) = Request(q) /\ self[p].txid = 0
  BY <1>1 DEF FitsStep
<1> QED BY <1>1, <1>2, Waiting DEF NoStep

\* p reads funding_created.
LEMMA CreatedTaken ==
    ASSUME OpenInv, NEW p \in Peer, Running(p), NEW m, FitsStep(p, m),
           m.type = "funding_created"
    PROVE  NoStep(Other(p))
<1>1. PICK q : q = Other(p)
  OBVIOUS
<1>2. ~Saved(p) /\ ~IsFunder(p) /\ self[q].txid # 0
  BY <1>1 DEF FitsStep
<1> QED BY <1>1, <1>2, Waiting DEF NoStep

\* p reads funding_signed.
LEMMA SignedTaken ==
    ASSUME OpenInv, NEW p \in Peer, Running(p), NEW m, FitsStep(p, m),
           m.type = "funding_signed"
    PROVE  NoStep(Other(p))
<1>1. PICK q : q = Other(p)
  OBVIOUS
<1>2. ~Saved(p) /\ IsFunder(p) /\ self[p].txid # 0 /\ (Saved(q) \/ ~Running(q))
  BY <1>1 DEF FitsStep
<1> QED BY <1>1, <1>2, Waiting DEF NoStep

\* An end that takes part in nothing sends open_channel.
LEMMA NothingTaken ==
    ASSUME OpenInv, NEW p \in Peer, Running(p), ~Saved(p), ~IsFunder(p), Request(p) = 0
    PROVE  NoStep(Other(p))
BY Waiting DEF NoStep

\* An end answers with a message and stops.
LEMMA StopSend ==
    ASSUME OpenInv, NEW p \in Peer, UNCHANGED <<self, db, chain, forced>>,
           count' \in [opens : 0 .. MaxOpens, drops : Nat, crashes : Nat, rejects : Nat],
           count'.opens = count.opens, count'.crashes >= count.crashes,
           NEW c \in ConfType, ~c.loop, conf' = [conf EXCEPT ![p] = c], Calm(p),
           NEW m \in Message,
           net' = Sent([net EXCEPT ![p] = <<>>], p, <<m>>), NoStep(Other(p)),
           Fits(Other(p), m)'
    PROVE  OpenInv'
<1>1. /\ Types /\ Chain /\ Clean /\ Stream(p) /\ Stream(Other(p)) /\ Other(p) \in Peer
      /\ Other(p) # p /\ conf \in [Peer -> ConfType] /\ net \in [Peer -> Seq(Message)]
      /\ conf[p] \in ConfType /\ count.crashes \in Nat
  BY BothEnds, PeerFacts, TypeFacts DEF Types, TypeOK
<1>2. PICK nt : nt = [net EXCEPT ![p] = <<>>]
  OBVIOUS
<1>3. nt \in [Peer -> Seq(Message)] /\ nt[p] = <<>> /\ nt[Other(p)] = net[Other(p)]
  BY <1>1, <1>2
<1>4. net' = Sent(nt, p, <<m>>)
  BY <1>2
<1>5. /\ net' \in [Peer -> Seq(Message)] /\ net'[p] = <<>>
      /\ \/ net'[Other(p)] = net[Other(p)]
         \/ Running(Other(p)) /\ net'[Other(p)] = net[Other(p)] \o <<m>>
  BY <1>3, <1>4, SentFacts
<1>9. conf' \in [Peer -> ConfType] /\ conf'[p] = c /\ conf'[Other(p)] = conf[Other(p)]
  BY <1>1
<1>10. Types'
  BY <1>1, <1>5, <1>9 DEF Types, TypeOK
<1>11. count'.crashes \in Nat
  BY <1>10 DEF Types
<1>12. Chain' /\ Clean'
  <2>1. count'.crashes = 0 => count.crashes = 0
    BY <1>1, <1>11
  <2> QED BY <1>1, <2>1, CleanSame DEF Chain
<1>13. Later
  BY <1>1 DEF Later, Types, TypeOK
<1>14. Calm(p) /\ Calm(Other(p))
  BY <1>9 DEF Calm, Running
<1>15. /\ Keeps(p)' /\ Pair(p)' /\ Keeps(Other(p))' /\ Pair(Other(p))'
       /\ \A n : Carries(p, n) => Fits(p, n)'
       /\ \A n : Carries(Other(p), n) => Fits(Other(p), n)'
  BY <1>10, <1>13, <1>14, Quiet
<1>16. Stream(p)'
  BY <1>1, <1>5, <1>15, StreamLess
<1>17. Running(Other(p))' <=> Running(Other(p))
  BY <1>9 DEF Running
<1>18. Stream(Other(p))'
  BY <1>1, <1>5, <1>15, <1>17, StreamMore DEF NoStep
<1> QED BY <1>10, <1>12, <1>15, <1>16, <1>18, FromEnds

LEMMA RefuseStep ==
    ASSUME OpenInv, NEW p \in Peer, RefuseOpenChannel(p) PROVE OpenInv'
<1>1. /\ Types /\ Stream(p) /\ Keeps(p) /\ Pair(p) /\ Other(p) \in Peer /\ Other(Other(p)) = p
      /\ Running(p) /\ net[p] # <<>> /\ Head(net[p]).type = "open_channel"
      /\ self[p].fund_flag \cap {"FUNDER", "FUNDING"} = {}
      /\ count' = [count EXCEPT !.rejects = @ + 1] /\ UNCHANGED <<self, db, chain, forced>>
      /\ conf' = [conf EXCEPT ![p].loop = FALSE]
      /\ net' = Sent([net EXCEPT ![p] = <<>>], p, <<[type |-> "error"]>>)
      /\ count \in [opens : 0 .. MaxOpens, drops : Nat, crashes : Nat, rejects : Nat]
  BY BothEnds, PeerFacts DEF RefuseOpenChannel, Receiving, Types
<1>2. PICK m : m = Head(net[p])
  OBVIOUS
<1>3. FitsStep(p, m) /\ m.type = "open_channel"
  BY <1>1, <1>2, ReadFacts, Carried
<1>4. ~Saved(Other(p)) /\ IsFunder(Other(p)) /\ self[Other(p)].txid = 0 /\ Request(p) # Request(Other(p))
  BY <1>3 DEF FitsStep
<1>5. NoStep(Other(p))
  <2>1. CASE ~Saved(p)
    BY <1>1, <1>3, <2>1, OpenTaken DEF IsFunder
  <2>2. CASE Saved(p)
    <3> SUFFICES ASSUME NEW n, Carries(Other(p), n), IsStep(n) PROVE FALSE
      BY DEF NoStep
    <3>1. FitsStep(Other(p), n)
      BY <1>1, Carried, BothEnds
    <3>2. ~IsFunder(p)
      BY <1>1 DEF IsFunder
    <3> QED BY <1>1, <1>4, <2>2, <3>1, <3>2 DEF FitsStep, IsStep
  <2> QED BY <2>1, <2>2
<1>6. PICK e : e = [type |-> "error"]
  OBVIOUS
<1>7. e \in Message /\ e.type = "error" /\ net' = Sent([net EXCEPT ![p] = <<>>], p, <<e>>)
  BY <1>1, <1>6 DEF Message
<1>8. ~Running(p)' /\ ~Saved(Other(p))' /\ IsFunder(Other(p))'
  <2>1. conf \in [Peer -> ConfType]
    BY <1>1 DEF Types, TypeOK
  <2> QED BY <1>1, <1>4, <2>1 DEF Running, Saved, IsFunder, ConfType
<1>9. Fits(Other(p), e)'
  BY <1>1, <1>7, <1>8 DEF Fits, FitsStep, FitsHeld
<1>10. /\ count' \in [opens : 0 .. MaxOpens, drops : Nat, crashes : Nat, rejects : Nat]
       /\ count'.opens = count.opens /\ count'.crashes >= count.crashes
  BY <1>1
<1>11. PICK c \in ConfType : ~c.loop /\ conf' = [conf EXCEPT ![p] = c] /\ Calm(p)
  <2>1. conf[p] \in ConfType /\ conf \in [Peer -> ConfType]
    BY <1>1, TypeFacts DEF Types, TypeOK
  <2>2. PICK c : c = [conf[p] EXCEPT !.loop = FALSE]
    OBVIOUS
  <2>3. c \in ConfType /\ ~c.loop /\ conf' = [conf EXCEPT ![p] = c]
    BY <1>1, <2>1, <2>2 DEF ConfType
  <2>4. conf'[p] = [conf[p] EXCEPT !.loop = FALSE]
    BY <2>1, <2>2, <2>3
  <2> QED BY <1>1, <2>3, <2>4, StopCalm
<1> QED BY <1>1, <1>5, <1>7, <1>9, <1>10, <1>11, StopSend

LEMMA CrashFundeeStep ==
    ASSUME OpenInv, NEW p \in Peer, CrashFundee(p) PROVE OpenInv'
<1>1. PICK m : m = Head(net[p])
  OBVIOUS
<1>2. PICK s : s = FundingCreated(self[p], m)
  OBVIOUS
<1>3. /\ Types /\ Stream(p) /\ Other(p) \in Peer /\ Other(Other(p)) = p
      /\ Running(p) /\ net[p] # <<>> /\ m.type = "funding_created"
      /\ count' = [count EXCEPT !.crashes = @ + 1] /\ UNCHANGED <<self, db, chain, forced>>
      /\ Die(p)
      /\ net' = Sent([net EXCEPT ![p] = <<>>], p,
                     <<[type |-> "funding_signed", id |-> FundingId(s),
                        signature |-> create_to_remote(s)]>>)
      /\ count \in [opens : 0 .. MaxOpens, drops : Nat, crashes : Nat, rejects : Nat]
      /\ self[p] \in SelfType
  BY <1>1, <1>2, BothEnds, PeerFacts, TypeFacts DEF CrashFundee, Receiving, Types
<1>4. FitsStep(p, m) /\ m \in Message
  BY <1>1, <1>3, ReadFacts, Carried
<1>5. /\ ~Saved(p) /\ ~Saved(Other(p)) /\ IsFunder(Other(p)) /\ m.txid = Request(Other(p))
      /\ self[Other(p)].txid = Request(Other(p)) /\ Request(Other(p)) # 0
  BY <1>3, <1>4 DEF FitsStep
<1>6. NoStep(Other(p))
  BY <1>3, <1>4, CreatedTaken
<1>7. s.txid \in 0 .. MaxOpens /\ s.remote_pt \in Nat /\ s.our \in Nat /\ s.their \in Nat
  <2>1. m.txid \in 0 .. MaxOpens
    BY <1>3, <1>5, TypeFacts
  <2>2. self[p] \in SelfType
    BY <1>3
  <2>3. /\ s.txid = m.txid /\ s.remote_pt = self[p].remote_pt
        /\ s.our = self[p].our /\ s.their = self[p].their
    BY <1>2, <2>2 DEF FundingCreated, SelfType
  <2>4. self[p].remote_pt \in {0, 1} /\ self[p].our \in 0 .. FundingSat
        /\ self[p].their \in 0 .. FundingSat
    BY <2>2 DEF SelfType
  <2> QED BY <2>1, <2>3, <2>4, EstDepthAssumption
<1>8. FundingId(s) \in ChannelId /\ create_to_remote(s) \in Seq(Nat)
  BY <1>7, EstBoundAssumption DEF FundingId, ChannelId, create_to_remote
<1>9. PICK e : e = [type |-> "funding_signed", id |-> FundingId(s), signature |-> create_to_remote(s)]
  OBVIOUS
<1>10. /\ e \in Message /\ e.type = "funding_signed"
       /\ net' = Sent([net EXCEPT ![p] = <<>>], p, <<e>>)
  BY <1>3, <1>8, <1>9, Messages
<1>11. /\ count' \in [opens : 0 .. MaxOpens, drops : Nat, crashes : Nat, rejects : Nat]
       /\ count'.opens = count.opens /\ count'.crashes >= count.crashes /\ count'.crashes > 0
  BY <1>3
<1>12. /\ ~Running(p)' /\ ~Saved(Other(p))' /\ IsFunder(Other(p))' /\ self'[Other(p)].txid # 0
  <2>1. ~Running(p)'
    BY <1>3, <1>5, DieFacts
  <2> QED BY <1>3, <1>5, <2>1 DEF Saved, IsFunder
<1>13. Fits(Other(p), e)'
  BY <1>3, <1>10, <1>11, <1>12 DEF Fits, FitsStep, FitsHeld
<1>14. PICK c \in ConfType : ~c.loop /\ conf' = [conf EXCEPT ![p] = c] /\ Calm(p)
  BY <1>3, <1>5, DieFacts
<1> QED BY <1>3, <1>6, <1>10, <1>11, <1>13, <1>14, StopSend

----------------------------------------------------------------------------
(* Steps of an end that holds a channel.                                   *)

\* The record s is the channel of p at a later moment.
Follows(p, s) ==
    /\ s \in SelfType
    /\ s.channel_id = self[p].channel_id /\ s.txid = self[p].txid
    /\ s.our = self[p].our /\ s.their = self[p].their /\ s.min_depth = self[p].min_depth
    /\ s.local_pt = self[p].local_pt /\ s.signature = self[p].signature
    /\ "FUNDER" \in s.fund_flag <=> IsFunder(p)
    /\ s.fund_flag \cap {"FUNDING", "OPENED"} # {}
    /\ s.status # "NONE" /\ (s.status = "NORMAL" => s.short_channel_id)
    /\ s.short_channel_id => chain[Request(p)] >= self[p].min_depth
    /\ "FUNDING" \notin s.fund_flag /\ ~s.short_channel_id => Saved(Other(p))
    /\ "SEND" \in self[p].anno_flag => "SEND" \in s.anno_flag
    /\ "RECV" \in s.anno_flag => "SEND" \in self[Other(p)].anno_flag
    /\ "END" \in s.anno_flag => {"SEND", "RECV"} \subseteq s.anno_flag

\* What its threads may then wait for.
MayWait(p, s, c) ==
    /\ c \in ConfType /\ c.loop = conf[p].loop
    /\ c.poll = "locked" => s.status = "NORMAL"
    /\ c.main = "locked" => s.short_channel_id
    /\ c.annosigns => chain[Request(p)] >= self[p].min_depth

LEMMA HeldStep ==
    ASSUME OpenInv, NEW p \in Peer, Saved(p), NEW s, Follows(p, s), Save(p, s),
           NEW c, MayWait(p, s, c), conf' = [conf EXCEPT ![p] = c],
           UNCHANGED <<chain, forced, count>>, net' \in [Peer -> Seq(Message)],
           net'[p] = net[p] \/ (net[p] # <<>> /\ net'[p] = Tail(net[p])),
           \/ net'[Other(p)] = net[Other(p)]
           \/ /\ Running(Other(p))
              /\ \E m \in Message : /\ ~IsStep(m) /\ Fits(Other(p), m)'
                                    /\ net'[Other(p)] = net[Other(p)] \o <<m>>
    PROVE  OpenInv'
<1>1. /\ Types /\ Chain /\ Clean /\ Keeps(p) /\ Keeps(Other(p)) /\ Pair(p) /\ Pair(Other(p))
      /\ Stream(p) /\ Stream(Other(p))
      /\ Other(p) \in Peer /\ Other(p) # p /\ Other(Other(p)) = p
      /\ conf \in [Peer -> ConfType] /\ self \in [Peer -> SelfType] /\ db \in [Peer -> SelfType]
      /\ \A r \in Peer : r = p \/ r = Other(p)
  BY BothEnds, PeerFacts DEF Types, TypeOK
<1>2. PICK q \in Peer : q = Other(p) /\ q # p /\ Other(q) = p
  BY <1>1
<1>3. /\ self' \in [Peer -> SelfType] /\ self'[p] = s /\ self'[q] = self[q]
      /\ db' \in [Peer -> SelfType] /\ db'[p] = s /\ db'[q] = db[q]
  BY <1>1, <1>2 DEF Save, Follows
<1>4. conf' \in [Peer -> ConfType] /\ conf'[p] = c /\ conf'[q] = conf[q]
  BY <1>1, <1>2 DEF MayWait
<1>5. Types'
  BY <1>1, <1>3, <1>4 DEF Types, TypeOK
<1>6. /\ Saved(p)' /\ (Saved(q)' <=> Saved(q)) /\ (IsFunder(p)' <=> IsFunder(p))
      /\ (IsFunder(q)' <=> IsFunder(q)) /\ Request(p)' = Request(p) /\ Request(q)' = Request(q)
      /\ (Running(p)' <=> Running(p)) /\ (Running(q)' <=> Running(q))
  BY <1>3, <1>4 DEF Follows, MayWait, Saved, IsFunder, Request, Running
<1>7. Chain' /\ Later
  BY <1>1 DEF Chain, Later, Types, TypeOK
<1>8. Clean'
  <2>1. \A r \in Peer : /\ Saved(r)' <=> Saved(r)
                        /\ IsFunder(r)' <=> IsFunder(r)
                        /\ Request(r)' = Request(r)
    BY <1>1, <1>2, <1>6
  <2>2. \A r \in Peer : Other(r) \in Peer
    BY PeerFacts
  <2> QED BY <1>1, <2>1, <2>2 DEF Clean
<1>9. Keeps(p)'
  <2>1. Holds(p) /\ Waits(p)
    BY <1>1 DEF Keeps
  <2>2. Stored(p)'
    BY <1>3 DEF Stored, IsFunder
  <2>3. Holds(p)'
    BY <1>3, <1>6, <2>1 DEF Follows, Holds
  <2>4. Waits(p)'
    BY <1>3, <1>4, <1>6 DEF Follows, MayWait, Waits
  <2> QED BY <1>6, <2>2, <2>3, <2>4 DEF Keeps
<1>10. Keeps(q)'
  <2>1. Calm(q)
    BY <1>4 DEF Calm, Running
  <2> QED BY <1>1, <1>2, <1>3, <1>5, <1>7, <2>1, KeepsCalm
<1>11. Alike(p) /\ Alike(q)
  BY <1>3, <1>6 DEF Alike, Follows
<1>12. Pair(p)'
  <2>1. Request(p)' = Request(q)' /\ Request(p)' # 0 =>
           (IsFunder(p)' <=> ~IsFunder(q)') /\ self'[p].our = self'[q].their
    BY <1>1, <1>2, <1>3, <1>6 DEF Pair, Follows
  <2> QED BY <1>2, <1>3, <1>6, <2>1 DEF Pair, Follows
<1>13. Pair(q)'
  <2>1. Request(q)' = Request(p)' /\ Request(q)' # 0 =>
           (IsFunder(q)' <=> ~IsFunder(p)') /\ self'[q].our = self'[p].their
    BY <1>1, <1>2, <1>3, <1>6 DEF Pair, Follows
  <2> QED BY <1>1, <1>2, <1>3, <1>6, <2>1 DEF Pair, Follows
<1>14. ASSUME NEW m, Carries(p, m) PROVE Fits(p, m)'
  <2>1. FitsStep(p, m) /\ FitsHeld(p, m)
    BY <1>1, <1>14, Carried
  <2> QED BY <1>1, <1>2, <1>5, <1>7, <1>11, <2>1, FitsAlike DEF Fits
<1>15. ASSUME NEW m, Carries(q, m) PROVE Fits(q, m)'
  <2>1. FitsStep(q, m) /\ FitsHeld(q, m)
    BY <1>1, <1>2, <1>15, Carried
  <2> QED BY <1>1, <1>2, <1>5, <1>7, <1>11, <2>1, FitsAlike DEF Fits
<1>16. Stream(p)'
  <2>1. net'[p] # <<>> => Running(p)'
    BY <1>1, <1>6 DEF Stream
  <2> QED BY <1>1, <1>14, <2>1, StreamLess
<1>17. Stream(q)'
  <2>1. CASE net'[q] = net[q]
    <3>1. net'[q] # <<>> => Running(q)'
      BY <1>1, <1>2, <1>6, <2>1 DEF Stream
    <3> QED BY <1>1, <1>2, <1>15, <2>1, <3>1, StreamLess
  <2>2. CASE Running(q) /\ \E m \in Message : /\ ~IsStep(m) /\ Fits(q, m)'
                                              /\ net'[q] = net[q] \o <<m>>
    <3>1. PICK m \in Message : ~IsStep(m) /\ Fits(q, m)' /\ net'[q] = net[q] \o <<m>>
      BY <2>2
    <3>2. Running(q)'
      BY <1>6, <2>2
    <3> QED BY <1>1, <1>2, <1>15, <3>1, <3>2, StreamMore
  <2> QED BY <1>2, <2>1, <2>2
<1> QED BY <1>2, <1>5, <1>7, <1>8, <1>9, <1>10, <1>12, <1>13, <1>16, <1>17, FromEnds

LEMMA FollowsSelf ==
    ASSUME OpenInv, NEW p \in Peer, Saved(p)
    PROVE  /\ Follows(p, self[p]) /\ self[p] \in SelfType /\ self[p].status # "NONE"
           /\ self[p].status = "NORMAL" => self[p].short_channel_id
           /\ self[p].channel_id \in ChannelId /\ self[p].local_pt = 1
           /\ Request(p) \in Txid /\ self[p].txid = Request(p) /\ self[p].min_depth \in Nat
<1>1. /\ Types /\ Keeps(p) /\ Pair(p) /\ self[p] \in SelfType
      /\ self[p].channel_id \in ChannelId /\ self[p].min_depth \in Nat
  BY BothEnds, TypeFacts
<1>2. Holds(p) /\ Waits(p)
  BY <1>1 DEF Keeps
<1>3. Follows(p, self[p])
  BY <1>1, <1>2 DEF Follows, Holds, Waits, Pair, IsFunder
<1> QED BY <1>1, <1>2, <1>3, Asked DEF Holds, Waits

\* set_short_channel_id.
LEMMA ShortSet ==
    ASSUME NEW p \in Peer, NEW r, r \in SelfType, Follows(p, r), NEW s,
           s = ln_short_channel_id_set_param(r), chain[Request(p)] >= self[p].min_depth
    PROVE  Follows(p, s) /\ s.status = "NORMAL" /\ s.short_channel_id
<1>1. /\ s \in SelfType /\ s.channel_id = r.channel_id /\ s.txid = r.txid
      /\ s.our = r.our /\ s.their = r.their /\ s.min_depth = r.min_depth
      /\ s.local_pt = r.local_pt /\ s.signature = r.signature
      /\ s.fund_flag = r.fund_flag /\ s.anno_flag = r.anno_flag
      /\ s.status = "NORMAL" /\ s.short_channel_id = TRUE
  BY DEF ln_short_channel_id_set_param, SelfType
<1> QED BY <1>1 DEF Follows

\* funding_locked.
LEMMA LockedSet ==
    ASSUME NEW p \in Peer, NEW r, r \in SelfType, Follows(p, r), NEW s, NEW m, m.pt \in {0, 1},
           s = FundingLocked(r, m), Saved(Other(p))
    PROVE  Follows(p, s) /\ s.status = r.status /\ s.short_channel_id = r.short_channel_id
<1>1. /\ s \in SelfType /\ s.channel_id = r.channel_id /\ s.txid = r.txid
      /\ s.our = r.our /\ s.their = r.their /\ s.min_depth = r.min_depth
      /\ s.local_pt = r.local_pt /\ s.signature = r.signature
      /\ s.fund_flag = (r.fund_flag \ {"FUNDING"}) \cup {"OPENED"} /\ s.anno_flag = r.anno_flag
      /\ s.status = r.status /\ s.short_channel_id = r.short_channel_id
  BY DEF FundingLocked, free_establish, SelfType
<1> QED BY <1>1 DEF Follows

\* The announcement is wanted only once.
LEMMA AnnoSet ==
    ASSUME NEW p \in Peer, NEW r, r \in SelfType, Follows(p, r), NEW s,
           s = [r EXCEPT !.fund_flag = @ \ {"ANNO_CH"}]
    PROVE  Follows(p, s) /\ s.status = r.status /\ s.short_channel_id = r.short_channel_id
<1>1. /\ s \in SelfType /\ s.channel_id = r.channel_id /\ s.txid = r.txid
      /\ s.our = r.our /\ s.their = r.their /\ s.min_depth = r.min_depth
      /\ s.local_pt = r.local_pt /\ s.signature = r.signature
      /\ s.fund_flag = r.fund_flag \ {"ANNO_CH"} /\ s.anno_flag = r.anno_flag
      /\ s.status = r.status /\ s.short_channel_id = r.short_channel_id
  BY DEF SelfType
<1> QED BY <1>1 DEF Follows

\* The signatures of one end, and of both.
Signs(r, b, A, u) ==
    \/ u = [r EXCEPT !.short_channel_id = b, !.anno_flag = @ \cup A]
    \/ b = r.short_channel_id /\ u = [r EXCEPT !.anno_flag = @ \cup A]

LEMMA SignsSet ==
    ASSUME NEW p \in Peer, NEW r, r \in SelfType, Follows(p, r), NEW s,
           NEW b \in BOOLEAN, NEW A \in SUBSET {"SEND", "RECV"},
           NEW u, s = proc_anno_sigs(u), Signs(r, b, A, u),
           r.short_channel_id => b, b => chain[Request(p)] >= self[p].min_depth,
           "RECV" \in A => "SEND" \in self[Other(p)].anno_flag
    PROVE  /\ Follows(p, s) /\ s.status = r.status /\ s.short_channel_id = b
           /\ A \subseteq s.anno_flag
<1>2. /\ u \in SelfType /\ u.channel_id = r.channel_id /\ u.txid = r.txid
      /\ u.our = r.our /\ u.their = r.their /\ u.min_depth = r.min_depth
      /\ u.local_pt = r.local_pt /\ u.signature = r.signature
      /\ u.fund_flag = r.fund_flag /\ u.anno_flag = r.anno_flag \cup A
      /\ u.status = r.status /\ u.short_channel_id = b
  <2>1. CASE u = [r EXCEPT !.short_channel_id = b, !.anno_flag = @ \cup A]
    BY <2>1 DEF SelfType
  <2>2. CASE b = r.short_channel_id /\ u = [r EXCEPT !.anno_flag = @ \cup A]
    BY <2>2 DEF SelfType
  <2> QED BY <2>1, <2>2 DEF Signs
<1>3. Follows(p, u)
  BY <1>2 DEF Follows
<1>4. CASE u.anno_flag = {"SEND", "RECV"} /\ u.short_channel_id
  <2>1. s = [u EXCEPT !.anno_flag = @ \cup {"END"}]
    BY <1>4 DEF proc_anno_sigs
  <2>2. /\ s \in SelfType /\ s.channel_id = u.channel_id /\ s.txid = u.txid
        /\ s.our = u.our /\ s.their = u.their /\ s.min_depth = u.min_depth
        /\ s.local_pt = u.local_pt /\ s.signature = u.signature
        /\ s.fund_flag = u.fund_flag /\ s.anno_flag = u.anno_flag \cup {"END"}
        /\ s.status = u.status /\ s.short_channel_id = u.short_channel_id
    BY <1>2, <2>1 DEF SelfType
  <2>3. Follows(p, s)
    BY <1>3, <1>4, <2>2 DEF Follows
  <2> QED BY <1>2, <2>2, <2>3
<1>5. CASE ~(u.anno_flag = {"SEND", "RECV"} /\ u.short_channel_id)
  <2>1. s = u
    BY <1>5 DEF proc_anno_sigs
  <2> QED BY <1>2, <1>3, <2>1
<1> QED BY <1>4, <1>5

\* The funding transaction of an end is deep enough.
LEMMA DepthIs ==
    ASSUME OpenInv, NEW p \in Peer, Saved(p)
    PROVE  Depth(p) = chain[Request(p)] /\ Depth(p) \in Int
<1>1. Request(p) \in Txid /\ self[p].txid = Request(p) /\ chain[Request(p)] \in -1 .. MaxDepth
  BY FollowsSelf, BothEnds, TypeFacts
<1>2. self[p].txid # 0
  BY <1>1 DEF Txid
<1> QED BY <1>1, <1>2 DEF Depth

\* poll_funding_wait up to its wait.
LEMMA PollStep ==
    ASSUME OpenInv, NEW p \in Peer, poll_funding_wait(p) PROVE OpenInv'
<1>1. /\ Types /\ Keeps(p) /\ conf[p].funding_waiting /\ Depth(p) >= self[p].min_depth
      /\ Save(p, ln_short_channel_id_set_param(self[p]))
      /\ net' = SentIfUp(p, ln_funding_locked_create(p))
      /\ conf' = [conf EXCEPT ![p].poll = "locked"] /\ UNCHANGED <<chain, forced, count>>
      /\ net \in [Peer -> Seq(Message)] /\ conf \in [Peer -> ConfType]
      /\ Other(p) \in Peer /\ Other(Other(p)) = p
  BY BothEnds, PeerFacts DEF poll_funding_wait, DeepEnough, Types, TypeOK
<1>2. Saved(p)
  BY <1>1 DEF Keeps, Asks
<1>3. /\ Follows(p, self[p]) /\ self[p] \in SelfType /\ self[p].channel_id \in ChannelId
      /\ self[p].local_pt = 1
  BY <1>2, FollowsSelf
<1>4. chain[Request(p)] >= self[p].min_depth
  BY <1>1, <1>2, DepthIs
<1>5. PICK s : s = ln_short_channel_id_set_param(self[p])
  OBVIOUS
<1>6. Follows(p, s) /\ s.status = "NORMAL" /\ s.short_channel_id
  BY <1>3, <1>4, <1>5, ShortSet
<1>7. PICK c : c = [conf[p] EXCEPT !.poll = "locked"]
  OBVIOUS
<1>8. c \in ConfType /\ c.loop = conf[p].loop
  BY <1>1, <1>7 DEF ConfType
<1>9. conf' = [conf EXCEPT ![p] = c]
  BY <1>1, <1>7
<1>10. MayWait(p, s, c)
  BY <1>4, <1>6, <1>8 DEF MayWait
<1>11. PICK m : m = [type |-> "funding_locked", id |-> self[p].channel_id, pt |-> self[p].local_pt]
  OBVIOUS
<1>12. m \in Message /\ m.type = "funding_locked" /\ m.id = self[p].channel_id
  BY <1>3, <1>11, Messages
<1>13. net' = SentIfUp(p, <<m>>)
  BY <1>1, <1>11 DEF ln_funding_locked_create
<1>14. /\ net' \in [Peer -> Seq(Message)] /\ net'[p] = net[p]
       /\ \/ net'[Other(p)] = net[Other(p)]
          \/ Running(Other(p)) /\ net'[Other(p)] = net[Other(p)] \o <<m>>
  BY <1>1, <1>12, <1>13, SentFacts DEF SentIfUp
<1>15. Save(p, s)
  BY <1>1, <1>5
<1>16. self'[p] = s /\ db'[p] = s
  BY <1>1, <1>15 DEF Save, Types, TypeOK
<1>17. Fits(Other(p), m)' /\ ~IsStep(m)
  BY <1>1, <1>6, <1>12, <1>16 DEF Fits, FitsStep, FitsHeld, IsStep, Saved, Follows
<1> QED BY <1>1, <1>2, <1>6, <1>9, <1>10, <1>12, <1>14, <1>15, <1>17, HeldStep

\* The rest of poll_funding_wait, and of exchange_funding_locked in the main thread.
LEMMA LockedStep ==
    ASSUME OpenInv, NEW p \in Peer, PollLocked(p) \/ MainLocked(p) PROVE OpenInv'
<1>1. /\ Types /\ Keeps(p) /\ conf[p] \in ConfType
      /\ Save(p, ln_short_channel_id_set_param(self[p])) /\ UNCHANGED <<net, chain, forced, count>>
      /\ net \in [Peer -> Seq(Message)] /\ conf \in [Peer -> ConfType]
      /\ \/ /\ conf[p].poll = "locked"
            /\ conf' = [conf EXCEPT ![p].poll = "idle", ![p].funding_waiting = FALSE]
         \/ conf[p].main = "locked" /\ conf' = [conf EXCEPT ![p].main = "loop"]
  BY BothEnds, TypeFacts DEF PollLocked, MainLocked, Types, TypeOK
<1>2. Saved(p)
  BY <1>1 DEF Keeps, Asks
<1>3. Follows(p, self[p]) /\ self[p] \in SelfType
  BY <1>2, FollowsSelf
<1>4. Waits(p)
  BY <1>1, <1>2 DEF Keeps
<1>5. chain[Request(p)] >= self[p].min_depth
  BY <1>1, <1>4 DEF Waits
<1>6. PICK s : s = ln_short_channel_id_set_param(self[p])
  OBVIOUS
<1>7. Follows(p, s) /\ s.status = "NORMAL" /\ s.short_channel_id
  BY <1>3, <1>5, <1>6, ShortSet
<1>8. Save(p, s)
  BY <1>1, <1>6
<1>9. \E c \in ConfType : c.loop = conf[p].loop /\ conf' = [conf EXCEPT ![p] = c]
  <2>1. CASE conf' = [conf EXCEPT ![p].poll = "idle", ![p].funding_waiting = FALSE]
    <3>1. PICK c : c = [conf[p] EXCEPT !.poll = "idle", !.funding_waiting = FALSE]
      OBVIOUS
    <3>2. c \in ConfType /\ c.loop = conf[p].loop
      BY <1>1, <3>1 DEF ConfType
    <3>3. conf' = [conf EXCEPT ![p] = c]
      BY <1>1, <2>1, <3>1
    <3> QED BY <3>2, <3>3
  <2>2. CASE conf' = [conf EXCEPT ![p].main = "loop"]
    <3>1. PICK c : c = [conf[p] EXCEPT !.main = "loop"]
      OBVIOUS
    <3>2. c \in ConfType /\ c.loop = conf[p].loop
      BY <1>1, <3>1 DEF ConfType
    <3>3. conf' = [conf EXCEPT ![p] = c]
      BY <1>1, <2>2, <3>1
    <3> QED BY <3>2, <3>3
  <2> QED BY <1>1, <2>1, <2>2
<1>10. PICK c \in ConfType : c.loop = conf[p].loop /\ conf' = [conf EXCEPT ![p] = c]
  BY <1>9
<1>11. MayWait(p, s, c)
  BY <1>5, <1>7, <1>10 DEF MayWait
<1>12. net'[p] = net[p] /\ net'[Other(p)] = net[Other(p)] /\ net' \in [Peer -> Seq(Message)]
       /\ UNCHANGED <<chain, forced, count>>
  BY <1>1
<1> QED BY <1>2, <1>7, <1>8, <1>10, <1>11, <1>12, HeldStep

\* thread_poll_start asks for the announcement.
LEMMA PollAnnounceStep ==
    ASSUME OpenInv, NEW p \in Peer, PollAnnounce(p) PROVE OpenInv'
<1>1. /\ Types /\ Keeps(p) /\ conf[p] \in ConfType /\ conf[p].poll = "idle"
      /\ Depth(p) >= ANNOSIGS_CONFIRM /\ Depth(p) >= self[p].min_depth
      /\ conf' = [conf EXCEPT ![p].annosigns = TRUE]
      /\ Save(p, [self[p] EXCEPT !.fund_flag = @ \ {"ANNO_CH"}])
      /\ UNCHANGED <<net, chain, forced, count>>
      /\ net \in [Peer -> Seq(Message)] /\ conf \in [Peer -> ConfType]
      /\ self[p].min_depth \in Nat
  BY BothEnds, TypeFacts DEF PollAnnounce, Types, TypeOK
<1>2. Saved(p)
  <2> SUFFICES ASSUME ~Saved(p) PROVE FALSE
    OBVIOUS
  <2>1. Asks(p)
    BY <1>1 DEF Keeps
  <2>2. Depth(p) = -1
    BY <1>1, <2>1 DEF Asks, Depth, IsFunder
  <2> QED BY <1>1, <2>2
<1>3. Follows(p, self[p]) /\ self[p] \in SelfType
      /\ (self[p].status = "NORMAL" => self[p].short_channel_id)
  BY <1>2, FollowsSelf
<1>4. Waits(p)
  BY <1>1, <1>2 DEF Keeps
<1>5. chain[Request(p)] >= self[p].min_depth
  BY <1>1, <1>2, DepthIs
<1>6. PICK s : s = [self[p] EXCEPT !.fund_flag = @ \ {"ANNO_CH"}]
  OBVIOUS
<1>7. Follows(p, s) /\ s.status = self[p].status /\ s.short_channel_id = self[p].short_channel_id
  BY <1>3, <1>6, AnnoSet
<1>8. Save(p, s)
  BY <1>1, <1>6
<1>9. PICK c : c = [conf[p] EXCEPT !.annosigns = TRUE]
  OBVIOUS
<1>10. c \in ConfType /\ c.loop = conf[p].loop /\ c.poll = conf[p].poll /\ c.main = conf[p].main
  BY <1>1, <1>9 DEF ConfType
<1>11. conf' = [conf EXCEPT ![p] = c]
  BY <1>1, <1>9
<1>12. MayWait(p, s, c)
  BY <1>4, <1>5, <1>7, <1>10 DEF MayWait, Waits
<1>13. net'[p] = net[p] /\ net'[Other(p)] = net[Other(p)] /\ net' \in [Peer -> Seq(Message)]
       /\ UNCHANGED <<chain, forced, count>>
  BY <1>1
<1> QED BY <1>2, <1>7, <1>8, <1>11, <1>12, <1>13, HeldStep

\* The receive thread is idle and signs the announcement.
LEMMA AnnounceStep ==
    ASSUME OpenInv, NEW p \in Peer, ln_announce_signs_create(p) PROVE OpenInv'
<1>1. PICK u : u = [self[p] EXCEPT !.anno_flag = @ \cup {"SEND"}]
  OBVIOUS
<1>2. PICK s : s = proc_anno_sigs(u)
  OBVIOUS
<1>3. /\ Types /\ Keeps(p) /\ conf[p].annosigns /\ Save(p, s)
      /\ net' = Sent(net, p, <<[type |-> "announcement_signatures", id |-> self[p].channel_id]>>)
      /\ conf' = [conf EXCEPT ![p].annosigns = FALSE] /\ UNCHANGED <<chain, forced, count>>
      /\ net \in [Peer -> Seq(Message)] /\ conf \in [Peer -> ConfType]
      /\ Other(p) \in Peer /\ Other(Other(p)) = p
  BY <1>1, <1>2, BothEnds, PeerFacts DEF ln_announce_signs_create, Types, TypeOK
<1>4. Saved(p)
  BY <1>3 DEF Keeps, Asks
<1>5. /\ Follows(p, self[p]) /\ self[p] \in SelfType /\ self[p].channel_id \in ChannelId
      /\ (self[p].status = "NORMAL" => self[p].short_channel_id)
  BY <1>4, FollowsSelf
<1>6. Waits(p)
  BY <1>3, <1>4 DEF Keeps
<1>7. chain[Request(p)] >= self[p].min_depth
  BY <1>3, <1>6 DEF Waits
<1>8. PICK b \in BOOLEAN : b = self[p].short_channel_id
  BY <1>5 DEF SelfType
<1>9. PICK A \in SUBSET {"SEND", "RECV"} : A = {"SEND"}
  OBVIOUS
<1>10. Signs(self[p], b, A, u) /\ "RECV" \notin A
  BY <1>1, <1>8, <1>9 DEF Signs
<1>11. /\ Follows(p, s) /\ s.status = self[p].status /\ s.short_channel_id = self[p].short_channel_id
       /\ A \subseteq s.anno_flag
  BY <1>2, <1>5, <1>7, <1>8, <1>10, SignsSet
<1>12. PICK c : c = [conf[p] EXCEPT !.annosigns = FALSE]
  OBVIOUS
<1>13. c \in ConfType /\ c.loop = conf[p].loop /\ c.poll = conf[p].poll /\ c.main = conf[p].main
  <2>1. conf[p] \in ConfType
    BY <1>3
  <2> QED BY <1>12, <2>1 DEF ConfType
<1>14. conf' = [conf EXCEPT ![p] = c]
  BY <1>3, <1>12
<1>15. MayWait(p, s, c)
  BY <1>6, <1>7, <1>11, <1>13 DEF MayWait, Waits
<1>16. PICK m : m = [type |-> "announcement_signatures", id |-> self[p].channel_id]
  OBVIOUS
<1>17. m \in Message /\ m.type = "announcement_signatures" /\ m.id = self[p].channel_id
  BY <1>5, <1>16, Messages
<1>18. net' = Sent(net, p, <<m>>)
  BY <1>3, <1>16
<1>19. /\ net' \in [Peer -> Seq(Message)] /\ net'[p] = net[p]
       /\ \/ net'[Other(p)] = net[Other(p)]
          \/ Running(Other(p)) /\ net'[Other(p)] = net[Other(p)] \o <<m>>
  BY <1>3, <1>17, <1>18, SentFacts
<1>20. self'[p] = s /\ db'[p] = s
  BY <1>3 DEF Save, Types, TypeOK
<1>21. Request(p)' = Request(p) /\ self'[p].min_depth = self[p].min_depth
  BY <1>11, <1>20 DEF Follows, Request
<1>22. /\ Saved(p)' /\ self'[p].channel_id = m.id /\ "SEND" \in self'[p].anno_flag
       /\ chain'[Request(p)'] >= self'[p].min_depth
  BY <1>3, <1>7, <1>9, <1>11, <1>17, <1>20, <1>21 DEF Saved, Follows
<1>23. Fits(Other(p), m)' /\ ~IsStep(m)
  BY <1>3, <1>17, <1>22 DEF Fits, FitsStep, FitsHeld, IsStep
<1> QED BY <1>3, <1>4, <1>11, <1>14, <1>15, <1>17, <1>19, <1>23, HeldStep

\* A message of the two channels: the channels are the same.
LEMMA SameChannel ==
    ASSUME OpenInv, NEW p \in Peer, net[p] # <<>>, NEW m, m = Head(net[p]),
           m.type \in {"funding_locked", "announcement_signatures"}
    PROVE  /\ Saved(Other(p)) /\ m.id = self[Other(p)].channel_id /\ m \in Message
           /\ m.type = "announcement_signatures" =>
                 /\ "SEND" \in self[Other(p)].anno_flag
                 /\ chain[Request(Other(p))] >= self[Other(p)].min_depth
           /\ m.id # self[p].channel_id =>
                 ~(Saved(p) /\ Saved(Other(p)) /\ Request(Other(p)) = Request(p))
           /\ m.id = self[p].channel_id =>
                 Saved(p) /\ Request(p) = Request(Other(p)) /\ self[p].min_depth = self[Other(p)].min_depth
<1>1. /\ Types /\ Keeps(p) /\ Keeps(Other(p)) /\ Pair(p) /\ Stream(p)
      /\ Other(p) \in Peer /\ Other(Other(p)) = p
  BY BothEnds, PeerFacts
<1>2. FitsHeld(p, m) /\ m \in Message
  BY <1>1, ReadFacts, Carried
<1>3. /\ Saved(Other(p)) /\ m.id = self[Other(p)].channel_id
      /\ m.type = "announcement_signatures" =>
                 /\ "SEND" \in self[Other(p)].anno_flag
                 /\ chain[Request(Other(p))] >= self[Other(p)].min_depth
  BY <1>2 DEF FitsHeld
<1>4. Holds(Other(p))
  BY <1>1, <1>3 DEF Keeps
<1>5. m.id # self[p].channel_id => ~(Saved(p) /\ Request(Other(p)) = Request(p))
  BY <1>1, <1>3, <1>4 DEF Keeps, Holds
<1>6. ASSUME m.id = self[p].channel_id
      PROVE  Saved(p) /\ Request(p) = Request(Other(p)) /\ self[p].min_depth = self[Other(p)].min_depth
  <2>1. self[p].channel_id = <<"funding", Request(Other(p))>> /\ Request(Other(p)) \in 1 .. count.opens
    BY <1>3, <1>4, <1>6 DEF Holds
  <2>2. Request(p) = Request(Other(p)) /\ Request(p) # 0
    BY <2>1 DEF Request
  <2>3. Saved(p)
    BY <1>1, <2>1 DEF Keeps, Asks
  <2>4. Holds(p)
    BY <1>1, <2>3 DEF Keeps
  <2>5. IsFunder(p) <=> ~IsFunder(Other(p))
    BY <1>1, <2>2 DEF Pair
  <2> QED BY <1>1, <1>4, <2>2, <2>3, <2>4, <2>5 DEF Holds
<1> QED BY <1>2, <1>3, <1>5, <1>6

LEMMA RecvLockedStep ==
    ASSUME OpenInv, NEW p \in Peer, recv_funding_locked(p) PROVE OpenInv'
<1>1. PICK m : m = Head(net[p])
  OBVIOUS
<1>2. /\ Types /\ Keeps(p) /\ net[p] # <<>> /\ m.type = "funding_locked"
      /\ conf \in [Peer -> ConfType] /\ Other(p) \in Peer
  BY <1>1, BothEnds, PeerFacts DEF recv_funding_locked, Receiving, Types, TypeOK
<1>3. CASE m.id # self[p].channel_id
  <2>1. Fail(p)
    BY <1>1, <1>3 DEF recv_funding_locked
  <2> QED BY <1>1, <1>2, <1>3, <2>1, SameChannel, FailStep
<1>4. CASE m.id = self[p].channel_id
  <2>1. PICK s : s = FundingLocked(self[p], m)
    OBVIOUS
  <2>2. /\ Save(p, s) /\ net' = Read(p) /\ UNCHANGED <<chain, forced, count>>
        /\ conf' = [conf EXCEPT ![p].flag_recv = @ \cup {"FUNDINGLOCKED"}]
    BY <1>1, <1>4, <2>1 DEF recv_funding_locked
  <2>3. Saved(p) /\ Saved(Other(p)) /\ m \in Message
    BY <1>1, <1>2, <1>4, SameChannel
  <2>4. m.pt \in {0, 1}
    BY <1>2, <2>3 DEF Message
  <2>5. /\ Follows(p, self[p]) /\ self[p] \in SelfType
    BY <2>3, FollowsSelf
  <2>6. Follows(p, s) /\ s.status = self[p].status /\ s.short_channel_id = self[p].short_channel_id
    BY <2>1, <2>3, <2>4, <2>5, LockedSet
  <2>7. Waits(p)
    BY <1>2, <2>3 DEF Keeps
  <2>8. PICK c : c = [conf[p] EXCEPT !.flag_recv = @ \cup {"FUNDINGLOCKED"}]
    OBVIOUS
  <2>9. /\ c \in ConfType /\ c.loop = conf[p].loop /\ c.poll = conf[p].poll /\ c.main = conf[p].main
        /\ c.annosigns = conf[p].annosigns
    BY <1>2, <2>8 DEF ConfType
  <2>10. conf' = [conf EXCEPT ![p] = c]
    BY <1>2, <2>2, <2>8
  <2>11. MayWait(p, s, c)
    BY <2>6, <2>7, <2>9 DEF MayWait, Waits
  <2>12. /\ net' \in [Peer -> Seq(Message)] /\ net'[p] = Tail(net[p])
         /\ net'[Other(p)] = net[Other(p)]
    BY <1>2, <2>2, ReadFacts
  <2> QED BY <1>2, <2>2, <2>3, <2>6, <2>10, <2>11, <2>12, HeldStep
<1> QED BY <1>3, <1>4

LEMMA RecvSignaturesStep ==
    ASSUME OpenInv, NEW p \in Peer, recv_announcement_signatures(p) PROVE OpenInv'
<1>1. PICK m : m = Head(net[p])
  OBVIOUS
<1>2. /\ Types /\ Keeps(p) /\ net[p] # <<>> /\ m.type = "announcement_signatures"
      /\ conf \in [Peer -> ConfType] /\ Other(p) \in Peer /\ conf[p] \in ConfType
  BY <1>1, BothEnds, PeerFacts, TypeFacts DEF recv_announcement_signatures, Receiving, Types, TypeOK
<1>3. CASE self[p].fund_flag = {} \/ m.id # self[p].channel_id
  <2>1. Fail(p)
    BY <1>1, <1>3 DEF recv_announcement_signatures
  <2>2. self[p].fund_flag = {} => ~Saved(p)
    BY <1>2 DEF Keeps, Holds
  <2>3. ~(Saved(p) /\ Saved(Other(p)) /\ Request(Other(p)) = Request(p))
    BY <1>1, <1>2, <1>3, <2>2, SameChannel
  <2> QED BY <2>1, <2>3, FailStep
<1>4. CASE ~(self[p].fund_flag = {} \/ m.id # self[p].channel_id)
  <2>1. PICK b \in BOOLEAN : b = TRUE
    OBVIOUS
  <2>2. PICK A \in SUBSET {"SEND", "RECV"} : A = {"RECV"}
    OBVIOUS
  <2>3. PICK u : u = [self[p] EXCEPT !.short_channel_id = b, !.anno_flag = @ \cup A]
    OBVIOUS
  <2>4. PICK s : s = proc_anno_sigs(u)
    OBVIOUS
  <2>5. /\ Save(p, s) /\ net' = Read(p) /\ UNCHANGED <<conf, chain, forced, count>>
    BY <1>1, <1>4, <2>1, <2>2, <2>3, <2>4 DEF recv_announcement_signatures, AnnouncementSignatures
  <2>6. /\ Saved(p) /\ "SEND" \in self[Other(p)].anno_flag
        /\ chain[Request(Other(p))] >= self[Other(p)].min_depth
        /\ Request(p) = Request(Other(p)) /\ self[p].min_depth = self[Other(p)].min_depth
    BY <1>1, <1>2, <1>4, SameChannel
  <2>7. chain[Request(p)] >= self[p].min_depth
    BY <2>6
  <2>8. /\ Follows(p, self[p]) /\ self[p] \in SelfType
    BY <2>6, FollowsSelf
  <2>9. Follows(p, s) /\ s.status = self[p].status /\ s.short_channel_id
    <3>1. Signs(self[p], b, A, u)
      BY <2>3 DEF Signs
    <3> QED BY <2>1, <2>4, <2>6, <2>7, <2>8, <3>1, SignsSet
  <2>10. Waits(p)
    BY <1>2, <2>6 DEF Keeps
  <2>11. PICK c : c = conf[p]
    OBVIOUS
  <2>12. conf' = [conf EXCEPT ![p] = c]
    BY <1>2, <2>5, <2>11
  <2>13. MayWait(p, s, c)
    BY <1>2, <2>7, <2>9, <2>10, <2>11 DEF MayWait, Waits
  <2>14. /\ net' \in [Peer -> Seq(Message)] /\ net'[p] = Tail(net[p])
         /\ net'[Other(p)] = net[Other(p)] /\ UNCHANGED <<chain, forced, count>>
    BY <1>2, <2>5, ReadFacts
  <2> QED BY <1>2, <2>5, <2>6, <2>9, <2>12, <2>13, <2>14, HeldStep
<1> QED BY <1>3, <1>4

----------------------------------------------------------------------------
(* Steps of the exchange.                                                  *)

\* An end writes its channel, its database and its flags.
Writes(p, s, d, c) ==
    /\ s \in SelfType /\ d \in SelfType /\ c \in ConfType /\ c.loop = conf[p].loop
    /\ self' = [self EXCEPT ![p] = s]
    /\ db' = [db EXCEPT ![p] = d]
    /\ conf' = [conf EXCEPT ![p] = c]

\* What an end has written.
Wrote(p, s, d, c, q) ==
    /\ self' \in [Peer -> SelfType] /\ self'[p] = s /\ self'[q] = self[q]
    /\ db' \in [Peer -> SelfType] /\ db'[p] = d /\ db'[q] = db[q]
    /\ conf' \in [Peer -> ConfType] /\ conf'[p] = c /\ conf'[q] = conf[q]
    /\ (Running(p)' <=> Running(p)) /\ (Running(q)' <=> Running(q))
    /\ (Saved(q)' <=> Saved(q)) /\ (IsFunder(q)' <=> IsFunder(q)) /\ Request(q)' = Request(q)
    /\ Saved(p)' <=> d.status # "NONE"
    /\ IsFunder(p)' <=> "FUNDER" \in s.fund_flag
    /\ Request(p)' = s.channel_id[2]

LEMMA WritesFacts ==
    ASSUME Types, NEW p \in Peer, NEW s, NEW d, NEW c, Writes(p, s, d, c), NEW q, q = Other(p)
    PROVE  Wrote(p, s, d, c, q)
<1>1. /\ q \in Peer /\ q # p /\ self \in [Peer -> SelfType] /\ db \in [Peer -> SelfType]
      /\ conf \in [Peer -> ConfType]
  BY PeerFacts DEF Types, TypeOK
<1>2. self' \in [Peer -> SelfType] /\ self'[p] = s /\ self'[q] = self[q]
  BY <1>1 DEF Writes
<1>3. db' \in [Peer -> SelfType] /\ db'[p] = d /\ db'[q] = db[q]
  BY <1>1 DEF Writes
<1>4. conf' \in [Peer -> ConfType] /\ conf'[p] = c /\ conf'[q] = conf[q] /\ c.loop = conf[p].loop
  BY <1>1 DEF Writes
<1> QED BY <1>2, <1>3, <1>4 DEF Wrote, Running, Saved, IsFunder, Request

\* An end that holds no channel has nothing on its way to the other but the
\* message of the exchange.
LEMMA NothingSent ==
    ASSUME OpenInv, NEW p \in Peer, ~Saved(p), NEW q, q = Other(p), NoStep(q)
    PROVE  \A n : ~Carries(q, n)
<1>1. q \in Peer /\ Other(q) = p /\ Stream(q) /\ Types
  BY BothEnds, PeerFacts
<1> SUFFICES ASSUME NEW n, Carries(q, n) PROVE FALSE
  OBVIOUS
<1>2. FitsHeld(q, n) /\ ~IsStep(n)
  BY <1>1, Carried DEF NoStep
<1>3. n \in Message
  BY <1>1, TypeFacts DEF Carries
<1>4. n.type \in {"funding_locked", "channel_reestablish", "announcement_signatures"}
  BY <1>2, <1>3 DEF Message, IsStep
<1> QED BY <1>1, <1>2, <1>4 DEF FitsHeld

\* The channels match.
Match(p, s) ==
    LET q == Other(p) IN
    s.channel_id[2] = Request(q) /\ s.channel_id[2] # 0 =>
        /\ "FUNDER" \in s.fund_flag <=> ~IsFunder(q)
        /\ s.our = self[q].their /\ self[q].our = s.their

\* What is on its way to the end that takes the step.
Takes(p) ==
    \/ net'[p] = net[p] /\ \A n : Carries(p, n) /\ IsStep(n) => Fits(p, n)'
    \/ net[p] # <<>> /\ IsStep(Head(net[p])) /\ net'[p] = Tail(net[p])

\* What it answers.
Answers(q) ==
    \/ net'[q] = net[q]
    \/ Running(q) /\ \E m \in Message : Fits(q, m)' /\ net'[q] = net[q] \o <<m>>

LEMMA AskStep ==
    ASSUME OpenInv, NEW p \in Peer, ~Saved(p), Running(p), NoStep(Other(p)),
           NEW s, NEW d, NEW c, Writes(p, s, d, c), Match(p, s),
           s.anno_flag = {}, "FUNDING" \in s.fund_flag,
           Types', Chain', Clean', Later, Calm(Other(p)), Keeps(p)',
           Takes(p), Answers(Other(p))
    PROVE  OpenInv'
<1>1. PICK q \in Peer : q = Other(p) /\ q # p /\ Other(q) = p
  BY PeerFacts
<1>2. /\ Types /\ Keeps(p) /\ Keeps(q) /\ Pair(p) /\ Pair(q) /\ Stream(p) /\ Stream(q)
  BY <1>1, BothEnds
<1>3. /\ self'[p] = s /\ self'[q] = self[q] /\ db'[q] = db[q]
      /\ (Running(p)' <=> Running(p)) /\ (Running(q)' <=> Running(q))
      /\ (Saved(q)' <=> Saved(q)) /\ (IsFunder(q)' <=> IsFunder(q)) /\ Request(q)' = Request(q)
      /\ IsFunder(p)' <=> "FUNDER" \in s.fund_flag
      /\ Request(p)' = s.channel_id[2]
  BY <1>1, <1>2, WritesFacts DEF Wrote
<1>4. Keeps(q)'
  BY <1>1, <1>2, <1>3, KeepsCalm
<1>5. self[p].anno_flag = {}
  BY <1>2 DEF Keeps, Asks
<1>6. Pair(p)'
  BY <1>1, <1>3 DEF Pair, Match
<1>7. Pair(q)'
  <2>1. Request(q)' = Request(p)' /\ Request(q)' # 0 =>
          (IsFunder(q)' <=> ~IsFunder(p)') /\ self'[q].our = self'[p].their
    BY <1>1, <1>3 DEF Match
  <2>2. Saved(q) /\ "FUNDING" \notin self[q].fund_flag /\ ~self[q].short_channel_id => FALSE
    BY <1>1, <1>2 DEF Pair
  <2>3. /\ "RECV" \notin self[q].anno_flag
        /\ "END" \in self[q].anno_flag => {"SEND", "RECV"} \subseteq self[q].anno_flag
    BY <1>1, <1>2, <1>5 DEF Pair
  <2> QED BY <1>1, <1>3, <2>1, <2>2, <2>3 DEF Pair
<1>8. ASSUME NEW n, Carries(p, n), ~IsStep(n) PROVE Fits(p, n)'
  <2>1. FitsHeld(p, n)
    BY <1>2, <1>8, Carried
  <2>2. n.type = "announcement_signatures" =>
          ("SEND" \in self[q].anno_flag /\ chain[Request(q)] >= self[q].min_depth)'
    <3> SUFFICES ASSUME n.type = "announcement_signatures"
                 PROVE  "SEND" \in self[q].anno_flag /\ chain'[Request(q)] >= self[q].min_depth
      BY <1>3
    <3>1. Saved(q) /\ "SEND" \in self[q].anno_flag /\ chain[Request(q)] >= self[q].min_depth
      BY <1>1, <2>1 DEF FitsHeld
    <3>2. Request(q) \in Txid
      BY <1>2, <3>1, Asked DEF Keeps, Holds
    <3>3. chain'[Request(q)] >= chain[Request(q)]
      BY <3>2 DEF Later
    <3>4. chain[Request(q)] \in Int /\ chain'[Request(q)] \in Int /\ self[q].min_depth \in Nat
      <4>1. self[q].min_depth \in Nat /\ \A t \in Txid : chain[t] \in -1 .. MaxDepth
        BY <1>2, TypeFacts
      <4>2. \A t \in Txid : chain'[t] \in -1 .. MaxDepth
        BY DEF Types, TypeOK
      <4> QED BY <4>1, <4>2, <3>2
    <3>5. chain'[Request(q)] >= self[q].min_depth
      BY <3>1, <3>3, <3>4
    <3> QED BY <3>1, <3>5
  <2>3. FitsHeld(p, n)'
    BY <1>1, <1>3, <2>1, <2>2 DEF FitsHeld
  <2>4. FitsStep(p, n)'
    BY <1>8 DEF FitsStep, IsStep
  <2> QED BY <2>3, <2>4 DEF Fits
<1>9. Stream(p)'
  <2>1. CASE net'[p] = net[p] /\ \A n : Carries(p, n) /\ IsStep(n) => Fits(p, n)'
    <3>1. \A n : Carries(p, n) => Fits(p, n)'
      BY <1>8, <2>1
    <3> QED BY <1>2, <1>3, <2>1, <3>1, StreamLess
  <2>2. CASE net[p] # <<>> /\ IsStep(Head(net[p])) /\ net'[p] = Tail(net[p])
    BY <1>2, <1>3, <1>8, <2>2, StreamTaken
  <2> QED BY <2>1, <2>2 DEF Takes
<1>10. \A n : ~Carries(q, n)
  BY <1>1, NothingSent
<1>11. Stream(q)'
  <2>1. CASE net'[q] = net[q]
    <3>1. net'[q] # <<>> => Running(q)'
      BY <1>2, <1>3, <2>1 DEF Stream
    <3> QED BY <1>2, <1>10, <2>1, <3>1, StreamLess
  <2>2. CASE Running(q) /\ \E m \in Message : Fits(q, m)' /\ net'[q] = net[q] \o <<m>>
    <3>1. PICK m \in Message : Fits(q, m)' /\ net'[q] = net[q] \o <<m>>
      BY <2>2
    <3> QED BY <1>2, <1>3, <1>10, <2>2, <3>1, StreamMore
  <2> QED BY <1>1, <2>1, <2>2 DEF Answers
<1> QED BY <1>1, <1>4, <1>6, <1>7, <1>9, <1>11, FromEnds

\* An end that holds no channel takes a step and still holds none.
LEMMA CleanAsk ==
    ASSUME OpenInv, NEW p \in Peer, ~Saved(p), ~Saved(p)', NEW q, q = Other(p),
           Saved(q)' <=> Saved(q), IsFunder(q)' <=> IsFunder(q), Request(q)' = Request(q),
           UNCHANGED <<chain, forced>>, count'.crashes = count.crashes
    PROVE  Clean'
<1>1. /\ Clean /\ q \in Peer /\ Other(q) = p /\ \A r \in Peer : r = p \/ r = q
  BY BothEnds, PeerFacts
<1> SUFFICES ASSUME count.crashes = 0
             PROVE  (/\ \A r \in Peer : Saved(r) /\ IsFunder(r) =>
                           Saved(Other(r)) /\ Request(Other(r)) = Request(r)
                     /\ \A t \in Txid : chain[t] >= 0 =>
                           \E r \in Peer : Saved(r) /\ IsFunder(r) /\ Request(r) = t
                     /\ forced = {})'
  BY DEF Clean
<1>2. ~(Saved(q) /\ IsFunder(q))
  BY <1>1 DEF Clean
<1>3. ASSUME NEW t \in Txid PROVE ~(chain[t] >= 0)
  <2> SUFFICES ASSUME chain[t] >= 0 PROVE FALSE
    OBVIOUS
  <2>1. PICK r \in Peer : Saved(r) /\ IsFunder(r) /\ Request(r) = t
    BY <1>1 DEF Clean
  <2> QED BY <1>1, <1>2, <2>1
<1>4. \A r \in Peer : ~(Saved(r)' /\ IsFunder(r)')
  BY <1>1, <1>2
<1>5. \A t \in Txid : ~(chain'[t] >= 0)
  BY <1>3
<1>6. forced' = {}
  BY <1>1 DEF Clean
<1> QED BY <1>4, <1>5, <1>6

\* A request is made.
LEMMA FundingStep ==
    ASSUME OpenInv, NEW p \in Peer, NEW push \in PushSat, lnapp_funding(p, push) PROVE OpenInv'
<1>1. PICK q \in Peer : q = Other(p) /\ q # p /\ Other(q) = p
  BY PeerFacts
<1>2. PICK n : n = count.opens + 1
  OBVIOUS
<1>3. PICK id : id = <<"temp", n>>
  OBVIOUS
<1>4. PICK s : s = [self[p] EXCEPT !.channel_id = id, !.local_pt = 0,
                       !.our = FundingSat - push, !.their = push,
                       !.fund_flag = {"FUNDER", "ANNO_CH", "FUNDING"}]
  OBVIOUS
<1>5. PICK m : m = [type |-> "open_channel", push |-> push, id |-> id]
  OBVIOUS
<1>6. /\ Types /\ Chain /\ Keeps(p) /\ Keeps(q) /\ Stream(p) /\ Running(p) /\ ~Saved(p)
      /\ "FUNDING" \notin self[p].fund_flag /\ count.opens < MaxOpens
      /\ self[p] \in SelfType /\ db[p] \in SelfType /\ conf[p] \in ConfType
      /\ self \in [Peer -> SelfType] /\ db \in [Peer -> SelfType] /\ conf \in [Peer -> ConfType]
      /\ count \in [opens : 0 .. MaxOpens, drops : Nat, crashes : Nat, rejects : Nat]
      /\ count.opens \in 0 .. MaxOpens /\ MaxOpens \in Nat /\ net \in [Peer -> Seq(Message)]
  BY <1>1, BothEnds, TypeFacts, EstBoundAssumption DEF lnapp_funding, Types, TypeOK
<1>7. /\ self' = [self EXCEPT ![p] = s] /\ net' = Sent(net, p, <<m>>)
      /\ count' = [count EXCEPT !.opens = @ + 1] /\ UNCHANGED <<db, conf, chain, forced>>
  BY <1>2, <1>3, <1>4, <1>5, <1>6 DEF lnapp_funding
<1>8. push \in 0 .. FundingSat /\ FundingSat - push \in 0 .. FundingSat
  BY EstDepthAssumption
<1>9. n \in 0 .. MaxOpens /\ n \in 1 .. n /\ n # 0
  BY <1>2, <1>6
<1>10. id \in ChannelId /\ id[2] = n
  BY <1>3, <1>9 DEF ChannelId
<1>11. /\ s \in SelfType /\ s.channel_id = id /\ s.local_pt = 0 /\ s.our = FundingSat - push
       /\ s.their = push /\ s.fund_flag = {"FUNDER", "ANNO_CH", "FUNDING"}
       /\ s.txid = self[p].txid /\ s.status = self[p].status
       /\ s.short_channel_id = self[p].short_channel_id /\ s.remote_pt = self[p].remote_pt
       /\ s.anno_flag = self[p].anno_flag
  BY <1>4, <1>6, <1>8, <1>10 DEF SelfType
<1>12. Writes(p, s, db[p], conf[p])
  BY <1>6, <1>7, <1>11 DEF Writes
<1>13. /\ self' \in [Peer -> SelfType] /\ self'[p] = s /\ self'[q] = self[q]
       /\ (Running(p)' <=> Running(p)) /\ (Running(q)' <=> Running(q))
       /\ (Saved(q)' <=> Saved(q)) /\ (IsFunder(q)' <=> IsFunder(q)) /\ Request(q)' = Request(q)
       /\ IsFunder(p)' /\ Request(p)' = n
  <2>1. PICK d, c : d = db[p] /\ c = conf[p]
    OBVIOUS
  <2>2. Writes(p, s, d, c)
    BY <1>12, <2>1
  <2>3. /\ self' \in [Peer -> SelfType] /\ self'[p] = s /\ self'[q] = self[q]
        /\ (Running(p)' <=> Running(p)) /\ (Running(q)' <=> Running(q))
        /\ (Saved(q)' <=> Saved(q)) /\ (IsFunder(q)' <=> IsFunder(q)) /\ Request(q)' = Request(q)
        /\ (IsFunder(p)' <=> "FUNDER" \in s.fund_flag) /\ Request(p)' = s.channel_id[2]
    BY <1>1, <1>6, <2>2, WritesFacts DEF Wrote
  <2> QED BY <1>10, <1>11, <2>3
<1>14. /\ count' \in [opens : 0 .. MaxOpens, drops : Nat, crashes : Nat, rejects : Nat]
       /\ count'.opens = n /\ count'.crashes = count.crashes
  BY <1>2, <1>6, <1>7, <1>9
<1>15. Asks(p) /\ self[p].channel_id = <<"none", 0>> /\ self[p].txid = 0 /\ ~IsFunder(p)
  BY <1>6 DEF Keeps, Asks, IsFunder
<1>16. Request(p) = 0
  BY <1>15 DEF Request
<1>17. NoStep(q)
  BY <1>1, <1>6, <1>15, <1>16, NothingTaken
<1>18. m \in Message /\ m.type = "open_channel" /\ m.id = id /\ m.push = push
  BY <1>5, <1>8, <1>10, Messages
<1>19. /\ net' \in [Peer -> Seq(Message)] /\ net'[p] = net[p]
       /\ \/ net'[q] = net[q]
          \/ Running(q) /\ net'[q] = net[q] \o <<m>>
  BY <1>1, <1>6, <1>7, <1>18, SentFacts
<1>20. Types'
  BY <1>6, <1>7, <1>13, <1>14, <1>19 DEF Types, TypeOK
<1>21. Request(q) # n
  <2>1. Request(q) \in 0 .. count.opens
    BY <1>6 DEF Keeps, Asks, Holds, Request
  <2> QED BY <1>2, <1>6, <2>1
<1>22. Match(p, s)
  BY <1>1, <1>10, <1>11, <1>21 DEF Match
<1>23. chain[n] = -1
  <2>1. n \in Txid /\ n > count.opens
    BY <1>2, <1>6, <1>9 DEF Txid
  <2> QED BY <1>6, <2>1 DEF Chain
<1>24. Chain'
  BY <1>2, <1>6, <1>7, <1>14 DEF Chain, Txid
<1>25. ~Saved(p)'
  BY <1>6, <1>7 DEF Saved
<1>26. Clean'
  BY <1>1, <1>6, <1>7, <1>13, <1>14, <1>25, CleanAsk
<1>27. Later
  BY <1>2, <1>6, <1>7, <1>14 DEF Later, Types, TypeOK
<1>28. Calm(q)
  BY <1>7 DEF Calm, Running
<1>29. Asks(p)'
  <2>1. /\ self'[p].channel_id = <<"temp", n>> /\ n \in 1 .. count'.opens
        /\ "FUNDING" \in self'[p].fund_flag /\ self'[p].txid = 0
        /\ chain'[n] = -1
    BY <1>3, <1>7, <1>9, <1>11, <1>13, <1>14, <1>15, <1>23
  <2>2. /\ db'[p] = NewSelf
        /\ self'[p].status = "NONE" /\ ~self'[p].short_channel_id /\ self'[p].anno_flag = {}
        /\ self'[p].local_pt = 0 /\ self'[p].remote_pt = 0
        /\ ~conf'[p].funding_waiting /\ ~conf'[p].annosigns
        /\ conf'[p].main = "loop" /\ conf'[p].poll = "idle"
    BY <1>6, <1>7, <1>11, <1>13, <1>15 DEF Asks
  <2> QED BY <1>13, <2>1, <2>2 DEF Asks
<1>30. Keeps(p)'
  BY <1>25, <1>29 DEF Keeps
<1>31. Takes(p)
  <2> SUFFICES ASSUME NEW k, Carries(p, k), IsStep(k) PROVE Fits(p, k)'
    BY <1>19 DEF Takes
  <2>1. FitsStep(p, k) /\ FitsHeld(p, k)
    BY <1>6, Carried
  <2>2. k.type = "open_channel"
    BY <1>15, <1>16, <2>1 DEF FitsStep, IsStep
  <2>3. (/\ ~Saved(q) /\ IsFunder(q) /\ self[q].txid = 0
         /\ k.id = self[q].channel_id /\ Request(p) # Request(q) /\ Request(q) # 0
         /\ self[q].our = FundingSat - k.push /\ self[q].their = k.push)'
    BY <1>1, <1>13, <1>21, <2>1, <2>2 DEF FitsStep
  <2> QED BY <1>1, <2>2, <2>3 DEF Fits, FitsStep, FitsHeld
<1>32. Fits(q, m)'
  <2>1. (/\ ~Saved(p) /\ IsFunder(p) /\ self[p].txid = 0
         /\ m.id = self[p].channel_id /\ Request(q) # Request(p) /\ Request(p) # 0
         /\ self[p].our = FundingSat - m.push /\ self[p].their = m.push)'
    BY <1>9, <1>11, <1>13, <1>15, <1>18, <1>21, <1>25
  <2> QED BY <1>1, <1>18, <2>1 DEF Fits, FitsStep, FitsHeld
<1>33. Answers(q)
  BY <1>18, <1>19, <1>32 DEF Answers
<1>34. s.anno_flag = {} /\ "FUNDING" \in s.fund_flag
  BY <1>11, <1>15 DEF Asks
<1> QED BY <1>1, <1>6, <1>12, <1>17, <1>20, <1>22, <1>24, <1>26, <1>27, <1>28, <1>30, <1>31,
           <1>33, <1>34, AskStep

\* An end that holds no channel writes it in memory only, reads a step of the
\* exchange and answers with one.
LEMMA MemoryStep ==
    ASSUME OpenInv, NEW p \in Peer, ~Saved(p), Running(p), NEW q, q = Other(p), NoStep(q),
           net[p] # <<>>, IsStep(Head(net[p])),
           NEW s \in SelfType, Match(p, s), "FUNDING" \in s.fund_flag,
           s.status = "NONE", ~s.short_channel_id, s.anno_flag = {},
           s.local_pt = 0, s.remote_pt = 0,
           NEW n \in 1 .. count.opens, s.channel_id = <<"temp", n>>,
           "FUNDER" \in s.fund_flag =>
               s.txid = n /\ s.min_depth = MinDepth[q] /\ chain[n] = -1,
           "FUNDER" \notin s.fund_flag => s.txid = 0 /\ s.min_depth = MinDepth[p],
           self' = [self EXCEPT ![p] = s], UNCHANGED <<db, conf, chain, forced, count>>,
           NEW m \in Message, net' = Sent(Read(p), p, <<m>>),
           Fits(q, m)'
    PROVE  OpenInv'
<1>1. q \in Peer /\ q # p /\ Other(q) = p
  BY PeerFacts
<1>2. /\ Types /\ Chain /\ Keeps(p) /\ db[p] \in SelfType /\ conf[p] \in ConfType
      /\ db \in [Peer -> SelfType] /\ conf \in [Peer -> ConfType]
  BY BothEnds, TypeFacts DEF Types, TypeOK
<1>3. Writes(p, s, db[p], conf[p])
  BY <1>2 DEF Writes
<1>4. /\ self' \in [Peer -> SelfType] /\ self'[p] = s
      /\ (Running(p)' <=> Running(p))
      /\ (Saved(q)' <=> Saved(q)) /\ (IsFunder(q)' <=> IsFunder(q)) /\ Request(q)' = Request(q)
      /\ (IsFunder(p)' <=> "FUNDER" \in s.fund_flag) /\ Request(p)' = s.channel_id[2]
  BY <1>2, <1>3, WritesFacts DEF Wrote
<1>5. /\ Read(p) \in [Peer -> Seq(Message)] /\ Read(p)[p] = Tail(net[p]) /\ Read(p)[q] = net[q]
  BY <1>2, ReadFacts
<1>6. PICK nt : nt = Read(p)
  OBVIOUS
<1>7. /\ net' \in [Peer -> Seq(Message)] /\ net'[p] = nt[p]
      /\ \/ net'[q] = nt[q]
         \/ Running(q) /\ net'[q] = nt[q] \o <<m>>
  BY <1>5, <1>6, SentFacts
<1>8. Takes(p) /\ Answers(q)
  BY <1>5, <1>6, <1>7 DEF Takes, Answers
<1>9. Types'
  BY <1>2, <1>4, <1>7 DEF Types, TypeOK
<1>10. Chain' /\ Later
  BY <1>2 DEF Chain, Later, Types, TypeOK
<1>11. ~Saved(p)'
  BY DEF Saved
<1>12. Clean'
  BY <1>4, <1>11, CleanAsk
<1>13. Calm(q)
  BY DEF Calm, Running
<1>14. Asks(p)
  BY <1>2 DEF Keeps
<1>15. Asks(p)'
  <2>1. /\ db'[p] = NewSelf
        /\ self'[p].status = "NONE" /\ ~self'[p].short_channel_id /\ self'[p].anno_flag = {}
        /\ self'[p].local_pt = 0 /\ self'[p].remote_pt = 0
        /\ ~conf'[p].funding_waiting /\ ~conf'[p].annosigns
        /\ conf'[p].main = "loop" /\ conf'[p].poll = "idle"
    BY <1>4, <1>14 DEF Asks
  <2>2. Request(p)' = n /\ self'[p].channel_id = <<"temp", n>> /\ n \in 1 .. count'.opens
    BY <1>4
  <2>3. "FUNDER" \in s.fund_flag => s.txid = n /\ s.min_depth = MinDepth[Other(p)] /\ chain'[n] = -1
    OBVIOUS
  <2> QED BY <1>4, <2>1, <2>2, <2>3 DEF Asks
<1>16. Keeps(p)'
  BY <1>11, <1>15 DEF Keeps
<1> QED BY <1>3, <1>8, <1>9, <1>10, <1>12, <1>13, <1>16, AskStep

LEMMA RecvOpenStep ==
    ASSUME OpenInv, NEW p \in Peer, recv_open_channel(p) PROVE OpenInv'
<1>1. PICK q \in Peer : q = Other(p) /\ q # p /\ Other(q) = p
  BY PeerFacts
<1>2. PICK m : m = Head(net[p])
  OBVIOUS
<1>3. /\ Types /\ Keeps(p) /\ Keeps(q) /\ Pair(p) /\ Stream(p) /\ Running(p) /\ net[p] # <<>>
      /\ m.type = "open_channel" /\ self[p] \in SelfType /\ self[q] \in SelfType
  BY <1>1, <1>2, BothEnds, TypeFacts DEF recv_open_channel, Receiving
<1>4. FitsStep(p, m) /\ m \in Message
  BY <1>2, <1>3, ReadFacts, Carried
<1>5. /\ ~Saved(q) /\ IsFunder(q) /\ self[q].txid = 0
      /\ m.id = self[q].channel_id /\ Request(p) # Request(q) /\ Request(q) # 0
      /\ self[q].our = FundingSat - m.push /\ self[q].their = m.push
  BY <1>1, <1>3, <1>4 DEF FitsStep
<1>6. CASE self[p].fund_flag \cap {"FUNDER", "FUNDING"} # {} \/ self[p].short_channel_id
  <2>1. Fail(p)
    BY <1>6 DEF recv_open_channel
  <2> QED BY <1>1, <1>5, <2>1, FailStep
<1>7. CASE ~(self[p].fund_flag \cap {"FUNDER", "FUNDING"} # {} \/ self[p].short_channel_id)
  <2>1. ~Saved(p) /\ ~IsFunder(p)
    BY <1>1, <1>3, <1>5, <1>7 DEF Pair, IsFunder
  <2>2. Asks(p) /\ self[p].channel_id = <<"none", 0>> /\ self[p].txid = 0
    BY <1>3, <1>7, <2>1 DEF Keeps, Asks
  <2>3. PICK n : n = Request(q)
    OBVIOUS
  <2>4. n \in 1 .. count.opens /\ m.id = <<"temp", n>> /\ m.id[2] = n
    BY <1>3, <1>5, <2>3 DEF Keeps, Asks, Request
  <2>5. m.id \in ChannelId /\ m.push \in 0 .. FundingSat /\ FundingSat - m.push \in 0 .. FundingSat
    BY <1>3, <1>5, TypeFacts
  <2>6. MinDepth[p] \in Nat
    BY EstDepthAssumption
  <2>7. PICK s : s = [self[p] EXCEPT !.channel_id = m.id,
                       !.our = m.push, !.their = their_msat(m.push),
                       !.local_pt = 0, !.remote_pt = 0, !.min_depth = MinDepth[p],
                       !.fund_flag = {"ANNO_CH", "FUNDING"}]
    OBVIOUS
  <2>8. their_msat(m.push) = FundingSat - m.push
    BY DEF their_msat
  <2>9. /\ s \in SelfType /\ s.channel_id = m.id /\ s.our = m.push /\ s.their = FundingSat - m.push
        /\ s.local_pt = 0 /\ s.remote_pt = 0 /\ s.min_depth = MinDepth[p]
        /\ s.fund_flag = {"ANNO_CH", "FUNDING"} /\ s.txid = self[p].txid
        /\ s.status = self[p].status /\ s.short_channel_id = self[p].short_channel_id
        /\ s.anno_flag = self[p].anno_flag
    BY <1>3, <2>5, <2>6, <2>7, <2>8 DEF SelfType
  <2>10. PICK a : a = [type |-> "accept_channel", id |-> m.id, min_depth |-> MinDepth[p]]
    OBVIOUS
  <2>11. a \in Message /\ a.type = "accept_channel" /\ a.id = m.id /\ a.min_depth = MinDepth[p]
    BY <2>5, <2>6, <2>10, Messages
  <2>12. /\ self' = [self EXCEPT ![p] = s] /\ UNCHANGED <<db, conf, chain, forced, count>>
         /\ net' = Sent(Read(p), p, <<a>>)
    BY <1>2, <1>7, <2>7, <2>10 DEF recv_open_channel
  <2>13. Match(p, s)
    BY <1>1, <1>5, <2>9 DEF Match
  <2>14. NoStep(q)
    BY <1>1, <1>3, <1>4, <2>1, OpenTaken
  <2>15. /\ "FUNDING" \in s.fund_flag /\ "FUNDER" \notin s.fund_flag /\ s.txid = 0
         /\ s.status = "NONE" /\ ~s.short_channel_id /\ s.anno_flag = {}
         /\ s.channel_id = <<"temp", n>>
    BY <2>2, <2>4, <2>9 DEF Asks
  <2>16. /\ self'[p] = s /\ self'[q] = self[q]
         /\ ~Saved(p)' /\ ~Saved(q)' /\ IsFunder(q)' /\ ~IsFunder(p)'
         /\ Request(p)' = n /\ Request(q)' = n
    <3>1. self'[p] = s /\ self'[q] = self[q]
      BY <1>1, <1>3, <2>12 DEF Types, TypeOK
    <3> QED BY <1>5, <2>1, <2>3, <2>4, <2>9, <2>12, <2>15, <3>1 DEF Saved, IsFunder, Request
  <2>17. (/\ ~Saved(q) /\ ~Saved(p) /\ (IsFunder(q) <=> ~IsFunder(p))
          /\ a.id = self[q].channel_id /\ Request(q) = Request(p) /\ Request(q) # 0
          /\ IsFunder(q) /\ self[q].txid = 0 /\ a.min_depth = MinDepth[p])'
    BY <1>5, <2>3, <2>11, <2>16
  <2>18. Fits(q, a)'
    BY <1>1, <2>11, <2>17 DEF Fits, FitsStep, FitsHeld
  <2>19. IsStep(Head(net[p]))
    BY <1>2, <1>3 DEF IsStep
  <2> QED BY <1>1, <1>3, <2>1, <2>4, <2>9, <2>11, <2>12, <2>13, <2>14, <2>15, <2>18, <2>19, MemoryStep
<1> QED BY <1>6, <1>7

LEMMA RecvAcceptStep ==
    ASSUME OpenInv, NEW p \in Peer, recv_accept_channel(p) PROVE OpenInv'
<1>1. PICK q \in Peer : q = Other(p) /\ q # p /\ Other(q) = p
  BY PeerFacts
<1>2. PICK m : m = Head(net[p])
  OBVIOUS
<1>3. /\ Types /\ Keeps(p) /\ Keeps(q) /\ Pair(p) /\ Pair(q) /\ Stream(p) /\ Running(p)
      /\ net[p] # <<>> /\ m.type = "accept_channel" /\ self[p] \in SelfType
      /\ self[p].channel_id \in ChannelId /\ Request(p) \in 0 .. MaxOpens
      /\ self[p].our \in 0 .. FundingSat /\ self[p].their \in 0 .. FundingSat
  BY <1>1, <1>2, BothEnds, TypeFacts DEF recv_accept_channel, Receiving
<1>4. FitsStep(p, m) /\ m \in Message
  BY <1>2, <1>3, ReadFacts, Carried
<1>5. /\ ~Saved(p) /\ ~Saved(q) /\ IsFunder(p) /\ ~IsFunder(q)
      /\ m.id = self[p].channel_id /\ Request(p) = Request(q) /\ Request(p) # 0
      /\ self[p].txid = 0 /\ m.min_depth = MinDepth[q]
  BY <1>1, <1>3, <1>4 DEF FitsStep
<1>6. ~("FUNDER" \notin self[p].fund_flag \/ m.id # self[p].channel_id)
  BY <1>5 DEF IsFunder
<1>7. PICK n : n = Request(p)
  OBVIOUS
<1>8. /\ Asks(p) /\ self[p].channel_id = <<"temp", n>> /\ n \in 1 .. count.opens
      /\ "FUNDING" \in self[p].fund_flag /\ chain[n] = -1
  BY <1>3, <1>5, <1>7 DEF Keeps, Asks, IsFunder
<1>9. self[p].channel_id[2] = n /\ n \in 0 .. MaxOpens /\ MinDepth[q] \in Nat
  BY <1>3, <1>7, EstDepthAssumption DEF Request
<1>10. PICK s : s = AcceptChannel(self[p], m)
  OBVIOUS
<1>11. s = [self[p] EXCEPT !.remote_pt = 0, !.min_depth = MinDepth[q], !.txid = n]
  BY <1>5, <1>9, <1>10 DEF AcceptChannel
<1>12. /\ s \in SelfType /\ s.remote_pt = 0 /\ s.min_depth = MinDepth[q] /\ s.txid = n
       /\ s.channel_id = self[p].channel_id /\ s.our = self[p].our /\ s.their = self[p].their
       /\ s.local_pt = self[p].local_pt /\ s.fund_flag = self[p].fund_flag
       /\ s.status = self[p].status /\ s.short_channel_id = self[p].short_channel_id
       /\ s.anno_flag = self[p].anno_flag
  BY <1>3, <1>9, <1>11 DEF SelfType
<1>13. PICK g : g = create_to_remote(s)
  OBVIOUS
<1>14. g \in Seq(Nat)
  <2>1. s.txid \in Nat /\ s.remote_pt \in Nat /\ s.our \in Nat /\ s.their \in Nat
    BY <1>3, <1>9, <1>12, EstDepthAssumption, EstBoundAssumption
  <2> QED BY <1>13, <2>1 DEF create_to_remote
<1>15. PICK a : a = [type |-> "funding_created", id |-> m.id, txid |-> s.txid, signature |-> g]
  OBVIOUS
<1>16. a \in Message /\ a.type = "funding_created" /\ a.id = m.id /\ a.txid = n
  BY <1>3, <1>5, <1>9, <1>12, <1>14, <1>15, Messages
<1>17. /\ self' = [self EXCEPT ![p] = s] /\ UNCHANGED <<db, conf, chain, forced, count>>
       /\ net' = Sent(Read(p), p, <<a>>)
  BY <1>2, <1>6, <1>10, <1>13, <1>15 DEF recv_accept_channel
<1>18. Match(p, s)
  <2>1. self[p].our = self[q].their /\ self[q].our = self[p].their
    BY <1>1, <1>3, <1>5 DEF Pair
  <2>2. "FUNDER" \in s.fund_flag /\ ~IsFunder(q)
    BY <1>5, <1>12 DEF IsFunder
  <2> QED BY <1>1, <1>12, <2>1, <2>2 DEF Match
<1>19. NoStep(q)
  BY <1>1, <1>3, <1>4, AcceptTaken
<1>20. /\ "FUNDING" \in s.fund_flag /\ "FUNDER" \in s.fund_flag
       /\ s.status = "NONE" /\ ~s.short_channel_id /\ s.anno_flag = {}
       /\ s.channel_id = <<"temp", n>> /\ s.local_pt = 0
  BY <1>5, <1>8, <1>12 DEF Asks, IsFunder
<1>21. /\ self'[p] = s /\ self'[q] = self[q]
       /\ ~Saved(p)' /\ ~Saved(q)' /\ IsFunder(p)' /\ ~IsFunder(q)'
       /\ Request(p)' = n /\ Request(q)' = n
  <2>1. self'[p] = s /\ self'[q] = self[q]
    BY <1>1, <1>3, <1>17 DEF Types, TypeOK
  <2> QED BY <1>5, <1>7, <1>9, <1>12, <1>17, <1>20, <2>1 DEF Saved, IsFunder, Request
<1>22. self[q].channel_id = self[p].channel_id
  BY <1>3, <1>5, <1>7, <1>8 DEF Keeps, Asks, Request
<1>23. (/\ ~Saved(q) /\ ~Saved(p) /\ (IsFunder(q) <=> ~IsFunder(p))
        /\ a.id = self[q].channel_id /\ Request(q) = Request(p) /\ Request(q) # 0
        /\ IsFunder(p) /\ self[p].txid = Request(p) /\ a.txid = Request(p))'
  BY <1>5, <1>7, <1>12, <1>16, <1>21, <1>22
<1>24. Fits(q, a)'
  BY <1>1, <1>16, <1>23 DEF Fits, FitsStep, FitsHeld
<1>25. IsStep(Head(net[p]))
  BY <1>2, <1>3 DEF IsStep
<1> QED BY <1>1, <1>3, <1>5, <1>8, <1>12, <1>16, <1>17, <1>18, <1>19, <1>20, <1>24, <1>25, MemoryStep

\* The fundee has refused.
LEMMA RecvErrorStep ==
    ASSUME OpenInv, NEW p \in Peer, recv_error(p) PROVE OpenInv'
<1>1. PICK q \in Peer : q = Other(p) /\ q # p /\ Other(q) = p
  BY PeerFacts
<1>2. PICK m : m = Head(net[p])
  OBVIOUS
<1>3. /\ Types /\ Chain /\ Keeps(p) /\ Keeps(q) /\ Pair(p) /\ Pair(q) /\ Stream(p) /\ Stream(q)
      /\ Running(p) /\ net[p] # <<>> /\ m.type = "error"
      /\ self[p] \in SelfType /\ conf[p] \in ConfType
      /\ self \in [Peer -> SelfType] /\ conf \in [Peer -> ConfType] /\ net \in [Peer -> Seq(Message)]
  BY <1>1, <1>2, BothEnds, TypeFacts DEF recv_error, Receiving, Types, TypeOK
<1>4. FitsStep(p, m)
  BY <1>2, <1>3, ReadFacts, Carried
<1>5. ~Saved(p) /\ IsFunder(p) /\ ~Running(q)
  BY <1>1, <1>3, <1>4 DEF FitsStep
<1>6. net[q] = <<>>
  BY <1>3, <1>5 DEF Stream
<1>7. /\ Asks(p) /\ "FUNDING" \in self[p].fund_flag
  BY <1>3, <1>5 DEF Keeps, Asks, IsFunder
<1>8. PICK s : s = free_establish(self[p])
  OBVIOUS
<1>9. /\ s \in SelfType /\ s.fund_flag = (self[p].fund_flag \ {"FUNDING"}) \cup {"OPENED"}
      /\ s.channel_id = self[p].channel_id /\ s.our = self[p].our /\ s.their = self[p].their
      /\ s.local_pt = self[p].local_pt /\ s.remote_pt = self[p].remote_pt
      /\ s.txid = self[p].txid /\ s.min_depth = self[p].min_depth
      /\ s.status = self[p].status /\ s.short_channel_id = self[p].short_channel_id
      /\ s.anno_flag = self[p].anno_flag
  BY <1>3, <1>8 DEF free_establish, SelfType
<1>10. PICK c : c = [conf[p] EXCEPT !.loop = FALSE, !.funding_waiting = FALSE]
  OBVIOUS
<1>11. /\ c \in ConfType /\ ~c.loop /\ ~c.funding_waiting /\ c.main = conf[p].main
       /\ c.poll = conf[p].poll /\ c.annosigns = conf[p].annosigns
  BY <1>3, <1>10 DEF ConfType
<1>12. /\ self' = [self EXCEPT ![p] = s] /\ conf' = [conf EXCEPT ![p] = c]
       /\ net' = [net EXCEPT ![p] = <<>>] /\ UNCHANGED <<db, chain, forced, count>>
  BY <1>3, <1>7, <1>8, <1>10 DEF recv_error
<1>13. /\ self' \in [Peer -> SelfType] /\ self'[p] = s /\ self'[q] = self[q]
       /\ conf' \in [Peer -> ConfType] /\ conf'[p] = c /\ conf'[q] = conf[q]
       /\ net' \in [Peer -> Seq(Message)] /\ net'[p] = <<>> /\ net'[q] = <<>>
  BY <1>1, <1>3, <1>6, <1>9, <1>11, <1>12
<1>14. Types'
  BY <1>3, <1>12, <1>13 DEF Types, TypeOK
<1>15. /\ (Saved(p)' <=> Saved(p)) /\ (Saved(q)' <=> Saved(q)) /\ IsFunder(p)'
       /\ (IsFunder(q)' <=> IsFunder(q)) /\ Request(p)' = Request(p) /\ Request(q)' = Request(q)
       /\ ~Running(p)' /\ ~Running(q)'
  BY <1>5, <1>9, <1>11, <1>12, <1>13 DEF Saved, IsFunder, Request, Running
<1>16. Chain' /\ Later
  BY <1>3, <1>12 DEF Chain, Later, Types, TypeOK
<1>17. Clean'
  BY <1>1, <1>5, <1>12, <1>15, CleanAsk
<1>18. Keeps(q)'
  <2>1. Calm(q)
    BY <1>12, <1>13 DEF Calm, Running
  <2> QED BY <1>3, <1>12, <1>13, <1>14, <1>16, <2>1, KeepsCalm
<1>19. Asks(p)'
  <2>1. /\ db'[p] = NewSelf
        /\ self'[p].status = "NONE" /\ ~self'[p].short_channel_id /\ self'[p].anno_flag = {}
        /\ self'[p].local_pt = 0 /\ self'[p].remote_pt = 0
        /\ ~conf'[p].funding_waiting /\ ~conf'[p].annosigns
        /\ conf'[p].main = "loop" /\ conf'[p].poll = "idle"
    BY <1>3, <1>7, <1>9, <1>11, <1>12, <1>13 DEF Asks
  <2>2. /\ self[p].channel_id = <<"temp", Request(p)>> /\ Request(p) \in 1 .. count.opens
        /\ self[p].txid \in {0, Request(p)} /\ chain[Request(p)] = -1
        /\ self[p].txid # 0 => self[p].min_depth = MinDepth[Other(p)]
    BY <1>3, <1>5, <1>7 DEF Asks, IsFunder
  <2>3. /\ self'[p].channel_id = <<"temp", Request(p)'>> /\ Request(p)' \in 1 .. count'.opens
        /\ self'[p].txid \in {0, Request(p)'} /\ chain'[Request(p)'] = -1
        /\ self'[p].txid # 0 => self'[p].min_depth = MinDepth[Other(p)]
    BY <1>9, <1>12, <1>13, <1>15, <2>2
  <2> QED BY <1>15, <2>1, <2>3 DEF Asks
<1>20. Keeps(p)'
  BY <1>5, <1>15, <1>19 DEF Keeps
<1>21. Pair(p)'
  BY <1>1, <1>3, <1>5, <1>9, <1>13, <1>15 DEF Pair
<1>22. Pair(q)'
  BY <1>1, <1>3, <1>5, <1>9, <1>13, <1>15 DEF Pair
<1>23. Stream(p)' /\ Stream(q)'
  BY <1>13 DEF Stream, Once
<1> QED BY <1>1, <1>14, <1>16, <1>17, <1>18, <1>20, <1>21, <1>22, <1>23, FromEnds

\* The channel an end saves at the end of the exchange.
SavesWell(p, s, n) ==
    /\ s \in SelfType /\ s.channel_id = <<"funding", n>> /\ s.txid = n
    /\ s.status = "ESTABLISH" /\ ~s.short_channel_id /\ s.anno_flag = {}
    /\ s.local_pt = 1 /\ s.signature = <<n, 0, s.our, s.their>>
    /\ s.fund_flag = self[p].fund_flag /\ "FUNDING" \in s.fund_flag
    /\ s.our = self[p].our /\ s.their = self[p].their
    /\ s.min_depth = MinDepth[IF IsFunder(p) THEN Other(p) ELSE p]

\* start_funding_wait.
LEMMA SaveStep ==
    ASSUME OpenInv, NEW p \in Peer, ~Saved(p), Running(p), NEW q, q = Other(p), NoStep(q),
           net[p] # <<>>, IsStep(Head(net[p])), NEW n, n = Request(p), n \in 1 .. count.opens,
           NEW s, SavesWell(p, s, n), Save(p, s),
           conf' = [conf EXCEPT ![p].funding_waiting = TRUE],
           chain' \in [Txid -> -1 .. MaxDepth],
           \A t \in Txid : chain'[t] = chain[t] \/ (t = n /\ IsFunder(p) /\ chain'[t] >= chain[t]),
           IsFunder(p) => chain'[n] >= 0,
           UNCHANGED <<forced, count>>, Clean',
           net' \in [Peer -> Seq(Message)], net'[p] = Tail(net[p]), Answers(q)
    PROVE  OpenInv'
<1>1. q \in Peer /\ q # p /\ Other(q) = p
  BY PeerFacts
<1>2. /\ Types /\ Chain /\ Keeps(p) /\ Keeps(q) /\ Pair(p) /\ Pair(q) /\ conf[p] \in ConfType
      /\ conf \in [Peer -> ConfType] /\ chain \in [Txid -> -1 .. MaxDepth] /\ count.opens \in Nat
      /\ n \in Nat /\ n # 0
  <2>1. Types /\ Chain /\ Keeps(p) /\ Keeps(q) /\ Pair(p) /\ Pair(q)
    BY BothEnds
  <2>2. count.opens \in Nat
    BY <2>1, Asked
  <2>3. conf \in [Peer -> ConfType] /\ chain \in [Txid -> -1 .. MaxDepth]
    BY <2>1 DEF Types, TypeOK
  <2>4. n \in Nat /\ n # 0
    BY <2>2
  <2> QED BY <2>1, <2>2, <2>3, <2>4
<1>3. Asks(p)
  BY <1>2 DEF Keeps
<1>4. PICK c : c = [conf[p] EXCEPT !.funding_waiting = TRUE]
  OBVIOUS
<1>5. /\ c \in ConfType /\ c.loop = conf[p].loop /\ c.main = conf[p].main /\ c.poll = conf[p].poll
      /\ c.annosigns = conf[p].annosigns
  BY <1>2, <1>4 DEF ConfType
<1>6. conf' = [conf EXCEPT ![p] = c]
  BY <1>2, <1>4
<1>7. Writes(p, s, s, c)
  BY <1>5, <1>6 DEF Writes, SavesWell, Save
<1>8. /\ self' \in [Peer -> SelfType] /\ self'[p] = s /\ self'[q] = self[q]
      /\ db' \in [Peer -> SelfType] /\ db'[p] = s
      /\ conf' \in [Peer -> ConfType] /\ conf'[p] = c /\ conf'[q] = conf[q]
      /\ (Running(q)' <=> Running(q))
      /\ (Saved(p)' <=> s.status # "NONE") /\ (IsFunder(p)' <=> "FUNDER" \in s.fund_flag)
      /\ Request(p)' = s.channel_id[2]
  <2>1. Wrote(p, s, s, c, q)
    BY <1>2, <1>7, WritesFacts
  <2> QED BY <2>1 DEF Wrote
<1>9. Saved(p)' /\ Request(p)' = n /\ (IsFunder(p)' <=> IsFunder(p))
  BY <1>8 DEF SavesWell, IsFunder
<1>10. Types'
  <2>1. TypeOK'
    BY <1>2, <1>8 DEF Types, TypeOK
  <2> QED BY <1>2, <2>1 DEF Types
<1>11. Match(p, s)
  <2>1. s.channel_id[2] = n
    BY DEF SavesWell
  <2>2. n = Request(q) => /\ IsFunder(p) <=> ~IsFunder(q)
                          /\ self[p].our = self[q].their /\ self[q].our = self[p].their
    BY <1>1, <1>2 DEF Pair
  <2>3. "FUNDER" \in s.fund_flag <=> IsFunder(p)
    BY DEF SavesWell, IsFunder
  <2>4. s.our = self[p].our /\ s.their = self[p].their
    BY DEF SavesWell
  <2> QED BY <2>1, <2>2, <2>3, <2>4 DEF Match
<1>12. Chain'
  <2> SUFFICES ASSUME NEW t \in Txid, t > count.opens PROVE chain'[t] = -1
    BY DEF Chain
  <2>1. t # n
    BY <1>2
  <2> QED BY <1>2, <2>1 DEF Chain
<1>13. Later
  <2>1. \A t \in Txid : chain[t] \in Int
    BY <1>2
  <2>2. \A t \in Txid : chain'[t] >= chain[t]
    BY <2>1
  <2> QED BY <1>2, <2>2, TypeFacts DEF Later
<1>14. Calm(q)
  <2>1. ~Saved(q) /\ IsFunder(q) => Request(q) \in Txid
    BY <1>2, Asked DEF Keeps, Asks, IsFunder
  <2>2. Request(q) = n => ~(IsFunder(p) /\ IsFunder(q))
    BY <1>2 DEF Pair
  <2> QED BY <1>8, <2>1, <2>2 DEF Calm
<1>15. Stored(p)'
  BY <1>8 DEF Stored, IsFunder
<1>16. Holds(p)'
  <2>1. self'[p].fund_flag \cap {"FUNDING", "OPENED"} # {}
    BY <1>8 DEF SavesWell
  <2>2. self'[p].min_depth = MinDepth[IF IsFunder(p)' THEN Other(p) ELSE p]
    BY <1>8, <1>9 DEF SavesWell
  <2>3. /\ self'[p].status # "NONE" /\ Request(p)' \in 1 .. count'.opens
        /\ self'[p].channel_id = <<"funding", Request(p)'>> /\ self'[p].txid = Request(p)'
        /\ self'[p].local_pt = 1
        /\ self'[p].signature = <<Request(p)', 0, self'[p].our, self'[p].their>>
        /\ IsFunder(p)' => chain'[Request(p)'] >= 0
    BY <1>8, <1>9 DEF SavesWell
  <2> QED BY <2>1, <2>2, <2>3 DEF Holds
<1>17. Waits(p)'
  BY <1>3, <1>5, <1>8 DEF Waits, SavesWell, Asks
<1>18. Keeps(p)'
  BY <1>9, <1>15, <1>16, <1>17 DEF Keeps
<1>19. s.anno_flag = {} /\ "FUNDING" \in s.fund_flag
  BY DEF SavesWell
<1>20. Takes(p)
  BY DEF Takes
<1> QED BY <1>7, <1>10, <1>11, <1>12, <1>13, <1>14, <1>18, <1>19, <1>20, AskStep

LEMMA RecvCreatedStep ==
    ASSUME OpenInv, NEW p \in Peer, recv_funding_created(p) PROVE OpenInv'
<1>1. PICK q \in Peer : q = Other(p) /\ q # p /\ Other(q) = p
  BY PeerFacts
<1>2. PICK m : m = Head(net[p])
  OBVIOUS
<1>3. PICK u : u = FundingCreated(self[p], m)
  OBVIOUS
<1>4. /\ Types /\ Clean /\ Keeps(p) /\ Keeps(q) /\ Pair(p) /\ Pair(q) /\ Stream(p) /\ Running(p)
      /\ net[p] # <<>> /\ m.type = "funding_created" /\ self[p] \in SelfType
      /\ Request(p) \in 0 .. MaxOpens
      /\ self[p].our \in 0 .. FundingSat /\ self[p].their \in 0 .. FundingSat
      /\ \A r \in Peer : r = p \/ r = q
      /\ chain \in [Txid -> -1 .. MaxDepth] /\ self \in [Peer -> SelfType] /\ db \in [Peer -> SelfType]
  BY <1>1, <1>2, BothEnds, TypeFacts, PeerFacts DEF recv_funding_created, Receiving, Types, TypeOK
<1>5. FitsStep(p, m) /\ m \in Message
  BY <1>2, <1>4, ReadFacts, Carried
<1>6. /\ ~Saved(p) /\ ~Saved(q) /\ ~IsFunder(p) /\ IsFunder(q)
      /\ m.id = self[p].channel_id /\ Request(p) = Request(q) /\ Request(p) # 0
      /\ self[q].txid = Request(q) /\ m.txid = Request(q)
  BY <1>1, <1>4, <1>5 DEF FitsStep
<1>7. CASE \/ "FUNDER" \in self[p].fund_flag \/ m.id # self[p].channel_id
           \/ m.signature # create_to_local(u)
  <2>1. Fail(p)
    BY <1>2, <1>3, <1>7 DEF recv_funding_created
  <2> QED BY <1>6, <2>1, FailStep
<1>8. CASE ~(\/ "FUNDER" \in self[p].fund_flag \/ m.id # self[p].channel_id
             \/ m.signature # create_to_local(u))
  <2>1. PICK n : n = Request(p)
    OBVIOUS
  <2>2. /\ Asks(p) /\ n \in 1 .. count.opens /\ "FUNDING" \in self[p].fund_flag
        /\ self[p].min_depth = MinDepth[p] /\ self[p].local_pt = 0
    BY <1>4, <1>6, <2>1 DEF Keeps, Asks, Request
  <2>3. m.signature \in Seq(Nat) /\ n \in 0 .. MaxOpens
    BY <1>4, <1>5, <2>1 DEF Message
  <2>4. <<"funding", n>> \in ChannelId /\ m.txid = n
    BY <1>6, <2>1, <2>3 DEF ChannelId
  <2>5. u = [self[p] EXCEPT !.txid = n, !.signature = m.signature, !.channel_id = <<"funding", n>>]
    BY <1>3, <2>4 DEF FundingCreated
  <2>6. /\ u \in SelfType /\ u.txid = n /\ u.signature = m.signature
        /\ u.channel_id = <<"funding", n>> /\ u.our = self[p].our /\ u.their = self[p].their
        /\ u.local_pt = self[p].local_pt /\ u.fund_flag = self[p].fund_flag
        /\ u.status = self[p].status /\ u.short_channel_id = self[p].short_channel_id
        /\ u.anno_flag = self[p].anno_flag /\ u.min_depth = self[p].min_depth
        /\ u.remote_pt \in {0, 1}
    BY <1>4, <2>3, <2>4, <2>5 DEF SelfType
  <2>7. PICK s : s = start_funding_wait(u)
    OBVIOUS
  <2>8. /\ s \in SelfType /\ s.txid = u.txid /\ s.signature = u.signature
        /\ s.channel_id = u.channel_id /\ s.our = u.our /\ s.their = u.their
        /\ s.local_pt = 1 /\ s.fund_flag = u.fund_flag /\ s.status = "ESTABLISH"
        /\ s.short_channel_id = u.short_channel_id /\ s.anno_flag = u.anno_flag
        /\ s.min_depth = u.min_depth
    BY <2>6, <2>7 DEF start_funding_wait, SelfType
  <2>9. u.signature = <<n, 0, u.our, u.their>>
    BY <1>8, <2>2, <2>6 DEF create_to_local
  <2>10. SavesWell(p, s, n)
    BY <1>6, <2>2, <2>6, <2>8, <2>9 DEF SavesWell, Asks
  <2>11. PICK g : g = create_to_remote(u)
    OBVIOUS
  <2>12. g \in Seq(Nat)
    <3>1. u.txid \in Nat /\ u.remote_pt \in Nat /\ u.our \in Nat /\ u.their \in Nat
      BY <1>4, <2>3, <2>6, EstDepthAssumption, EstBoundAssumption
    <3> QED BY <2>11, <3>1 DEF create_to_remote
  <2>13. PICK a : a = [type |-> "funding_signed", id |-> FundingId(u), signature |-> g]
    OBVIOUS
  <2>14. FundingId(u) \in ChannelId
    BY <2>4, <2>6 DEF FundingId
  <2>15. a \in Message /\ a.type = "funding_signed"
    BY <2>12, <2>13, <2>14, Messages
  <2>16. /\ Save(p, s) /\ conf' = [conf EXCEPT ![p].funding_waiting = TRUE]
         /\ net' = Sent(Read(p), p, <<a>>) /\ UNCHANGED <<chain, forced, count>>
    BY <1>2, <1>3, <1>8, <2>7, <2>11, <2>13 DEF recv_funding_created
  <2>17. PICK nt : nt = Read(p)
    OBVIOUS
  <2>18. nt \in [Peer -> Seq(Message)] /\ nt[p] = Tail(net[p]) /\ nt[q] = net[q]
    BY <1>1, <1>4, <2>17, ReadFacts
  <2>19. /\ net' \in [Peer -> Seq(Message)] /\ net'[p] = nt[p]
         /\ \/ net'[q] = nt[q]
            \/ Running(q) /\ net'[q] = nt[q] \o <<a>>
    BY <1>1, <2>15, <2>16, <2>17, <2>18, SentFacts
  <2>20. self'[p] = s /\ self'[q] = self[q] /\ db'[p] = s /\ db'[q] = db[q]
    BY <1>1, <1>4, <2>16 DEF Save
  <2>21. /\ Saved(p)' /\ ~Saved(q)' /\ IsFunder(q)' /\ ~IsFunder(p)'
         /\ Request(p)' = n /\ Request(q)' = n
    BY <1>6, <2>1, <2>6, <2>8, <2>20 DEF Saved, IsFunder, Request
  <2>22. (/\ ~Saved(q) /\ IsFunder(q) /\ self[q].txid # 0
          /\ Saved(p) /\ Request(p) = Request(q))'
    BY <1>6, <2>20, <2>21
  <2>23. Fits(q, a)'
    BY <1>1, <2>15, <2>22 DEF Fits, FitsStep, FitsHeld
  <2>24. Answers(q)
    BY <2>15, <2>18, <2>19, <2>23 DEF Answers
  <2>25. Clean'
    <3> SUFFICES ASSUME count.crashes = 0
                 PROVE  (/\ \A r \in Peer : Saved(r) /\ IsFunder(r) =>
                               Saved(Other(r)) /\ Request(Other(r)) = Request(r)
                         /\ \A t \in Txid : chain[t] >= 0 =>
                               \E r \in Peer : Saved(r) /\ IsFunder(r) /\ Request(r) = t
                         /\ forced = {})'
      BY <2>16 DEF Clean
    <3>1. \A r \in Peer : ~(Saved(r)' /\ IsFunder(r)')
      BY <1>4, <2>21
    <3>2. \A r \in Peer : ~Saved(r)
      BY <1>4, <1>6
    <3>3. \A t \in Txid : ~(chain[t] >= 0)
      BY <1>4, <3>2 DEF Clean
    <3>4. forced' = {} /\ chain' = chain
      BY <1>4, <2>16 DEF Clean
    <3> QED BY <3>1, <3>3, <3>4
  <2>26. NoStep(q)
    BY <1>1, <1>4, <1>5, CreatedTaken
  <2>27. IsStep(Head(net[p]))
    BY <1>2, <1>4 DEF IsStep
  <2>28. /\ chain' \in [Txid -> -1 .. MaxDepth] /\ net'[p] = Tail(net[p])
         /\ \A t \in Txid : chain'[t] = chain[t] \/ (t = n /\ IsFunder(p) /\ chain'[t] >= chain[t])
    BY <1>4, <2>16, <2>18, <2>19
  <2> QED BY <1>1, <1>4, <1>6, <2>1, <2>2, <2>10, <2>16, <2>19, <2>24, <2>25, <2>26, <2>27, <2>28,
             SaveStep
<1> QED BY <1>7, <1>8

LEMMA RecvSignedStep ==
    ASSUME OpenInv, NEW p \in Peer, recv_funding_signed(p) PROVE OpenInv'
<1>1. PICK q \in Peer : q = Other(p) /\ q # p /\ Other(q) = p
  BY PeerFacts
<1>2. PICK m : m = Head(net[p])
  OBVIOUS
<1>3. PICK u : u = FundingSigned(self[p], m)
  OBVIOUS
<1>4. /\ Types /\ Clean /\ Keeps(p) /\ Keeps(q) /\ Pair(p) /\ Pair(q) /\ Stream(p) /\ Running(p)
      /\ net[p] # <<>> /\ m.type = "funding_signed" /\ self[p] \in SelfType
      /\ Request(p) \in 0 .. MaxOpens
      /\ \A r \in Peer : r = p \/ r = q
      /\ chain \in [Txid -> -1 .. MaxDepth] /\ self \in [Peer -> SelfType] /\ db \in [Peer -> SelfType]
  BY <1>1, <1>2, BothEnds, TypeFacts, PeerFacts DEF recv_funding_signed, Receiving, Types, TypeOK
<1>5. FitsStep(p, m) /\ m \in Message
  BY <1>2, <1>4, ReadFacts, Carried
<1>6. /\ ~Saved(p) /\ IsFunder(p) /\ self[p].txid # 0
      /\ \/ Saved(q) /\ Request(q) = Request(p)
         \/ ~Running(q) /\ count.crashes > 0
  BY <1>1, <1>4, <1>5 DEF FitsStep
<1>7. CASE ~AcceptSigned(self[p], m)
  <2>1. Fail(p)
    BY <1>2, <1>7 DEF recv_funding_signed
  <2> QED BY <1>6, <2>1, FailStep
<1>8. CASE AcceptSigned(self[p], m)
  <2>1. PICK n : n = Request(p)
    OBVIOUS
  <2>2. /\ Asks(p) /\ n \in 1 .. count.opens /\ "FUNDING" \in self[p].fund_flag
        /\ self[p].txid = n /\ self[p].min_depth = MinDepth[q] /\ self[p].local_pt = 0
        /\ chain[n] = -1
    BY <1>1, <1>4, <1>6, <2>1 DEF Keeps, Asks, IsFunder
  <2>3. m.signature \in Seq(Nat) /\ n \in 0 .. MaxOpens /\ n \in Txid
    BY <1>4, <1>5, <2>1, <2>2, Asked DEF Message
  <2>4. <<"funding", n>> \in ChannelId
    BY <2>3 DEF ChannelId
  <2>5. u = [self[p] EXCEPT !.signature = m.signature, !.channel_id = <<"funding", n>>]
    BY <1>3, <2>2 DEF FundingSigned, FundingId
  <2>6. /\ u \in SelfType /\ u.txid = n /\ u.signature = m.signature
        /\ u.channel_id = <<"funding", n>> /\ u.our = self[p].our /\ u.their = self[p].their
        /\ u.fund_flag = self[p].fund_flag
        /\ u.status = self[p].status /\ u.short_channel_id = self[p].short_channel_id
        /\ u.anno_flag = self[p].anno_flag /\ u.min_depth = self[p].min_depth
    BY <1>4, <2>2, <2>3, <2>4, <2>5 DEF SelfType
  <2>7. PICK s : s = start_funding_wait(u)
    OBVIOUS
  <2>8. /\ s \in SelfType /\ s.txid = u.txid /\ s.signature = u.signature
        /\ s.channel_id = u.channel_id /\ s.our = u.our /\ s.their = u.their
        /\ s.local_pt = 1 /\ s.fund_flag = u.fund_flag /\ s.status = "ESTABLISH"
        /\ s.short_channel_id = u.short_channel_id /\ s.anno_flag = u.anno_flag
        /\ s.min_depth = u.min_depth
    BY <2>6, <2>7 DEF start_funding_wait, SelfType
  <2>9. m.signature = <<n, 0, self[p].our, self[p].their>>
    BY <1>8, <2>2 DEF AcceptSigned, create_to_local
  <2>10. SavesWell(p, s, n)
    BY <1>1, <1>6, <2>2, <2>6, <2>8, <2>9 DEF SavesWell, Asks
  <2>11. /\ Save(p, s) /\ conf' = [conf EXCEPT ![p].funding_waiting = TRUE]
         /\ net' = Read(p) /\ UNCHANGED <<forced, count>>
         /\ chain' = [chain EXCEPT ![n] = 0]
    BY <1>2, <1>3, <1>8, <2>6, <2>7 DEF recv_funding_signed
  <2>12. /\ net' \in [Peer -> Seq(Message)] /\ net'[p] = Tail(net[p]) /\ net'[q] = net[q]
    BY <1>1, <1>4, <2>11, ReadFacts
  <2>13. /\ chain' \in [Txid -> -1 .. MaxDepth] /\ chain'[n] = 0
         /\ \A t \in Txid : t # n => chain'[t] = chain[t]
    BY <1>4, <2>3, <2>11, EstBoundAssumption
  <2>14. \A t \in Txid : chain'[t] = chain[t] \/ (t = n /\ IsFunder(p) /\ chain'[t] >= chain[t])
    BY <1>6, <2>2, <2>13
  <2>15. IsFunder(p) => chain'[n] >= 0
    BY <2>13
  <2>16. self'[p] = s /\ self'[q] = self[q] /\ db'[p] = s /\ db'[q] = db[q]
    BY <1>1, <1>4, <2>11 DEF Save
  <2>17. /\ Saved(p)' /\ (Saved(q)' <=> Saved(q)) /\ IsFunder(p)' /\ (IsFunder(q)' <=> IsFunder(q))
         /\ Request(p)' = n /\ Request(q)' = Request(q)
    BY <1>6, <2>6, <2>8, <2>16 DEF Saved, IsFunder, Request
  <2>18. Clean'
    <3> SUFFICES ASSUME count.crashes = 0
                 PROVE  (/\ \A r \in Peer : Saved(r) /\ IsFunder(r) =>
                               Saved(Other(r)) /\ Request(Other(r)) = Request(r)
                         /\ \A t \in Txid : chain[t] >= 0 =>
                               \E r \in Peer : Saved(r) /\ IsFunder(r) /\ Request(r) = t
                         /\ forced = {})'
      BY <2>11 DEF Clean
    <3>1. Saved(q) /\ Request(q) = n
      BY <1>6, <2>1
    <3>2. ~IsFunder(q)
      BY <1>1, <1>4, <1>6, <2>1, <2>2, <3>1 DEF Pair
    <3>3. \A r \in Peer : Saved(r)' /\ IsFunder(r)' => Saved(Other(r))' /\ Request(Other(r))' = Request(r)'
      BY <1>1, <1>4, <2>17, <3>1, <3>2
    <3>4. \A t \in Txid : ~(chain[t] >= 0)
      BY <1>4, <1>6, <3>2 DEF Clean
    <3>5. \A t \in Txid : chain'[t] >= 0 => t = n
      BY <2>13, <3>4
    <3>6. forced' = {}
      BY <1>4, <2>11 DEF Clean
    <3> QED BY <2>17, <3>3, <3>5, <3>6
  <2>19. NoStep(q)
    BY <1>1, <1>4, <1>5, SignedTaken
  <2>20. IsStep(Head(net[p]))
    BY <1>2, <1>4 DEF IsStep
  <2>21. Answers(q)
    BY <2>12 DEF Answers
  <2>22. conf' = [conf EXCEPT ![p].funding_waiting = TRUE] /\ Save(p, s) /\ UNCHANGED <<forced, count>>
    BY <2>11
  <2> QED BY <1>1, <1>4, <1>6, <2>1, <2>2, <2>10, <2>12, <2>13, <2>14, <2>15, <2>18, <2>19, <2>20,
             <2>21, <2>22, SaveStep
<1> QED BY <1>7, <1>8

----------------------------------------------------------------------------
(* A new connection.                                                       *)

\* The channel an end loads: the one it held, or none.
Loads(p, s) ==
    /\ s \in SelfType /\ s.channel_id = db[p].channel_id /\ s.txid = db[p].txid
    /\ s.status = db[p].status /\ s.short_channel_id = db[p].short_channel_id
    /\ s.our = db[p].our /\ s.their = db[p].their /\ s.min_depth = db[p].min_depth
    /\ s.local_pt = db[p].local_pt /\ s.remote_pt = db[p].remote_pt
    /\ s.signature = db[p].signature
    /\ s.anno_flag = db[p].anno_flag
    /\ "FUNDER" \in s.fund_flag <=> "FUNDER" \in db[p].fund_flag
    /\ s.status = "NORMAL" => "OPENED" \in s.fund_flag
    /\ s.status # "NORMAL" => s.fund_flag = db[p].fund_flag

LEMMA LoadedFacts ==
    ASSUME Types, NEW p \in Peer, NEW s, s = Loaded(db[p])
    PROVE  Loads(p, s)
<1>2. PICK d : d = db[p]
  OBVIOUS
<1>1. d \in SelfType
  BY <1>2, TypeFacts
<1>3. CASE d.status = "NORMAL"
  <2>1. s = [d EXCEPT !.fund_flag = (@ \ {"FUNDING"}) \cup {"OPENED"}]
    BY <1>2, <1>3 DEF Loaded, free_establish
  <2>2. /\ s \in SelfType /\ s.channel_id = d.channel_id /\ s.txid = d.txid
        /\ s.status = d.status /\ s.short_channel_id = d.short_channel_id
        /\ s.our = d.our /\ s.their = d.their /\ s.min_depth = d.min_depth
        /\ s.local_pt = d.local_pt /\ s.remote_pt = d.remote_pt
        /\ s.signature = d.signature /\ s.anno_flag = d.anno_flag
        /\ s.fund_flag = (d.fund_flag \ {"FUNDING"}) \cup {"OPENED"}
    BY <1>1, <2>1 DEF SelfType
  <2> QED BY <1>2, <1>3, <2>2 DEF Loads
<1>4. CASE d.status # "NORMAL"
  BY <1>1, <1>2, <1>4 DEF Loads, Loaded
<1> QED BY <1>3, <1>4

\* The flags of its threads.
LEMMA NewConfFacts ==
    ASSUME NEW s, NEW c, c = NewConf(s)
    PROVE  /\ c \in ConfType /\ c.loop /\ c.poll = "idle" /\ ~c.annosigns /\ c.main # "locked"
           /\ s.status = "NONE" => c.main = "loop" /\ ~c.funding_waiting
BY DEF NewConf, ConfType

LEMMA ConnectKeeps ==
    ASSUME OpenInv, Connect, NEW p \in Peer
    PROVE  /\ self'[p] \in SelfType /\ conf'[p] \in ConfType /\ Keeps(p)'
           /\ Saved(p)' <=> Saved(p)
           /\ Saved(p) =>
                 /\ Request(p)' = Request(p) /\ (IsFunder(p)' <=> IsFunder(p))
                 /\ self'[p].channel_id = self[p].channel_id
                 /\ self'[p].our = self[p].our /\ self'[p].their = self[p].their
                 /\ self'[p].anno_flag = self[p].anno_flag
                 /\ "FUNDING" \notin self'[p].fund_flag /\ ~self'[p].short_channel_id =>
                       "FUNDING" \notin self[p].fund_flag /\ ~self[p].short_channel_id
           /\ ~Saved(p) => Request(p)' = 0 /\ self'[p].anno_flag = {}
<1>1. Types /\ Keeps(p)
  BY BothEnds
<1>2. PICK s : s = Loaded(db[p])
  OBVIOUS
<1>3. PICK c : c = NewConf(db[p])
  OBVIOUS
<1>4. /\ self'[p] = s /\ conf'[p] = c /\ UNCHANGED <<db, chain, forced, count>>
  BY <1>2, <1>3 DEF Connect
<1>5. Loads(p, s)
  BY <1>1, <1>2, LoadedFacts
<1>6. /\ c \in ConfType /\ c.loop /\ c.poll = "idle" /\ ~c.annosigns /\ c.main # "locked"
      /\ db[p].status = "NONE" => c.main = "loop" /\ ~c.funding_waiting
  BY <1>3, NewConfFacts
<1>7. Saved(p)' <=> Saved(p)
  BY <1>4 DEF Saved
<1>8. CASE Saved(p)
  <2>1. Stored(p) /\ Holds(p) /\ Waits(p)
    BY <1>1, <1>8 DEF Keeps
  <2>2. /\ Request(p)' = Request(p) /\ (IsFunder(p)' <=> IsFunder(p))
        /\ s.channel_id = self[p].channel_id /\ s.status = self[p].status
        /\ s.our = self[p].our /\ s.their = self[p].their /\ s.txid = self[p].txid
        /\ s.anno_flag = self[p].anno_flag /\ s.short_channel_id = self[p].short_channel_id
        /\ s.min_depth = self[p].min_depth /\ s.local_pt = self[p].local_pt
        /\ s.signature = self[p].signature
        /\ s.status # "NORMAL" => s.fund_flag = self[p].fund_flag
    BY <1>4, <1>5, <2>1 DEF Loads, Stored, Request, IsFunder
  <2>3. Stored(p)'
    BY <1>4, <1>5 DEF Stored, Loads, IsFunder
  <2>4. s.fund_flag \cap {"FUNDING", "OPENED"} # {}
    BY <1>5, <2>1, <2>2 DEF Loads, Holds
  <2>5. Holds(p)'
    BY <1>4, <2>1, <2>2, <2>4 DEF Holds
  <2>6. Waits(p)'
    BY <1>4, <1>6, <2>1, <2>2 DEF Waits
  <2>7. "FUNDING" \notin s.fund_flag /\ ~s.short_channel_id =>
           "FUNDING" \notin self[p].fund_flag /\ ~self[p].short_channel_id
    BY <2>1, <2>2 DEF Waits
  <2> QED BY <1>4, <1>5, <1>6, <1>7, <1>8, <2>2, <2>3, <2>5, <2>6, <2>7 DEF Keeps, Loads
<1>9. CASE ~Saved(p)
  <2>1. db[p] = NewSelf
    BY <1>1, <1>9 DEF Keeps, Asks
  <2>2. s = NewSelf
    BY <1>2, <2>1 DEF Loaded, NewSelf
  <2>3. /\ s.channel_id = <<"none", 0>> /\ s.txid = 0 /\ s.fund_flag = {} /\ s.status = "NONE"
        /\ ~s.short_channel_id /\ s.anno_flag = {} /\ s.local_pt = 0 /\ s.remote_pt = 0
    BY <2>2 DEF NewSelf
  <2>4. Asks(p)'
    BY <1>4, <1>6, <1>9, <2>1, <2>3 DEF Asks, Saved
  <2>5. Request(p)' = 0
    BY <1>4, <2>3 DEF Request
  <2> QED BY <1>4, <1>5, <1>6, <1>7, <1>9, <2>3, <2>4, <2>5 DEF Keeps, Loads
<1> QED BY <1>8, <1>9

LEMMA ConnectPair ==
    ASSUME OpenInv, Connect, NEW p \in Peer
    PROVE  Pair(p)'
<1>1. PICK q \in Peer : q = Other(p) /\ q # p /\ Other(q) = p
  BY PeerFacts
<1>2. Pair(p) /\ Keeps(p) /\ Keeps(q)
  BY <1>1, BothEnds
<1>3. /\ Saved(p)' <=> Saved(p)
      /\ Saved(p) =>
            /\ Request(p)' = Request(p) /\ (IsFunder(p)' <=> IsFunder(p))
            /\ self'[p].our = self[p].our
            /\ self'[p].anno_flag = self[p].anno_flag
            /\ "FUNDING" \notin self'[p].fund_flag /\ ~self'[p].short_channel_id =>
                       "FUNDING" \notin self[p].fund_flag /\ ~self[p].short_channel_id
      /\ ~Saved(p) => Request(p)' = 0 /\ self'[p].anno_flag = {}
  BY ConnectKeeps
<1>4. /\ Saved(q)' <=> Saved(q)
      /\ Saved(q) =>
            /\ Request(q)' = Request(q) /\ (IsFunder(q)' <=> IsFunder(q))
            /\ self'[q].their = self[q].their
            /\ self'[q].anno_flag = self[q].anno_flag
      /\ ~Saved(q) => Request(q)' = 0
  BY ConnectKeeps
<1>5. Request(p)' = Request(q)' /\ Request(p)' # 0 =>
        (IsFunder(p)' <=> ~IsFunder(q)') /\ self'[p].our = self'[q].their
  BY <1>1, <1>2, <1>3, <1>4 DEF Pair
<1>6. Saved(p)' /\ "FUNDING" \notin self'[p].fund_flag /\ ~self'[p].short_channel_id => Saved(q)'
  BY <1>1, <1>2, <1>3, <1>4 DEF Pair
<1>7. "RECV" \in self'[p].anno_flag => "SEND" \in self'[q].anno_flag
  <2> SUFFICES ASSUME "RECV" \in self'[p].anno_flag PROVE "SEND" \in self'[q].anno_flag
    OBVIOUS
  <2>1. "SEND" \in self[q].anno_flag
    BY <1>1, <1>2, <1>3 DEF Pair
  <2>2. Saved(q)
    BY <1>2, <2>1 DEF Keeps, Asks
  <2> QED BY <1>4, <2>1, <2>2
<1>8. "END" \in self'[p].anno_flag => {"SEND", "RECV"} \subseteq self'[p].anno_flag
  BY <1>2, <1>3 DEF Pair
<1> QED BY <1>1, <1>5, <1>6, <1>7, <1>8 DEF Pair

LEMMA ConnectStream ==
    ASSUME OpenInv, Connect, NEW p \in Peer
    PROVE  Stream(p)' /\ net'[p] \in Seq(Message)
<1>1. PICK q \in Peer : q = Other(p) /\ q # p /\ Other(q) = p
  BY PeerFacts
<1>2. /\ Types /\ Keeps(q) /\ self[q].channel_id \in ChannelId
  BY <1>1, BothEnds, TypeFacts
<1>3. net'[p] = Reestablish(q) /\ conf'[p] = NewConf(db[p])
  BY <1>1 DEF Connect
<1>4. Running(p)'
  BY <1>3, NewConfFacts DEF Running
<1>5. CASE ~Saved(q)
  <2>1. net'[p] = <<>>
    BY <1>3, <1>5 DEF Reestablish
  <2> QED BY <2>1 DEF Stream, Once
<1>6. CASE Saved(q)
  <2>1. PICK m : m = [type |-> "channel_reestablish", id |-> self[q].channel_id]
    OBVIOUS
  <2>2. m \in Message /\ m.type = "channel_reestablish" /\ m.id = self[q].channel_id
    BY <1>2, <2>1, Messages
  <2>3. net'[p] = <<m>>
    BY <1>2, <1>3, <1>6, <2>1 DEF Reestablish, Keeps, Stored
  <2>4. Saved(q)' /\ self'[q].channel_id = self[q].channel_id
    BY <1>6, ConnectKeeps
  <2>5. FitsStep(p, m)' /\ FitsHeld(p, m)'
    BY <1>1, <2>2, <2>4 DEF FitsStep, FitsHeld
  <2>6. DOMAIN <<m>> = {1} /\ <<m>>[1] = m /\ <<m>> \in Seq(Message)
    BY <2>2
  <2>7. Once(net[p])'
    BY <2>3, <2>6 DEF Once
  <2> QED BY <1>4, <2>3, <2>5, <2>6, <2>7 DEF Stream
<1> QED BY <1>5, <1>6

LEMMA ConnectStep ==
    ASSUME OpenInv, Connect PROVE OpenInv'
<1>1. Types /\ Chain /\ Clean
  BY DEF OpenInv
<1>2. UNCHANGED <<db, chain, forced, count>>
  BY DEF Connect
<1>3. self' \in [Peer -> SelfType] /\ conf' \in [Peer -> ConfType] /\ net' \in [Peer -> Seq(Message)]
  <2>1. /\ self' = [p \in Peer |-> self'[p]] /\ conf' = [p \in Peer |-> conf'[p]]
        /\ net' = [p \in Peer |-> net'[p]]
    BY DEF Connect
  <2>2. \A p \in Peer : self'[p] \in SelfType /\ conf'[p] \in ConfType /\ net'[p] \in Seq(Message)
    BY ConnectKeeps, ConnectStream
  <2> QED BY <2>1, <2>2
<1>4. Types'
  BY <1>1, <1>2, <1>3 DEF Types, TypeOK
<1>5. Chain'
  BY <1>1, <1>2 DEF Chain
<1>6. Clean'
  <2>1. \A r \in Peer : /\ Saved(r)' <=> Saved(r)
                        /\ Saved(r) => (IsFunder(r)' <=> IsFunder(r)) /\ Request(r)' = Request(r)
    BY ConnectKeeps
  <2>2. \A r \in Peer : Other(r) \in Peer
    BY PeerFacts
  <2> SUFFICES ASSUME count.crashes = 0
               PROVE  (/\ \A r \in Peer : Saved(r) /\ IsFunder(r) =>
                             Saved(Other(r)) /\ Request(Other(r)) = Request(r)
                       /\ \A t \in Txid : chain[t] >= 0 =>
                             \E r \in Peer : Saved(r) /\ IsFunder(r) /\ Request(r) = t
                       /\ forced = {})'
    BY <1>2 DEF Clean
  <2>3. \A r \in Peer : Saved(r) /\ IsFunder(r) => Saved(Other(r)) /\ Request(Other(r)) = Request(r)
    BY <1>1 DEF Clean
  <2>4. \A t \in Txid : chain[t] >= 0 => \E r \in Peer : Saved(r) /\ IsFunder(r) /\ Request(r) = t
    BY <1>1 DEF Clean
  <2>5. forced' = {} /\ chain' = chain
    BY <1>1, <1>2 DEF Clean
  <2> QED BY <2>1, <2>2, <2>3, <2>4, <2>5
<1>7. \A p \in Peer : Keeps(p)' /\ Pair(p)' /\ Stream(p)'
  BY ConnectKeeps, ConnectPair, ConnectStream
<1> QED BY <1>4, <1>5, <1>6, <1>7 DEF OpenInv

----------------------------------------------------------------------------
(* The invariant.                                                          *)

LEMMA OpenInit ==
    Init => OpenInv
<1> SUFFICES ASSUME Init PROVE OpenInv
  OBVIOUS
<1>1. PICK c : c = NewConf(NewSelf)
  OBVIOUS
<1>2. PICK s : s = NewSelf
  OBVIOUS
<1>3. NoSig \in Seq(Nat)
  BY DEF NoSig
<1>4. /\ s \in SelfType /\ s.channel_id = <<"none", 0>> /\ s.txid = 0 /\ s.fund_flag = {}
      /\ s.status = "NONE" /\ ~s.short_channel_id /\ s.anno_flag = {}
      /\ s.local_pt = 0 /\ s.remote_pt = 0
  BY <1>2, <1>3, EstBoundAssumption, EstDepthAssumption DEF NewSelf, SelfType, ChannelId
<1>5. /\ c \in ConfType /\ c.poll = "idle" /\ ~c.annosigns /\ c.main = "loop" /\ ~c.funding_waiting
  BY <1>1, <1>2, <1>4, NewConfFacts
<1>6. /\ self = [p \in Peer |-> s] /\ db = [p \in Peer |-> s] /\ conf = [p \in Peer |-> c]
      /\ net = [p \in Peer |-> <<>>] /\ chain = [t \in Txid |-> -1] /\ forced = {}
      /\ count = [opens |-> 0, drops |-> 0, crashes |-> 0, rejects |-> 0]
  BY <1>1, <1>2 DEF Init
<1>7. Types
  <2>1. TypeOK
    BY <1>4, <1>5, <1>6, EstBoundAssumption DEF TypeOK
  <2> QED BY <1>6, <2>1, EstBoundAssumption DEF Types
<1>8. Chain
  BY <1>6 DEF Chain
<1>9. \A p \in Peer : ~Saved(p) /\ Request(p) = 0 /\ self[p] = s /\ db[p] = s /\ conf[p] = c
  BY <1>4, <1>6 DEF Saved, Request
<1>10. Clean
  BY <1>6, <1>9 DEF Clean
<1>11. ASSUME NEW p \in Peer PROVE Keeps(p) /\ Pair(p) /\ Stream(p)
  <2>1. Keeps(p)
    BY <1>2, <1>4, <1>5, <1>9 DEF Keeps, Asks
  <2>2. Pair(p)
    BY <1>4, <1>9 DEF Pair
  <2>3. Stream(p)
    BY <1>6 DEF Stream, Once
  <2> QED BY <2>1, <2>2, <2>3
<1> QED BY <1>7, <1>8, <1>10, <1>11 DEF OpenInv

LEMMA OpenNext ==
    OpenInv /\ [Next]_vars => OpenInv'
<1> SUFFICES ASSUME OpenInv, [Next]_vars PROVE OpenInv'
  OBVIOUS
<1>1. CASE Connect
  BY <1>1, ConnectStep
<1>2. CASE \E t \in Txid : Confirm(t)
  BY <1>2, ConfirmStep
<1>3. ASSUME NEW p \in Peer, \E push \in PushSat : lnapp_funding(p, push) PROVE OpenInv'
  BY <1>3, FundingStep
<1>4. ASSUME NEW p \in Peer, Receive(p) PROVE OpenInv'
  <2>1. CASE recv_open_channel(p) \/ RefuseOpenChannel(p)
    BY <2>1, RecvOpenStep, RefuseStep
  <2>2. CASE recv_accept_channel(p)
    BY <2>2, RecvAcceptStep
  <2>3. CASE recv_funding_created(p) \/ CrashFundee(p)
    BY <2>3, RecvCreatedStep, CrashFundeeStep
  <2>4. CASE recv_funding_signed(p) \/ CrashFunder(p)
    BY <2>4, RecvSignedStep, CrashFunderStep
  <2>5. CASE BroadcastFails(p) \/ PeerGone(p)
    BY <2>5, DropStep
  <2>6. CASE recv_error(p)
    BY <2>6, RecvErrorStep
  <2>7. CASE recv_funding_locked(p)
    BY <2>7, RecvLockedStep
  <2>8. CASE recv_channel_reestablish(p)
    BY <2>8, RecvReestablishStep
  <2>9. CASE recv_announcement_signatures(p) \/ ln_announce_signs_create(p)
    BY <2>9, RecvSignaturesStep, AnnounceStep
  <2> QED BY <1>4, <2>1, <2>2, <2>3, <2>4, <2>5, <2>6, <2>7, <2>8, <2>9 DEF Receive
<1>5. ASSUME NEW p \in Peer, MainThread(p) PROVE OpenInv'
  BY <1>5, ReestablishedStep, ExchangeStep, LockedStep DEF MainThread
<1>6. ASSUME NEW p \in Peer, PollThread(p) PROVE OpenInv'
  BY <1>6, PollStep, LockedStep, PollAnnounceStep DEF PollThread
<1>7. ASSUME NEW p \in Peer, Drop(p) \/ ReestablishTimeout(p) PROVE OpenInv'
  BY <1>7, DropStep
<1>8. CASE UNCHANGED vars
  <2>1. UNCHANGED <<self, db, conf, net, chain, forced, count>>
    BY <1>8 DEF vars
  <2> QED BY <2>1 DEF OpenInv, Types, TypeOK, Chain, Clean, Keeps, Asks, Stored, Holds, Waits, Pair,
                     Stream, FitsStep, FitsHeld, Saved, IsFunder, Request, Running, Once
<1> QED BY <1>1, <1>2, <1>3, <1>4, <1>5, <1>6, <1>7, <1>8 DEF Next

\* Whatever the two ends do and whichever faults they meet, the messages on
\* their way fit the state of both, and an end that holds a channel holds what
\* the exchange from open_channel to funding_signed agreed on.
THEOREM OpenInvariant == Spec => []OpenInv
<1>1. Spec => Init /\ [][Next]_vars
  BY DEF Spec
<1> QED BY <1>1, OpenInit, OpenNext, PTL

\* Every field that the handlers write stays within its type.
THEOREM OpenTypes == Spec => []TypeOK
<1>1. OpenInv => TypeOK
  BY DEF OpenInv, Types
<1> QED BY <1>1, OpenInvariant, PTL

\* The databases, as the invariant gives them.
LEMMA Databases ==
    ASSUME OpenInv, NEW p \in Peer, Saved(p)
    PROVE  /\ Stored(p) /\ Holds(p) /\ Waits(p)
           /\ db[p].channel_id = <<"funding", Request(p)>> /\ db[p].txid = Request(p)
           /\ db[p].our = self[p].our /\ db[p].their = self[p].their
           /\ db[p].min_depth = self[p].min_depth
           /\ db[p].signature = <<Request(p), 0, db[p].our, db[p].their>>
           /\ IsFunder(p) <=> "FUNDER" \in db[p].fund_flag
           /\ db[p].anno_flag = self[p].anno_flag /\ db[p].status = self[p].status
<1>1. Stored(p) /\ Holds(p) /\ Waits(p)
  BY DEF OpenInv, Keeps
<1> QED BY <1>1 DEF Stored, Holds

\* Two ends that hold the same channel have the same request.
LEMMA SharedFacts ==
    ASSUME OpenInv, Shared, NEW p \in Peer
    PROVE  /\ Saved(p) /\ Saved(Other(p)) /\ Request(Other(p)) = Request(p) /\ Request(p) # 0
           /\ IsFunder(p) <=> ~IsFunder(Other(p))
<1>1. Other(p) \in Peer
  BY PeerFacts
<1>2. Saved(p) /\ Saved(Other(p)) /\ db[p].channel_id = db[Other(p)].channel_id
  BY <1>1 DEF Shared
<1>3. /\ db[p].channel_id = <<"funding", Request(p)>> /\ Holds(p)
      /\ db[Other(p)].channel_id = <<"funding", Request(Other(p))>>
  BY <1>1, <1>2, Databases
<1>4. Request(Other(p)) = Request(p)
  <2>1. PICK a, b : a = Request(p) /\ b = Request(Other(p))
    OBVIOUS
  <2>2. <<"funding", a>> = <<"funding", b>>
    BY <1>2, <1>3, <2>1
  <2>3. a = b
    BY <2>2
  <2> QED BY <2>1, <2>3
<1>5. Request(p) # 0
  BY <1>3 DEF Holds
<1> QED BY <1>2, <1>4, <1>5 DEF OpenInv, Pair

\* recv_open_channel, recv_accept_channel, recv_funding_created and
\* recv_funding_signed leave two ends with the same amounts, the same depth and
\* the signature each will need, for every request, push and pair of depths.
THEOREM SameTerms == Spec => []TermsAgree
<1>1. ASSUME OpenInv PROVE TermsAgree
  <2> SUFFICES ASSUME Shared, NEW p \in Peer, NEW q \in Peer, p # q
               PROVE  /\ db[p].our = db[q].their
                      /\ db[p].min_depth = db[q].min_depth
                      /\ db[p].signature = <<db[p].txid, 0, db[p].our, db[p].their>>
    BY DEF TermsAgree
  <2>1. q = Other(p) /\ Other(q) = p
    BY PeerFacts
  <2>2. /\ Saved(p) /\ Saved(q) /\ Request(q) = Request(p) /\ Request(p) # 0
        /\ IsFunder(p) <=> ~IsFunder(q)
    BY <1>1, <2>1, SharedFacts
  <2>3. /\ Holds(p) /\ db[p].txid = Request(p) /\ db[p].our = self[p].our
        /\ db[p].min_depth = self[p].min_depth
        /\ db[p].signature = <<Request(p), 0, db[p].our, db[p].their>>
    BY <1>1, <2>2, Databases
  <2>4. Holds(q) /\ db[q].their = self[q].their /\ db[q].min_depth = self[q].min_depth
    BY <1>1, <2>2, Databases
  <2>5. self[p].our = self[q].their
    BY <1>1, <2>1, <2>2 DEF OpenInv, Pair
  <2>6. self[p].min_depth = self[q].min_depth
    BY <2>1, <2>2, <2>3, <2>4 DEF Holds
  <2> QED BY <2>3, <2>4, <2>5, <2>6
<1> QED BY <1>1, OpenInvariant, PTL

\* cb_funding_tx_wait broadcasts a funding transaction only for an end that then
\* saves the fundee's signature: the money can be taken back, as long as no
\* process dies in between.
THEOREM MoneySecured == Spec => []RefundSecured
<1>1. ASSUME OpenInv PROVE RefundSecured
  <2> SUFFICES ASSUME count.crashes = 0, NEW t \in Txid, chain[t] >= 0
               PROVE  \E p \in Peer :
                         /\ db[p].txid = t /\ "FUNDER" \in db[p].fund_flag
                         /\ db[p].signature = <<t, 0, db[p].our, db[p].their>>
    BY DEF RefundSecured
  <2>1. PICK p \in Peer : Saved(p) /\ IsFunder(p) /\ Request(p) = t
    BY <1>1 DEF OpenInv, Clean
  <2> QED BY <1>1, <2>1, Databases
<1> QED BY <1>1, OpenInvariant, PTL

\* poll_funding_wait, exchange_funding_locked and announcement_signatures make
\* a channel normal only at the depth the fundee asked for, in any interleaving
\* of the threads.
THEOREM DeepBeforeNormal == Spec => []NormalWhenDeep
<1>1. ASSUME OpenInv PROVE NormalWhenDeep
  <2> SUFFICES ASSUME NEW p \in Peer, db[p].status = "NORMAL"
               PROVE  chain[db[p].txid] >= db[p].min_depth
    BY DEF NormalWhenDeep
  <2>1. Saved(p)
    BY DEF Saved
  <2>2. /\ Waits(p) /\ db[p].txid = Request(p) /\ db[p].min_depth = self[p].min_depth
        /\ db[p].status = self[p].status
    BY <1>1, <2>1, Databases
  <2> QED BY <2>2 DEF Waits
<1> QED BY <1>1, OpenInvariant, PTL

\* proc_anno_sigs completes an announcement only when both ends have signed it
\* and the databases of both know.
THEOREM SignedByBoth == Spec => []AnnouncedByBoth
<1>1. ASSUME OpenInv PROVE AnnouncedByBoth
  <2> SUFFICES ASSUME NEW p \in Peer, "END" \in db[p].anno_flag, NEW q \in Peer
               PROVE  "SEND" \in db[q].anno_flag
    BY DEF AnnouncedByBoth
  <2>1. \A r \in Peer : db[r].anno_flag = self[r].anno_flag
    <3> SUFFICES ASSUME NEW r \in Peer PROVE db[r].anno_flag = self[r].anno_flag
      OBVIOUS
    <3>1. CASE Saved(r)
      BY <1>1, <3>1, Databases
    <3>2. CASE ~Saved(r)
      <4>1. db[r] = NewSelf /\ self[r].anno_flag = {}
        BY <1>1, <3>2 DEF OpenInv, Keeps, Asks
      <4>2. NewSelf.anno_flag = {}
        BY DEF NewSelf
      <4> QED BY <4>1, <4>2
    <3> QED BY <3>1, <3>2
  <2>2. {"SEND", "RECV"} \subseteq self[p].anno_flag /\ "SEND" \in self[Other(p)].anno_flag
    BY <1>1, <2>1 DEF OpenInv, Pair
  <2>3. q = p \/ q = Other(p)
    BY PeerFacts
  <2> QED BY <2>1, <2>2, <2>3
<1> QED BY <1>1, OpenInvariant, PTL

\* No handler that fails closes a channel that both ends hold, as long as no
\* process dies.
THEOREM OpenKept == Spec => []OpenSurvives
<1>1. OpenInv => OpenSurvives
  BY DEF OpenInv, Clean, OpenSurvives
<1> QED BY <1>1, OpenInvariant, PTL
=============================================================================
