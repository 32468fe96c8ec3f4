---------------------------- MODULE GossipProofs ----------------------------
(***************************************************************************)
(* Announcements, for every value of the constants of module Gossip: any   *)
(* peers, channels, nodes and timestamps.                                  *)
(*                                                                         *)
(* The argument.  The marks of a record are what the node believes its     *)
(* peers have.  A mark of an announcement is never wrong (Marked), so a    *)
(* peer whose announcement is skipped has it, and the walk of an announce  *)
(* thread sends an update only behind the announcement it passed last.     *)
(* The marks also miss nothing (Remembered): a peer that has the stored    *)
(* update is marked for it, and none has a later one.  That needs the      *)
(* updates that were removed: as long as a peer has one, a mark is left.   *)
(***************************************************************************)
EXTENDS Gossip, WellFoundedInduction, TLAPS

----------------------------------------------------------------------------
(* The inductive invariant.                                                *)

Have == [anno : SUBSET Cnl, upd : [Cnl -> Stamp]]

Types ==
    /\ TypeOK
    /\ has \in [Peer -> Have]
    /\ events \subseteq {"marks", "lost", "sync"}

\* The last announcement a thread has passed.
Passed(p) == scan[p].last_annocnl_sci

\* A peer that is marked for an announcement has it, and so it has the one its
\* thread has passed.
MarkedAt(p) ==
    /\ \A c \in Cnl : p \in info.anno[c] => c \in has[p].anno
    /\ Passed(p) \in Cnl \ spent => Passed(p) \in has[p].anno

Marked == events \cap {"lost", "sync"} = {} => \A p \in Peer : MarkedAt(p)

\* A peer that has a record is marked for it.
RememberedAt(p, c) ==
    /\ c \in has[p].anno => p \in info.anno[c]
    /\ has[p].upd[c] > horizon /\ upd[c] = 0 => info.upd[c] # {}
    /\ has[p].upd[c] > horizon /\ upd[c] # 0 =>
          has[p].upd[c] =< upd[c] /\ (has[p].upd[c] = upd[c] => p \in info.upd[c])

Remembered ==
    events \cap {"marks", "sync"} = {} =>
        \A p \in Peer, c \in Cnl : c \notin spent => RememberedAt(p, c)

GossipInv == Types /\ Marked /\ Remembered /\ AnnouncedFirst

----------------------------------------------------------------------------
(* Types.                                                                  *)

Info == [ anno : [Cnl -> SUBSET Peer], upd : [Cnl -> SUBSET Peer], nod : [Node -> SUBSET Peer] ]
Scan == [last_anno_cnl : Cnl \cup {0}, last_annocnl_sci : Cnl \cup {0}]

LEMMA TypeFacts ==
    ASSUME Types
    PROVE  /\ info \in Info /\ scan \in [Peer -> Scan] /\ has \in [Peer -> Have]
           /\ info.anno \in [Cnl -> SUBSET Peer] /\ info.upd \in [Cnl -> SUBSET Peer]
           /\ info.nod \in [Node -> SUBSET Peer]
           /\ upd \in [Cnl -> Stamp] /\ horizon \in Nat /\ horizon \in Stamp
           /\ \A c \in Cnl : upd[c] \in Nat /\ upd[c] \in Stamp
           /\ \A p \in Peer, c \in Cnl : has[p].upd[c] \in Nat
           /\ \A p \in Peer : /\ has[p].anno \subseteq Cnl /\ has[p].upd \in [Cnl -> Stamp]
                              /\ Passed(p) \in Cnl \cup {0} /\ has[p] \in Have
<1>1. /\ info \in Info /\ scan \in [Peer -> Scan] /\ has \in [Peer -> Have]
      /\ upd \in [Cnl -> Stamp] /\ horizon \in Stamp
  BY DEF Types, TypeOK, Info, Scan
<1>2. Stamp \subseteq Nat
  BY GossipAssumption DEF Stamp
<1>3. info.anno \in [Cnl -> SUBSET Peer] /\ info.upd \in [Cnl -> SUBSET Peer]
      /\ info.nod \in [Node -> SUBSET Peer]
  BY <1>1 DEF Info
<1>4. ASSUME NEW p \in Peer
      PROVE  /\ has[p].anno \subseteq Cnl /\ has[p].upd \in [Cnl -> Stamp]
             /\ Passed(p) \in Cnl \cup {0} /\ has[p] \in Have
  <2>1. has[p] \in Have /\ scan[p] \in Scan
    BY <1>1
  <2> QED BY <2>1 DEF Have, Scan, Passed
<1> QED BY <1>1, <1>2, <1>3, <1>4

\* Types holds when it holds of every variable.
LEMMA TypesFrom ==
    ASSUME anno' \subseteq Cnl, own' \subseteq OwnCnl, known' \subseteq Node,
           upd' \in [Cnl -> Stamp], nod' \in [Node -> NodStamp], info' \in Info,
           online' \subseteq Peer, spent' \subseteq Cnl, horizon' \in Stamp,
           broken' \subseteq online', sent' \subseteq Message, scan' \in [Peer -> Scan],
           has' \in [Peer -> Have], events' \subseteq {"marks", "lost", "sync"}
    PROVE  Types'
BY DEF Types, TypeOK, Info, Scan

\* The first record of those that are left.
LEMMA MinFacts ==
    ASSUME NEW S, S \subseteq Cnl, S # {}
    PROVE  Min(S) \in S /\ \A x \in S : Min(S) =< x
<1>1. S \subseteq Nat
  BY GossipAssumption DEF Cnl
<1>2. PICK x \in S : \A y \in S : ~(<<y, x>> \in OpToRel(<, Nat))
  BY <1>1, NatLessThanWellFounded, WFMin
<1>3. \A y \in S : ~(y < x)
  BY <1>1, <1>2 DEF OpToRel
<1>4. \A y \in S : x =< y
  BY <1>1, <1>3
<1> QED BY <1>4 DEF Min

----------------------------------------------------------------------------
(* Steps that change neither marks nor what peers have.                    *)

Still ==
    /\ info'.anno = info.anno /\ info'.upd = info.upd
    /\ UNCHANGED <<has, upd, events>>
    /\ \A p \in Peer : Passed(p)' \in {Passed(p), 0}
    /\ spent \subseteq spent' /\ horizon' >= horizon
    /\ sent' = {}

LEMMA StillStep ==
    ASSUME GossipInv, Types', Still PROVE GossipInv'
<1>1. Types /\ Marked /\ Remembered
  BY DEF GossipInv
<1>2. horizon \in Nat /\ horizon' \in Nat /\ \A p \in Peer, c \in Cnl : has[p].upd[c] \in Nat
  BY <1>1, GossipAssumption, TypeFacts DEF Types, TypeOK, Stamp
<1>3. Marked'
  <2> SUFFICES ASSUME events \cap {"lost", "sync"} = {}, NEW p \in Peer PROVE MarkedAt(p)'
    BY DEF Marked, Still
  <2>1. MarkedAt(p) /\ 0 \notin Cnl
    BY <1>1 DEF Marked, Cnl
  <2> QED BY <2>1 DEF MarkedAt, Still
<1>4. Remembered'
  <2> SUFFICES ASSUME events \cap {"marks", "sync"} = {}, NEW p \in Peer, NEW c \in Cnl, c \notin spent'
               PROVE  RememberedAt(p, c)'
    BY DEF Remembered, Still
  <2>1. RememberedAt(p, c)
    BY <1>1 DEF Remembered, Still
  <2>2. has[p].upd[c] > horizon' => has[p].upd[c] > horizon
    BY <1>2 DEF Still
  <2> QED BY <2>1, <2>2 DEF RememberedAt, Still
<1>5. AnnouncedFirst'
  BY DEF AnnouncedFirst, Still
<1> QED BY <1>3, <1>4, <1>5 DEF GossipInv

LEMMA ScanSame ==
    ASSUME UNCHANGED scan, NEW p \in Peer PROVE Passed(p)' \in {Passed(p), 0}
BY DEF Passed

\* Connections, time, blocks and the end of an own channel.
LEMMA EnvironmentStep ==
    ASSUME GossipInv, sent' = {},
           \/ \E p \in Peer : Break(p) \/ Disconnect(p)
           \/ \E c \in Cnl : ln_db_annoown_del(c) \/ Spend(c)
           \/ Age
    PROVE  GossipInv'
<1>1. Types
  BY DEF GossipInv
<1>2. /\ UNCHANGED <<anno, upd, nod, known, info, scan, has, events>>
      /\ own' \subseteq own /\ spent \subseteq spent' /\ spent' \subseteq Cnl
      /\ horizon' \in Stamp /\ horizon' >= horizon
      /\ online' \subseteq Peer /\ broken' \subseteq online'
  <2>1. /\ horizon \in 0 .. MaxStamp /\ MaxStamp \in Nat /\ spent \subseteq Cnl
        /\ online \subseteq Peer /\ broken \subseteq online
    BY <1>1, GossipAssumption DEF Types, TypeOK, Stamp
  <2>2. CASE \E p \in Peer : Break(p) \/ Disconnect(p)
    BY <2>1, <2>2 DEF Break, Disconnect, store, Stamp
  <2>3. CASE \E c \in Cnl : ln_db_annoown_del(c) \/ Spend(c)
    BY <2>1, <2>3 DEF ln_db_annoown_del, Spend, store, Stamp
  <2>4. CASE Age
    BY <2>1, <2>4 DEF Age, store, Stamp
  <2> QED BY <2>2, <2>3, <2>4
<1>3. Types'
  BY <1>1, <1>2 DEF Types, TypeOK
<1>4. Still
  BY <1>2, ScanSame DEF Still
<1> QED BY <1>3, <1>4, StillStep

LEMMA NodeStep ==
    ASSUME GossipInv, sent' = {}, NEW p \in Peer, NEW n \in Node, NEW stamp \in NodStamp,
           recv_node_announcement(p, n, stamp)
    PROVE  GossipInv'
<1>1. Types /\ info \in Info /\ horizon \in Nat
  BY TypeFacts DEF GossipInv
<1>2. /\ ln_db_annonod_save(p, n, stamp)
      /\ UNCHANGED <<anno, upd, known, own, has, events, online, broken, scan, spent, horizon>>
  BY DEF recv_node_announcement, Received
<1>3. /\ nod' \in [Node -> NodStamp] /\ info' \in Info
      /\ info'.anno = info.anno /\ info'.upd = info.upd
  <2>1. nod \in [Node -> NodStamp]
    BY <1>1 DEF Types, TypeOK
  <2>2. CASE UNCHANGED <<nod, info>>
    BY <1>1, <2>1, <2>2
  <2>3. CASE /\ nod' = [nod EXCEPT ![n] = stamp]
             /\ info' = [info EXCEPT !.nod[n] = IF nod[n] = 0 THEN @ \cup {p} ELSE {p}]
    <3>1. PICK S : S = IF nod[n] = 0 THEN info.nod[n] \cup {p} ELSE {p}
      OBVIOUS
    <3>2. info.nod \in [Node -> SUBSET Peer]
      BY <1>1 DEF Info
    <3>3. S \in SUBSET Peer
      BY <3>1, <3>2
    <3>4. info' = [info EXCEPT !.nod = [info.nod EXCEPT ![n] = S]]
      BY <1>1, <2>3, <3>1 DEF Info
    <3>5. [info.nod EXCEPT ![n] = S] \in [Node -> SUBSET Peer]
      BY <3>2, <3>3
    <3> QED BY <1>1, <2>1, <2>3, <3>4, <3>5 DEF Info
  <2> QED BY <1>2, <2>2, <2>3 DEF ln_db_annonod_save
<1>4. Types'
  BY <1>1, <1>2, <1>3, TypesFrom DEF Types, TypeOK, Scan
<1>5. Still
  BY <1>1, <1>2, <1>3, ScanSame DEF Still
<1> QED BY <1>4, <1>5, StillStep

\* A connection without initial_routing_sync.
LEMMA ConnectStep ==
    ASSUME GossipInv, sent' = {}, NEW p \in Peer, p \notin online,
           online' = online \cup {p}, scan' = [scan EXCEPT ![p] = NewScan],
           UNCHANGED <<info, has, events>>, UNCHANGED <<store, broken, spent, horizon, count>>
    PROVE  GossipInv'
<1>1. Types /\ scan \in [Peer -> Scan] /\ horizon \in Nat
  BY TypeFacts DEF GossipInv
<1>2. NewScan \in Scan /\ NewScan.last_annocnl_sci = 0
  BY DEF NewScan, Scan
<1>3. /\ scan' \in [Peer -> Scan]
      /\ \A q \in Peer : scan'[q] = IF q = p THEN NewScan ELSE scan[q]
  BY <1>1, <1>2
<1>4. UNCHANGED <<anno, upd, nod, known, own>>
  BY DEF store
<1>5. Types'
  BY <1>1, <1>3, <1>4, TypesFrom DEF Types, TypeOK, Info
<1>6. Still
  BY <1>1, <1>2, <1>3, <1>4 DEF Still, Passed
<1> QED BY <1>5, <1>6, StillStep

\* The end of the list.
LEMMA EndStep ==
    ASSUME GossipInv, sent' = {}, NEW p \in Peer,
           scan' = [scan EXCEPT ![p].last_anno_cnl = 0],
           UNCHANGED <<anno, upd, info, has, events>>,
           UNCHANGED <<nod, known, own, online, broken, spent, horizon>>
    PROVE  GossipInv'
<1>1. Types /\ scan \in [Peer -> Scan] /\ horizon \in Nat
  BY TypeFacts DEF GossipInv
<1>2. PICK s : s = [scan[p] EXCEPT !.last_anno_cnl = 0]
  OBVIOUS
<1>3. scan[p] \in Scan
  BY <1>1
<1>4. s \in Scan /\ s.last_annocnl_sci = scan[p].last_annocnl_sci
  BY <1>2, <1>3 DEF Scan
<1>5. scan' = [scan EXCEPT ![p] = s]
  BY <1>1, <1>2
<1>6. /\ scan' \in [Peer -> Scan]
      /\ \A q \in Peer : scan'[q] = IF q = p THEN s ELSE scan[q]
  BY <1>1, <1>4, <1>5
<1>7. Types'
  BY <1>1, <1>6, TypesFrom DEF Types, TypeOK, Info
<1>8. Still
  BY <1>1, <1>4, <1>6 DEF Still, Passed
<1> QED BY <1>7, <1>8, StillStep

\* anno_del_prune: what it removes is too old for anybody's update to matter.
LEMMA PruneStep ==
    ASSUME GossipInv, sent' = {}, anno_del_prune PROVE GossipInv'
<1>1. Types /\ Marked /\ Remembered
  BY DEF GossipInv
<1>2. /\ upd \in [Cnl -> Stamp] /\ horizon \in Nat /\ 0 \in Stamp
      /\ \A c \in Cnl : upd[c] \in Nat
      /\ \A p \in Peer, c \in Cnl : has[p].upd[c] \in Nat
  BY <1>1, TypeFacts, GossipAssumption DEF Stamp
<1>3. /\ UNCHANGED <<anno, nod, known, own, info, online, broken, scan, spent, horizon, has, events>>
      /\ upd' = [c \in Cnl |-> IF upd[c] =< horizon THEN 0 ELSE upd[c]]
  BY DEF anno_del_prune, ln_db_annocnlupd_is_prune
<1>4. /\ upd' \in [Cnl -> Stamp]
      /\ \A c \in Cnl : upd'[c] = upd[c] \/ (upd'[c] = 0 /\ upd[c] =< horizon)
  BY <1>2, <1>3
<1>5. Types'
  BY <1>1, <1>3, <1>4 DEF Types, TypeOK
<1>6. Marked'
  BY <1>1, <1>3 DEF Marked, MarkedAt, Passed
<1>7. Remembered'
  <2> SUFFICES ASSUME events \cap {"marks", "sync"} = {}, NEW p \in Peer, NEW c \in Cnl, c \notin spent
               PROVE  RememberedAt(p, c)'
    BY <1>3 DEF Remembered
  <2>1. RememberedAt(p, c)
    BY <1>1 DEF Remembered
  <2>2. CASE upd'[c] = upd[c]
    BY <1>3, <2>1, <2>2 DEF RememberedAt
  <2>3. CASE upd'[c] = 0 /\ upd[c] =< horizon
    <3>1. has[p].upd[c] > horizon => upd[c] = 0
      BY <1>2, <2>1, <2>3 DEF RememberedAt
    <3> QED BY <1>3, <2>1, <2>3, <3>1 DEF RememberedAt
  <2> QED BY <1>4, <2>2, <2>3
<1>8. AnnouncedFirst'
  BY DEF AnnouncedFirst
<1> QED BY <1>5, <1>6, <1>7, <1>8 DEF GossipInv

----------------------------------------------------------------------------
(* Updates that are stored.                                                *)

\* What ln_db_annocnlupd_save does, when the senders may have the update.
Saved(c, stamp, senders) ==
    /\ \A d \in Cnl : upd'[d] = IF d = c /\ upd[c] < stamp THEN stamp ELSE upd[d]
    /\ \A d \in Cnl : info'.upd[d] = IF d = c THEN annocnlupd_marks(c, stamp, senders) ELSE info.upd[d]
    /\ info'.anno = info.anno
    /\ events' = IF MarksOutdated(c, stamp, senders) THEN events \cup {"marks"} ELSE events
    /\ \A q \in Peer : has'[q].anno = has[q].anno
    /\ \A q \in Peer, d \in Cnl :
          \/ has'[q].upd[d] = has[q].upd[d]
          \/ q \in senders /\ d = c /\ has'[q].upd[d] = stamp
    /\ UNCHANGED <<scan, spent, horizon>>
    /\ sent' = {}

LEMMA SaveStep ==
    ASSUME GossipInv, Types', NEW c \in Cnl, NEW stamp \in Stamp, NEW senders, stamp > horizon,
           Saved(c, stamp, senders)
    PROVE  GossipInv'
<1>1. Types /\ Marked /\ Remembered
  BY DEF GossipInv
<1>2. /\ horizon \in Nat /\ stamp \in Nat /\ stamp # 0
      /\ \A d \in Cnl : upd[d] \in Nat
      /\ \A q \in Peer, d \in Cnl : has[q].upd[d] \in Nat
  BY <1>1, TypeFacts, GossipAssumption DEF Stamp
<1>3. Marked'
  <2>1. events \subseteq events'
    BY DEF Saved
  <2> SUFFICES ASSUME events \cap {"lost", "sync"} = {}, NEW p \in Peer PROVE MarkedAt(p)'
    BY <2>1 DEF Marked
  <2>2. MarkedAt(p)
    BY <1>1 DEF Marked
  <2> QED BY <2>2 DEF MarkedAt, Saved, Passed
<1>4. Remembered'
  <2> SUFFICES ASSUME events' \cap {"marks", "sync"} = {}, NEW p \in Peer, NEW d \in Cnl, d \notin spent'
               PROVE  RememberedAt(p, d)'
    BY DEF Remembered
  <2>1. events' = events /\ ~MarksOutdated(c, stamp, senders)
    BY DEF Saved
  <2>2. RememberedAt(p, d)
    BY <1>1, <2>1 DEF Remembered, Saved
  <2>3. CASE d # c
    <3>1. /\ upd'[d] = upd[d] /\ info'.upd[d] = info.upd[d] /\ info'.anno = info.anno
          /\ has'[p].anno = has[p].anno /\ has'[p].upd[d] = has[p].upd[d] /\ horizon' = horizon
      BY <2>3 DEF Saved
    <3> QED BY <2>2, <3>1 DEF RememberedAt
  <2>4. CASE d = c
    <3>1. PICK h, u, o, M :
             /\ h = has'[p].upd[c] /\ u = upd'[c] /\ o = upd[c] /\ M = info'.upd[c]
      OBVIOUS
    <3>2. /\ o =< stamp /\ u = stamp
          /\ has'[p].upd[c] = has[p].upd[c] \/ (p \in senders /\ has'[p].upd[c] = stamp)
      <4>1. ~(stamp < upd[c])
        BY <2>1 DEF MarksOutdated
      <4>2. upd'[c] = IF upd[c] < stamp THEN stamp ELSE upd[c]
        BY DEF Saved
      <4>3. upd[c] \in Nat
        BY <1>2
      <4>4. upd[c] =< stamp /\ upd'[c] = stamp
        BY <1>2, <4>1, <4>2, <4>3
      <4> QED BY <3>1, <4>4 DEF Saved
    <3>3. senders \subseteq M /\ (~(o # 0 /\ o < stamp) => info.upd[c] \subseteq M)
      <4>1. M = annocnlupd_marks(c, stamp, senders)
        BY <3>1 DEF Saved
      <4> QED BY <3>1, <4>1 DEF annocnlupd_marks
    <3>4. o = 0 => info.upd[c] = {}
      BY <2>1, <3>1 DEF MarksOutdated
    <3>5. h > horizon => h =< u /\ (h = u => p \in M)
      <4> SUFFICES ASSUME h > horizon PROVE h =< u /\ (h = u => p \in M)
        OBVIOUS
      <4>1. CASE p \in senders /\ h = stamp
        BY <1>2, <3>2, <3>3, <4>1
      <4>2. CASE h = has[p].upd[c]
        <5>1. /\ o = 0 => info.upd[c] # {}
              /\ o # 0 => h =< o /\ (h = o => p \in info.upd[c])
          BY <2>2, <2>4, <3>1, <4>2 DEF RememberedAt
        <5>2. o # 0 /\ h \in Nat /\ o \in Nat
          BY <1>2, <3>1, <3>4, <4>2, <5>1
        <5>3. h =< o /\ (h = o => p \in info.upd[c])
          BY <5>1, <5>2
        <5>4. CASE o < stamp
          BY <1>2, <3>2, <5>2, <5>3, <5>4
        <5>5. CASE o = stamp
          BY <1>2, <3>2, <3>3, <5>2, <5>3, <5>5
        <5> QED BY <1>2, <3>2, <5>2, <5>4, <5>5
      <4> QED BY <3>1, <3>2, <4>1, <4>2
    <3>6. c \in has'[p].anno => p \in info'.anno[c]
      BY <2>2, <2>4 DEF RememberedAt, Saved
    <3>7. upd'[c] # 0 /\ horizon' = horizon
      BY <1>2, <3>1, <3>2 DEF Saved
    <3>8. has'[p].upd[c] > horizon =>
            has'[p].upd[c] =< upd'[c] /\ (has'[p].upd[c] = upd'[c] => p \in info'.upd[c])
      BY <3>1, <3>5
    <3> QED BY <2>4, <3>6, <3>7, <3>8 DEF RememberedAt
  <2> QED BY <2>3, <2>4
<1>5. AnnouncedFirst'
  BY DEF AnnouncedFirst, Saved
<1> QED BY <1>3, <1>4, <1>5 DEF GossipInv

\* The variables after ln_db_annocnlupd_save.
LEMMA SaveFacts ==
    ASSUME Types, NEW c \in Cnl, NEW stamp \in Stamp, NEW senders \in SUBSET Peer,
           ln_db_annocnlupd_save(c, stamp, senders, info)
    PROVE  /\ upd' \in [Cnl -> Stamp] /\ info' \in Info
           /\ \A d \in Cnl : upd'[d] = IF d = c /\ upd[c] < stamp THEN stamp ELSE upd[d]
           /\ \A d \in Cnl : info'.upd[d] = IF d = c THEN annocnlupd_marks(c, stamp, senders)
                                                   ELSE info.upd[d]
           /\ info'.anno = info.anno
           /\ events' = IF MarksOutdated(c, stamp, senders) THEN events \cup {"marks"} ELSE events
           /\ events' \subseteq {"marks", "lost", "sync"}
<1>1. info \in Info /\ info.upd \in [Cnl -> SUBSET Peer] /\ upd \in [Cnl -> Stamp]
  BY TypeFacts
<1>2. PICK M : M = annocnlupd_marks(c, stamp, senders)
  OBVIOUS
<1>3. M \in SUBSET Peer
  BY <1>1, <1>2 DEF annocnlupd_marks
<1>4. PICK u : u = IF upd[c] < stamp THEN stamp ELSE upd[c]
  OBVIOUS
<1>5. u \in Stamp
  BY <1>1, <1>4
<1>6. PICK f : f = [info.upd EXCEPT ![c] = M]
  OBVIOUS
<1>7. f \in [Cnl -> SUBSET Peer] /\ \A d \in Cnl : f[d] = IF d = c THEN M ELSE info.upd[d]
  BY <1>1, <1>3, <1>6
<1>8. info' = [info EXCEPT !.upd = f]
  BY <1>1, <1>2, <1>6 DEF ln_db_annocnlupd_save, Info
<1>9. info' \in Info /\ info'.upd = f /\ info'.anno = info.anno
  BY <1>1, <1>7, <1>8 DEF Info
<1>10. upd' = [upd EXCEPT ![c] = u]
  BY <1>1, <1>4 DEF ln_db_annocnlupd_save
<1>11. upd' \in [Cnl -> Stamp] /\ \A d \in Cnl : upd'[d] = IF d = c THEN u ELSE upd[d]
  BY <1>1, <1>5, <1>10
<1>12. \A d \in Cnl : upd'[d] = IF d = c /\ upd[c] < stamp THEN stamp ELSE upd[d]
  BY <1>4, <1>11
<1>13. events' = IF MarksOutdated(c, stamp, senders) THEN events \cup {"marks"} ELSE events
  BY DEF ln_db_annocnlupd_save
<1>14. events' \subseteq {"marks", "lost", "sync"}
  BY <1>13 DEF Types
<1>15. \A d \in Cnl : info'.upd[d] = IF d = c THEN annocnlupd_marks(c, stamp, senders) ELSE info.upd[d]
  BY <1>2, <1>7, <1>9
<1> QED BY <1>9, <1>11, <1>12, <1>13, <1>14, <1>15

\* proc_anno_sigs, ln_channel_update_create and ln_close_change_stat.
LEMMA OwnStep ==
    ASSUME GossipInv, sent' = {}, NEW c \in Cnl, NEW stamp \in Stamp,
           \/ proc_anno_sigs(c, stamp) \/ ln_channel_update_create(c, stamp)
           \/ \E p \in Peer : DisableUpdate(p, c, stamp)
    PROVE  GossipInv'
<1>1. Types /\ info \in Info /\ info.anno \in [Cnl -> SUBSET Peer]
  BY TypeFacts DEF GossipInv
<1>2. ln_db_annocnl_save(c, {}) = info
  <2>1. [info.anno EXCEPT ![c] = info.anno[c] \cup {}] = info.anno
    BY <1>1
  <2>2. ln_db_annocnl_save(c, {}) = [info EXCEPT !.anno = [info.anno EXCEPT ![c] = info.anno[c] \cup {}]]
    BY <1>1 DEF ln_db_annocnl_save, Info
  <2> QED BY <1>1, <2>1, <2>2 DEF Info
<1>3. PICK senders \in SUBSET Peer : ln_db_annocnlupd_save(c, stamp, senders, info)
  BY <1>2 DEF proc_anno_sigs, ln_channel_update_create, DisableUpdate
<1>4. /\ UNCHANGED <<nod, own, online, broken, scan, spent, horizon, has>> /\ stamp > horizon
      /\ anno' \in {anno, anno \cup {c}} /\ known' \in {known, known \cup Ends[c]}
  BY DEF proc_anno_sigs, ln_channel_update_create, DisableUpdate, NewStamp
<1>5. /\ upd' \in [Cnl -> Stamp] /\ info' \in Info
      /\ \A d \in Cnl : upd'[d] = IF d = c /\ upd[c] < stamp THEN stamp ELSE upd[d]
      /\ \A d \in Cnl : info'.upd[d] = IF d = c THEN annocnlupd_marks(c, stamp, senders) ELSE info.upd[d]
      /\ info'.anno = info.anno
      /\ events' = IF MarksOutdated(c, stamp, senders) THEN events \cup {"marks"} ELSE events
      /\ events' \subseteq {"marks", "lost", "sync"}
  BY <1>1, <1>3, SaveFacts
<1>6. anno' \subseteq Cnl /\ known' \subseteq Node
  <2>1. Ends[c] \subseteq Node
    BY GossipAssumption
  <2> QED BY <1>1, <1>4, <2>1 DEF Types, TypeOK
<1>7. Types'
  BY <1>1, <1>4, <1>5, <1>6, TypesFrom DEF Types, TypeOK, Scan
<1>8. Saved(c, stamp, senders)
  BY <1>4, <1>5 DEF Saved
<1> QED BY <1>4, <1>7, <1>8, SaveStep

----------------------------------------------------------------------------
(* Messages of peers.                                                      *)

\* A peer has another update of one channel.
TakesUpdate(p, c, stamp) == has' = [has EXCEPT ![p].upd[c] = stamp]

LEMMA HasUpdate ==
    ASSUME has \in [Peer -> Have], NEW p \in Peer, NEW c \in Cnl, NEW stamp \in Stamp,
           TakesUpdate(p, c, stamp)
    PROVE  /\ has' \in [Peer -> Have]
           /\ \A q \in Peer : has'[q].anno = has[q].anno
           /\ \A q \in Peer, d \in Cnl :
                 has'[q].upd[d] = IF q = p /\ d = c THEN stamp ELSE has[q].upd[d]
<1>1. PICK r : r = has[p]
  OBVIOUS
<1>2. r \in Have /\ r.upd \in [Cnl -> Stamp]
  BY <1>1 DEF Have
<1>3. PICK f : f = [r.upd EXCEPT ![c] = stamp]
  OBVIOUS
<1>4. f \in [Cnl -> Stamp] /\ \A d \in Cnl : f[d] = IF d = c THEN stamp ELSE r.upd[d]
  BY <1>2, <1>3
<1>5. PICK s : s = [r EXCEPT !.upd = f]
  OBVIOUS
<1>6. s \in Have /\ s.upd = f /\ s.anno = r.anno
  BY <1>2, <1>4, <1>5 DEF Have
<1>7. has' = [has EXCEPT ![p] = s]
  <2>1. s = [has[p] EXCEPT !.upd[c] = stamp]
    BY <1>1, <1>2, <1>3, <1>5 DEF Have
  <2> QED BY <2>1 DEF TakesUpdate
<1>8. has' \in [Peer -> Have] /\ \A q \in Peer : has'[q] = IF q = p THEN s ELSE has[q]
  BY <1>6, <1>7
<1>9. \A q \in Peer : has'[q].anno = has[q].anno
  BY <1>1, <1>6, <1>8
<1>10. ASSUME NEW q \in Peer, NEW d \in Cnl
       PROVE  has'[q].upd[d] = IF q = p /\ d = c THEN stamp ELSE has[q].upd[d]
  <2>1. CASE q = p
    <3>1. has'[q].upd = f /\ has[q].upd = r.upd
      BY <1>1, <1>6, <1>8, <2>1
    <3> QED BY <1>4, <2>1, <3>1
  <2>2. CASE q # p
    BY <1>8, <2>2
  <2> QED BY <2>1, <2>2
<1> QED BY <1>8, <1>9, <1>10

LEMMA UpdateStep ==
    ASSUME GossipInv, sent' = {}, NEW p \in Peer, NEW c \in Cnl, NEW stamp \in Stamp,
           recv_channel_update(p, c, stamp)
    PROVE  GossipInv'
<1>1. /\ Types /\ Marked /\ Remembered /\ has \in [Peer -> Have]
      /\ horizon \in Nat /\ stamp \in Nat
  BY TypeFacts, GossipAssumption DEF GossipInv, Stamp
<1>2. /\ UNCHANGED <<anno, nod, known, own, online, broken, scan, spent, horizon>>
      /\ TakesUpdate(p, c, stamp)
  BY DEF recv_channel_update, Received, TakesUpdate
<1>3. /\ has' \in [Peer -> Have]
      /\ \A q \in Peer : has'[q].anno = has[q].anno
      /\ \A q \in Peer, d \in Cnl :
            has'[q].upd[d] = IF q = p /\ d = c THEN stamp ELSE has[q].upd[d]
  BY <1>1, <1>2, HasUpdate
<1>4. CASE stamp =< horizon
  <2>1. UNCHANGED <<upd, info, events>>
    BY <1>4 DEF recv_channel_update, ln_db_annocnlupd_is_prune
  <2>2. Types'
    BY <1>1, <1>2, <1>3, <2>1 DEF Types, TypeOK
  <2>3. Marked'
    <3> SUFFICES ASSUME events \cap {"lost", "sync"} = {}, NEW q \in Peer PROVE MarkedAt(q)'
      BY <2>1 DEF Marked
    <3>1. MarkedAt(q)
      BY <1>1 DEF Marked
    <3> QED BY <1>2, <1>3, <2>1, <3>1 DEF MarkedAt, Passed
  <2>4. Remembered'
    <3> SUFFICES ASSUME events \cap {"marks", "sync"} = {}, NEW q \in Peer, NEW d \in Cnl, d \notin spent
                 PROVE  RememberedAt(q, d)'
      BY <1>2, <2>1 DEF Remembered
    <3>1. RememberedAt(q, d)
      BY <1>1 DEF Remembered
    <3>2. has'[q].upd[d] = has[q].upd[d] \/ has'[q].upd[d] = stamp
      BY <1>3
    <3>3. CASE has'[q].upd[d] = has[q].upd[d]
      BY <1>2, <1>3, <2>1, <3>1, <3>3 DEF RememberedAt
    <3>4. CASE has'[q].upd[d] = stamp
      <4>1. ~(has'[q].upd[d] > horizon)
        BY <1>1, <1>4, <3>4
      <4> QED BY <1>2, <1>3, <2>1, <3>1, <4>1 DEF RememberedAt
    <3> QED BY <3>2, <3>3, <3>4
  <2>5. AnnouncedFirst'
    BY DEF AnnouncedFirst
  <2> QED BY <2>2, <2>3, <2>4, <2>5 DEF GossipInv
<1>5. CASE stamp > horizon
  <2>1. ln_db_annocnlupd_save(c, stamp, {p}, info)
    BY <1>1, <1>5 DEF recv_channel_update, ln_db_annocnlupd_is_prune
  <2>2. /\ upd' \in [Cnl -> Stamp] /\ info' \in Info
        /\ \A d \in Cnl : upd'[d] = IF d = c /\ upd[c] < stamp THEN stamp ELSE upd[d]
        /\ \A d \in Cnl : info'.upd[d] = IF d = c THEN annocnlupd_marks(c, stamp, {p}) ELSE info.upd[d]
        /\ info'.anno = info.anno
        /\ events' = IF MarksOutdated(c, stamp, {p}) THEN events \cup {"marks"} ELSE events
        /\ events' \subseteq {"marks", "lost", "sync"}
    <3>1. {p} \in SUBSET Peer
      OBVIOUS
    <3> QED BY <1>1, <2>1, <3>1, SaveFacts
  <2>3. Types'
    BY <1>1, <1>2, <1>3, <2>2, TypesFrom DEF Types, TypeOK, Scan
  <2>4. Saved(c, stamp, {p})
    <3>1. \A q \in Peer, d \in Cnl :
             \/ has'[q].upd[d] = has[q].upd[d]
             \/ q \in {p} /\ d = c /\ has'[q].upd[d] = stamp
      BY <1>3
    <3>2. \A q \in Peer : has'[q].anno = has[q].anno
      BY <1>3
    <3> QED BY <1>2, <2>2, <3>1, <3>2, Zenon DEF Saved
  <2> QED BY <1>5, <2>3, <2>4, SaveStep
<1> QED BY <1>1, <1>4, <1>5

LEMMA AnnouncementStep ==
    ASSUME GossipInv, sent' = {}, NEW p \in Peer, NEW c \in Cnl,
           recv_channel_announcement(p, c)
    PROVE  GossipInv'
<1>1. /\ Types /\ Marked /\ Remembered /\ has \in [Peer -> Have] /\ info \in Info
      /\ info.anno \in [Cnl -> SUBSET Peer]
  BY TypeFacts DEF GossipInv
<1>2. /\ UNCHANGED <<upd, nod, own, events, online, broken, scan, spent, horizon>>
      /\ anno' = anno \cup {c} /\ known' = known \cup Ends[c]
      /\ has' = [has EXCEPT ![p].anno = @ \cup {c}]
      /\ info' = [info EXCEPT !.anno[c] = @ \cup {p}]
  BY DEF recv_channel_announcement, Received, ln_db_annocnl_save
<1>3. /\ has' \in [Peer -> Have]
      /\ \A q \in Peer : /\ has'[q].anno = IF q = p THEN has[p].anno \cup {c} ELSE has[q].anno
                         /\ has'[q].upd = has[q].upd
  <2>1. PICK r : r = [has[p] EXCEPT !.anno = has[p].anno \cup {c}]
    OBVIOUS
  <2>2. has[p] \in Have
    BY <1>1
  <2>3. r \in Have /\ r.anno = has[p].anno \cup {c} /\ r.upd = has[p].upd
    BY <2>1, <2>2 DEF Have
  <2>4. has' = [has EXCEPT ![p] = r]
    BY <1>1, <1>2, <2>1
  <2>5. has' \in [Peer -> Have] /\ \A q \in Peer : has'[q] = IF q = p THEN r ELSE has[q]
    BY <1>1, <2>3, <2>4
  <2> QED BY <2>3, <2>5
<1>4. /\ info' \in Info /\ info'.upd = info.upd
      /\ \A d \in Cnl : info'.anno[d] = IF d = c THEN info.anno[c] \cup {p} ELSE info.anno[d]
  <2>1. PICK f : f = [info.anno EXCEPT ![c] = info.anno[c] \cup {p}]
    OBVIOUS
  <2>2. /\ f \in [Cnl -> SUBSET Peer]
        /\ \A d \in Cnl : f[d] = IF d = c THEN info.anno[c] \cup {p} ELSE info.anno[d]
    BY <1>1, <2>1
  <2>3. info' = [info EXCEPT !.anno = f]
    BY <1>1, <1>2, <2>1 DEF Info
  <2>4. info' \in Info /\ info'.upd = info.upd /\ info'.anno = f
    BY <1>1, <2>2, <2>3 DEF Info
  <2> QED BY <2>2, <2>4
<1>5. Types'
  <2>1. Ends[c] \subseteq Node
    BY GossipAssumption
  <2>2. anno' \subseteq Cnl /\ known' \subseteq Node
    BY <1>1, <1>2, <2>1 DEF Types, TypeOK
  <2> QED BY <1>1, <1>2, <1>3, <1>4, <2>2, TypesFrom DEF Types, TypeOK, Scan
<1>6. Marked'
  <2> SUFFICES ASSUME events \cap {"lost", "sync"} = {}, NEW q \in Peer PROVE MarkedAt(q)'
    BY <1>2 DEF Marked
  <2>1. MarkedAt(q)
    BY <1>1 DEF Marked
  <2>2. \A d \in Cnl : q \in info'.anno[d] => d \in has'[q].anno
    BY <1>3, <1>4, <2>1 DEF MarkedAt
  <2>3. Passed(q)' \in Cnl \ spent' => Passed(q)' \in has'[q].anno
    BY <1>2, <1>3, <2>1 DEF MarkedAt, Passed
  <2> QED BY <2>2, <2>3 DEF MarkedAt
<1>7. Remembered'
  <2> SUFFICES ASSUME events \cap {"marks", "sync"} = {}, NEW q \in Peer, NEW d \in Cnl, d \notin spent
               PROVE  RememberedAt(q, d)'
    BY <1>2 DEF Remembered
  <2>1. RememberedAt(q, d)
    BY <1>1 DEF Remembered
  <2>2. d \in has'[q].anno => q \in info'.anno[d]
    BY <1>3, <1>4, <2>1 DEF RememberedAt
  <2> QED BY <1>2, <1>3, <1>4, <2>1, <2>2 DEF RememberedAt
<1>8. AnnouncedFirst'
  BY DEF AnnouncedFirst
<1> QED BY <1>5, <1>6, <1>7, <1>8 DEF GossipInv

----------------------------------------------------------------------------
(* A peer that asks for everything.                                        *)

LEMMA TrimFacts ==
    ASSUME NEW D, NEW marks \in [D -> SUBSET Peer], NEW p \in Peer,
           NEW garbage \in [Crowded(marks, p) -> SUBSET Peer]
    PROVE  /\ annoinfo_cur_trim(marks, p, garbage) \in [D -> SUBSET Peer]
           /\ Crowded(marks, p) = {} =>
                \A k \in D : annoinfo_cur_trim(marks, p, garbage)[k] = marks[k] \ {p}
BY DEF annoinfo_cur_trim, Crowded

LEMMA SyncStep ==
    ASSUME GossipInv, sent' = {}, NEW p \in Peer, p \notin online,
           online' = online \cup {p}, scan' = [scan EXCEPT ![p] = NewScan],
           ln_db_annoinfos_del(p), UNCHANGED <<store, broken, spent, horizon, count>>
    PROVE  GossipInv'
<1>1. /\ Types /\ Marked /\ Remembered /\ scan \in [Peer -> Scan] /\ has \in [Peer -> Have]
      /\ info \in Info /\ info.anno \in [Cnl -> SUBSET Peer] /\ info.upd \in [Cnl -> SUBSET Peer]
      /\ info.nod \in [Node -> SUBSET Peer] /\ horizon \in Nat
  BY TypeFacts DEF GossipInv
<1>2. UNCHANGED <<anno, upd, nod, known, own>>
  BY DEF store
<1>3. /\ scan' \in [Peer -> Scan] /\ Passed(p)' = 0
      /\ \A q \in Peer : q # p => Passed(q)' = Passed(q)
  <2>1. NewScan \in Scan /\ NewScan.last_annocnl_sci = 0
    BY DEF NewScan, Scan
  <2> QED BY <1>1, <2>1 DEF Passed
<1>4. /\ has' \in [Peer -> Have] /\ has'[p].anno = {}
      /\ \A c \in Cnl : has'[p].upd[c] = 0
      /\ \A q \in Peer : q # p => has'[q] = has[q]
  <2>1. /\ NoneHave \in Have /\ NoneHave.anno = {}
        /\ \A c \in Cnl : NoneHave.upd[c] = 0
    BY GossipAssumption DEF NoneHave, Have, Stamp
  <2>2. has' = [has EXCEPT ![p] = NoneHave]
    BY DEF ln_db_annoinfos_del
  <2>3. \A q \in Peer : has'[q] = IF q = p THEN NoneHave ELSE has[q]
    BY <1>1, <2>2
  <2> QED BY <1>1, <2>1, <2>2, <2>3
<1>5. /\ events \subseteq events' /\ events' \subseteq {"marks", "lost", "sync"}
      /\ "sync" \notin events' => Crowded(info.anno, p) = {} /\ Crowded(info.upd, p) = {}
      /\ "marks" \notin events' => Forgotten(p) = {}
  <2>1. "anno" \in DOMAIN info /\ "upd" \in DOMAIN info
    BY <1>1 DEF Info
  <2>2. events' = (events \cup {e \in {"sync"} : \E k \in DOMAIN info : Crowded(info[k], p) # {}})
                   \cup {e \in {"marks"} : Forgotten(p) # {}}
    BY DEF ln_db_annoinfos_del
  <2>3. (\E k \in DOMAIN info : Crowded(info[k], p) # {}) => "sync" \in events'
    BY <2>2
  <2> QED BY <1>1, <2>1, <2>2, <2>3 DEF Types
<1>6. /\ info' \in Info
      /\ Crowded(info.anno, p) = {} => \A c \in Cnl : info'.anno[c] = info.anno[c] \ {p}
      /\ Crowded(info.upd, p) = {} => \A c \in Cnl : info'.upd[c] = info.upd[c] \ {p}
  <2>1. PICK ga \in [Crowded(info.anno, p) -> SUBSET Peer],
             gu \in [Crowded(info.upd, p) -> SUBSET Peer],
             gn \in [Crowded(info.nod, p) -> SUBSET Peer] :
               info' = [ anno |-> annoinfo_cur_trim(info.anno, p, ga),
                         upd |-> annoinfo_cur_trim(info.upd, p, gu),
                         nod |-> annoinfo_cur_trim(info.nod, p, gn) ]
    BY DEF ln_db_annoinfos_del
  <2>2. PICK fa, fu, fn : /\ fa = annoinfo_cur_trim(info.anno, p, ga)
                          /\ fu = annoinfo_cur_trim(info.upd, p, gu)
                          /\ fn = annoinfo_cur_trim(info.nod, p, gn)
    OBVIOUS
  <2>3. /\ fa \in [Cnl -> SUBSET Peer]
        /\ Crowded(info.anno, p) = {} => \A c \in Cnl : fa[c] = info.anno[c] \ {p}
    BY <1>1, <2>2, TrimFacts
  <2>4. /\ fu \in [Cnl -> SUBSET Peer]
        /\ Crowded(info.upd, p) = {} => \A c \in Cnl : fu[c] = info.upd[c] \ {p}
    BY <1>1, <2>2, TrimFacts
  <2>5. fn \in [Node -> SUBSET Peer]
    BY <1>1, <2>2, TrimFacts
  <2>6. info' = [anno |-> fa, upd |-> fu, nod |-> fn]
    BY <2>1, <2>2
  <2>7. info' \in Info /\ info'.anno = fa /\ info'.upd = fu
    BY <2>3, <2>4, <2>5, <2>6 DEF Info
  <2> QED BY <2>3, <2>4, <2>7
<1>7. Types'
  <2>1. online' \subseteq Peer /\ broken' \subseteq online'
    BY <1>1 DEF Types, TypeOK
  <2> QED BY <1>1, <1>2, <1>3, <1>4, <1>5, <1>6, <2>1, TypesFrom DEF Types, TypeOK
<1>8. Marked'
  <2> SUFFICES ASSUME events' \cap {"lost", "sync"} = {}, NEW q \in Peer PROVE MarkedAt(q)'
    BY DEF Marked
  <2>1. MarkedAt(q)
    BY <1>1, <1>5 DEF Marked
  <2>2. \A c \in Cnl : info'.anno[c] = info.anno[c] \ {p}
    BY <1>5, <1>6
  <2>3. CASE q = p
    BY <1>3, <2>2, <2>3 DEF MarkedAt, Cnl
  <2>4. CASE q # p
    BY <1>3, <1>4, <2>1, <2>2, <2>4 DEF MarkedAt
  <2> QED BY <2>3, <2>4
<1>9. Remembered'
  <2> SUFFICES ASSUME events' \cap {"marks", "sync"} = {}, NEW q \in Peer, NEW c \in Cnl, c \notin spent
               PROVE  RememberedAt(q, c)'
    BY DEF Remembered
  <2>1. RememberedAt(q, c)
    BY <1>1, <1>5 DEF Remembered
  <2>2. info'.anno[c] = info.anno[c] \ {p} /\ info'.upd[c] = info.upd[c] \ {p} /\ Forgotten(p) = {}
    BY <1>5, <1>6
  <2>3. CASE q = p
    <3>1. ~(has'[q].upd[c] > horizon)
      BY <1>1, <1>4, <2>3
    <3> QED BY <1>4, <2>3, <3>1 DEF RememberedAt
  <2>4. CASE q # p
    <3>1. upd[c] = 0 /\ info.upd[c] # {} => info'.upd[c] # {}
      BY <2>2 DEF Forgotten
    <3> QED BY <1>2, <1>4, <2>1, <2>2, <2>4, <3>1 DEF RememberedAt
  <2> QED BY <2>3, <2>4
<1>10. AnnouncedFirst'
  BY DEF AnnouncedFirst
<1> QED BY <1>7, <1>8, <1>9, <1>10 DEF GossipInv

----------------------------------------------------------------------------
(* The walk of an announce thread.                                         *)

\* send_anno_pre_chan: the channel of a spent funding output is removed.
LEMMA DeleteStep ==
    ASSUME GossipInv, sent' = {}, NEW p \in Peer, NEW c \in Cnl, c \in spent,
           ln_db_annocnlall_del(c), scan' = [scan EXCEPT ![p].last_annocnl_sci = c],
           UNCHANGED <<has, events>>,
           UNCHANGED <<nod, known, own, online, broken, spent, horizon>>
    PROVE  GossipInv'
<1>1. /\ Types /\ Marked /\ Remembered /\ scan \in [Peer -> Scan] /\ info \in Info
      /\ info.anno \in [Cnl -> SUBSET Peer] /\ info.upd \in [Cnl -> SUBSET Peer]
      /\ upd \in [Cnl -> Stamp]
  BY TypeFacts DEF GossipInv
<1>2. /\ scan' \in [Peer -> Scan] /\ Passed(p)' = c
      /\ \A q \in Peer : q # p => Passed(q)' = Passed(q)
  <2>1. PICK s : s = [scan[p] EXCEPT !.last_annocnl_sci = c]
    OBVIOUS
  <2>2. scan[p] \in Scan
    BY <1>1
  <2>3. s \in Scan /\ s.last_annocnl_sci = c
    BY <2>1, <2>2 DEF Scan
  <2>4. scan' = [scan EXCEPT ![p] = s]
    BY <1>1, <2>1
  <2>5. /\ scan' \in [Peer -> Scan]
        /\ \A q \in Peer : scan'[q] = IF q = p THEN s ELSE scan[q]
    BY <1>1, <2>3, <2>4
  <2> QED BY <2>3, <2>5 DEF Passed
<1>3. /\ info' \in Info /\ info'.anno[c] = {}
      /\ \A d \in Cnl : d # c => info'.anno[d] = info.anno[d] /\ info'.upd[d] = info.upd[d]
  <2>1. PICK f, g : f = [info.anno EXCEPT ![c] = {}] /\ g = [info.upd EXCEPT ![c] = {}]
    OBVIOUS
  <2>2. /\ f \in [Cnl -> SUBSET Peer] /\ g \in [Cnl -> SUBSET Peer] /\ f[c] = {}
        /\ \A d \in Cnl : d # c => f[d] = info.anno[d] /\ g[d] = info.upd[d]
    BY <1>1, <2>1
  <2>3. info' = [info EXCEPT !.anno = f, !.upd = g]
    BY <1>1, <2>1 DEF ln_db_annocnlall_del, Info
  <2>4. info' \in Info /\ info'.anno = f /\ info'.upd = g
    BY <1>1, <2>2, <2>3 DEF Info
  <2> QED BY <2>2, <2>4
<1>4. /\ upd' \in [Cnl -> Stamp] /\ \A d \in Cnl : d # c => upd'[d] = upd[d]
  <2>1. 0 \in Stamp
    BY GossipAssumption DEF Stamp
  <2> QED BY <1>1, <2>1 DEF ln_db_annocnlall_del
<1>5. Types'
  <2>1. anno' \subseteq Cnl
    BY <1>1 DEF Types, TypeOK, ln_db_annocnlall_del
  <2> QED BY <1>1, <1>2, <1>3, <1>4, <2>1, TypesFrom DEF Types, TypeOK
<1>6. Marked'
  <2> SUFFICES ASSUME events \cap {"lost", "sync"} = {}, NEW q \in Peer PROVE MarkedAt(q)'
    BY DEF Marked
  <2>1. MarkedAt(q)
    BY <1>1 DEF Marked
  <2>2. \A d \in Cnl : q \in info'.anno[d] => d \in has'[q].anno
    BY <1>3, <2>1 DEF MarkedAt
  <2>3. Passed(q)' \in Cnl \ spent' => Passed(q)' \in has'[q].anno
    BY <1>2, <2>1 DEF MarkedAt
  <2> QED BY <2>2, <2>3 DEF MarkedAt
<1>7. Remembered'
  <2> SUFFICES ASSUME events \cap {"marks", "sync"} = {}, NEW q \in Peer, NEW d \in Cnl, d \notin spent
               PROVE  RememberedAt(q, d)'
    BY DEF Remembered
  <2>1. RememberedAt(q, d) /\ d # c
    BY <1>1 DEF Remembered
  <2> QED BY <1>3, <1>4, <2>1 DEF RememberedAt
<1>8. AnnouncedFirst'
  BY DEF AnnouncedFirst
<1> QED BY <1>5, <1>6, <1>7, <1>8 DEF GossipInv

\* What is sent is what the peer is not marked for.
LEMMA ToSendFacts ==
    ASSUME Types, NEW p \in Peer, NEW c \in Cnl, NEW sci, NEW m, m = ToSend(p, c, sci)
    PROVE  /\ m \in Message /\ m.to = p /\ m.c = c
           /\ m.anno = (c \in anno /\ p \notin info.anno[c])
           /\ m.upd \in {0, upd[c]}
           /\ m.upd > 0 => /\ p \notin info.upd[c] /\ ~Removable(c, sci) /\ sci = c
                           /\ upd[c] > horizon
<1>1. /\ upd[c] \in Nat /\ upd[c] \in Stamp /\ horizon \in Nat /\ 0 \in Stamp
  BY TypeFacts, GossipAssumption DEF Stamp
<1>2. PICK N : N = IF c \in anno THEN ToSendNodes(p, c) ELSE {}
  OBVIOUS
<1>3. N \subseteq Node
  BY <1>2, GossipAssumption DEF ToSendNodes
<1>4. PICK u : u = IF p \in info.upd[c] \/ Removable(c, sci) \/ ~UpdateFollows(sci, c) THEN 0 ELSE upd[c]
  OBVIOUS
<1>5. u \in {0, upd[c]} /\ (u > 0 => p \notin info.upd[c] /\ ~Removable(c, sci) /\ sci = c /\ u = upd[c])
  BY <1>4 DEF UpdateFollows
<1>6. PICK a : a = (c \in anno /\ p \notin info.anno[c])
  OBVIOUS
<1>7. m = [to |-> p, c |-> c, anno |-> a, nodes |-> N, upd |-> u]
  BY <1>2, <1>4, <1>6 DEF ToSend
<1>8. a \in BOOLEAN
  BY <1>6
<1>9. m \in Message /\ m.to = p /\ m.c = c /\ m.anno = a /\ m.upd = u
  BY <1>1, <1>3, <1>5, <1>7, <1>8 DEF Message
<1>10. u > 0 => upd[c] > horizon
  BY <1>1, <1>5 DEF Removable, ln_db_annocnlupd_is_prune
<1> QED BY <1>5, <1>6, <1>9, <1>10

LEMMA MarkFacts ==
    ASSUME Types, NEW m \in Message
    PROVE  /\ MarkSent(m) \in Info
           /\ \A d \in Cnl : /\ MarkSent(m).anno[d] =
                                  IF d = m.c /\ m.anno THEN info.anno[d] \cup {m.to} ELSE info.anno[d]
                             /\ MarkSent(m).upd[d] =
                                  IF d = m.c /\ m.upd > 0 THEN info.upd[d] \cup {m.to} ELSE info.upd[d]
<1>1. /\ info \in Info
      /\ info.anno \in [Cnl -> SUBSET Peer] /\ info.upd \in [Cnl -> SUBSET Peer]
      /\ info.nod \in [Node -> SUBSET Peer]
  BY TypeFacts
<1>2. m.to \in Peer /\ m.c \in Cnl
  BY DEF Message
<1>3. PICK A, U : /\ A = IF m.anno THEN info.anno[m.c] \cup {m.to} ELSE info.anno[m.c]
                  /\ U = IF m.upd > 0 THEN info.upd[m.c] \cup {m.to} ELSE info.upd[m.c]
  OBVIOUS
<1>4. A \in SUBSET Peer /\ U \in SUBSET Peer
  BY <1>1, <1>2, <1>3
<1>5. PICK f, g, h : /\ f = [info.anno EXCEPT ![m.c] = A] /\ g = [info.upd EXCEPT ![m.c] = U]
                     /\ h = [n \in Node |-> IF n \in m.nodes THEN info.nod[n] \cup {m.to} ELSE info.nod[n]]
  OBVIOUS
<1>6. /\ f \in [Cnl -> SUBSET Peer] /\ \A d \in Cnl : f[d] = IF d = m.c THEN A ELSE info.anno[d]
      /\ g \in [Cnl -> SUBSET Peer] /\ \A d \in Cnl : g[d] = IF d = m.c THEN U ELSE info.upd[d]
      /\ h \in [Node -> SUBSET Peer]
  BY <1>1, <1>2, <1>4, <1>5
<1>7. MarkSent(m) = [info EXCEPT !.anno = f, !.upd = g, !.nod = h]
  BY <1>1, <1>3, <1>5 DEF MarkSent, Info
<1>8. MarkSent(m) \in Info /\ MarkSent(m).anno = f /\ MarkSent(m).upd = g
  BY <1>1, <1>6, <1>7 DEF Info
<1>9. \A d \in Cnl : f[d] = IF d = m.c /\ m.anno THEN info.anno[d] \cup {m.to} ELSE info.anno[d]
  BY <1>3, <1>6
<1>10. \A d \in Cnl : g[d] = IF d = m.c /\ m.upd > 0 THEN info.upd[d] \cup {m.to} ELSE info.upd[d]
  BY <1>3, <1>6
<1> QED BY <1>8, <1>9, <1>10

LEMMA DeliverFacts ==
    ASSUME Types, NEW m \in Message, Deliver(m)
    PROVE  /\ has' \in [Peer -> Have]
           /\ \A q \in Peer : q # m.to => has'[q] = has[q]
           /\ m.to \in broken => has' = has
           /\ m.to \notin broken =>
                 has'[m.to].anno = IF m.anno THEN has[m.to].anno \cup {m.c} ELSE has[m.to].anno
           /\ \A d \in Cnl : has'[m.to].upd[d] \in {has[m.to].upd[d]} \cup
                 {u \in {m.upd} : d = m.c /\ m.upd > has[m.to].upd[d]}
<1>1. has \in [Peer -> Have] /\ m.to \in Peer /\ m.c \in Cnl /\ m.upd \in Stamp
  BY TypeFacts DEF Message
<1>2. CASE m.to \in broken
  BY <1>1, <1>2 DEF Deliver
<1>3. CASE m.to \notin broken
  <2>1. PICK r : r = has[m.to]
    OBVIOUS
  <2>2. r \in Have /\ r.anno \subseteq Cnl /\ r.upd \in [Cnl -> Stamp]
    BY <1>1, <2>1 DEF Have
  <2>3. PICK a, n : a = (IF m.anno THEN r.anno \cup {m.c} ELSE r.anno) /\ n = Newer(r.upd[m.c], m.upd)
    OBVIOUS
  <2>4. a \subseteq Cnl /\ n \in Stamp /\ (n = r.upd[m.c] \/ (n = m.upd /\ m.upd > r.upd[m.c]))
    <3>1. r.upd[m.c] \in Stamp /\ Stamp \subseteq Nat
      BY <1>1, <2>2, GossipAssumption DEF Stamp
    <3>2. PICK o : o = r.upd[m.c]
      OBVIOUS
    <3>3. n = IF o > m.upd THEN o ELSE m.upd
      BY <2>3, <3>2 DEF Newer
    <3>4. o \in Nat /\ m.upd \in Nat
      BY <1>1, <3>1, <3>2
    <3>5. n = o \/ (n = m.upd /\ m.upd > o)
      BY <3>3, <3>4
    <3> QED BY <1>1, <2>2, <2>3, <3>1, <3>2, <3>5
  <2>5. PICK f : f = [d \in Cnl |-> IF d = m.c THEN Newer(r.upd[d], m.upd) ELSE r.upd[d]]
    OBVIOUS
  <2>6. f \in [Cnl -> Stamp] /\ \A d \in Cnl : f[d] = IF d = m.c THEN n ELSE r.upd[d]
    BY <1>1, <2>2, <2>3, <2>4, <2>5
  <2>7. PICK s : s = [anno |-> a, upd |-> f]
    OBVIOUS
  <2>8. s \in Have /\ s.anno = a /\ s.upd = f
    BY <2>4, <2>6, <2>7 DEF Have
  <2>9. has' = [has EXCEPT ![m.to] = s]
    <3>1. s = [anno |-> IF m.anno THEN has[m.to].anno \cup {m.c} ELSE has[m.to].anno,
               upd |-> [d \in Cnl |-> IF d = m.c THEN Newer(has[m.to].upd[d], m.upd)
                                      ELSE has[m.to].upd[d]]]
      BY <2>1, <2>3, <2>5, <2>7, Zenon
    <3> QED BY <1>3, <3>1, Zenon DEF Deliver
  <2>10. has' \in [Peer -> Have] /\ \A q \in Peer : has'[q] = IF q = m.to THEN s ELSE has[q]
    BY <1>1, <2>8, <2>9
  <2>11. has'[m.to].anno = a /\ has'[m.to].upd = f
    BY <1>1, <2>8, <2>10
  <2>12. ASSUME NEW d \in Cnl
         PROVE  has'[m.to].upd[d] = has[m.to].upd[d] \/
                   (d = m.c /\ m.upd > has[m.to].upd[d] /\ has'[m.to].upd[d] = m.upd)
    <3>1. has'[m.to].upd[d] = f[d] /\ has[m.to].upd[d] = r.upd[d]
      BY <2>1, <2>11
    <3> QED BY <2>4, <2>6, <3>1
  <2>13. has'[m.to].anno = IF m.anno THEN has[m.to].anno \cup {m.c} ELSE has[m.to].anno
    BY <2>1, <2>3, <2>11
  <2> QED BY <1>3, <2>10, <2>12, <2>13
<1> QED BY <1>2, <1>3

\* The variables after the pass over one channel.
LEMMA PassFacts ==
    ASSUME Types, NEW p \in Peer, NEW c \in Cnl, NEW sci \in Cnl \cup {0}, NEW m, NEW rest \in SUBSET Cnl,
           SendChannel(p, c, sci, m, rest)
    PROVE  /\ scan' \in [Peer -> Scan] /\ Passed(p)' = sci
           /\ \A q \in Peer : q # p => Passed(q)' = Passed(q)
           /\ upd' \in [Cnl -> Stamp]
           /\ \A d \in Cnl : upd'[d] = IF d = c /\ Removable(c, sci) THEN 0 ELSE upd[d]
           /\ events \subseteq events' /\ events' \subseteq {"marks", "lost", "sync"}
           /\ p \in broken => "lost" \in events'
           /\ Vanishes(c, sci) => "marks" \in events'
<1>1. scan \in [Peer -> Scan] /\ scan[p] \in Scan /\ upd \in [Cnl -> Stamp] /\ 0 \in Stamp
  BY TypeFacts, GossipAssumption DEF Stamp
<1>2. /\ upd' \in [Cnl -> Stamp]
      /\ \A d \in Cnl : upd'[d] = IF d = c /\ Removable(c, sci) THEN 0 ELSE upd[d]
  <2>1. CASE Removable(c, sci)
    <3>1. upd' = [upd EXCEPT ![c] = 0]
      BY <2>1 DEF SendChannel
    <3> QED BY <1>1, <2>1, <3>1
  <2>2. CASE ~Removable(c, sci)
    <3>1. upd' = upd
      BY <2>2 DEF SendChannel
    <3> QED BY <1>1, <2>2, <3>1
  <2> QED BY <2>1, <2>2
<1>3. PICK s \in Scan : s.last_annocnl_sci = sci /\ scan' = [scan EXCEPT ![p] = s]
  <2>1. CASE Removable(c, sci)
    <3>1. PICK s : s = [scan[p] EXCEPT !.last_annocnl_sci = sci]
      OBVIOUS
    <3>2. s \in Scan /\ s.last_annocnl_sci = sci
      BY <1>1, <3>1 DEF Scan
    <3>3. scan' = [scan EXCEPT ![p] = s]
      BY <2>1, <3>1 DEF SendChannel
    <3> QED BY <3>2, <3>3
  <2>2. CASE ~Removable(c, sci)
    <3>1. PICK l : l = IF rest = {} THEN 0 ELSE Min(rest)
      OBVIOUS
    <3>2. l \in Cnl \cup {0}
      BY <3>1, MinFacts
    <3>3. PICK s : s = [last_annocnl_sci |-> sci, last_anno_cnl |-> l]
      OBVIOUS
    <3>4. s \in Scan /\ s.last_annocnl_sci = sci
      BY <3>2, <3>3 DEF Scan
    <3>5. scan' = [scan EXCEPT ![p] = s]
      BY <2>2, <3>1, <3>3 DEF SendChannel
    <3> QED BY <3>4, <3>5
  <2> QED BY <2>1, <2>2
<1>4. scan' \in [Peer -> Scan] /\ \A q \in Peer : scan'[q] = IF q = p THEN s ELSE scan[q]
  BY <1>1, <1>3
<1>5. Passed(p)' = sci /\ \A q \in Peer : q # p => Passed(q)' = Passed(q)
  BY <1>3, <1>4 DEF Passed
<1>6. events' = (events \cup {e \in {"lost"} : p \in broken}) \cup {e \in {"marks"} : Vanishes(c, sci)}
  BY DEF SendChannel
<1>7. /\ events \subseteq events' /\ events' \subseteq {"marks", "lost", "sync"}
      /\ p \in broken => "lost" \in events'
      /\ Vanishes(c, sci) => "marks" \in events'
  BY <1>6 DEF Types
<1> QED BY <1>2, <1>4, <1>5, <1>7

LEMMA SendStep ==
    ASSUME GossipInv, NEW p \in Peer, NEW c \in Cnl, c \notin anno \cap spent,
           NEW sci, sci = IF c \in anno THEN c ELSE Passed(p),
           NEW m, m = ToSend(p, c, sci), NEW rest \in SUBSET Cnl,
           SendChannel(p, c, sci, m, rest),
           UNCHANGED <<nod, known, own, online, broken, spent, horizon>>
    PROVE  GossipInv'
<1>1. /\ Types /\ Marked /\ Remembered /\ horizon \in Nat
      /\ \A d \in Cnl : upd[d] \in Nat
      /\ \A q \in Peer, d \in Cnl : has[q].upd[d] \in Nat
  BY TypeFacts DEF GossipInv
<1>2. sci \in Cnl \cup {0}
  BY <1>1, TypeFacts
<1>3. /\ m \in Message /\ m.to = p /\ m.c = c
      /\ m.anno = (c \in anno /\ p \notin info.anno[c])
      /\ m.upd \in {0, upd[c]}
      /\ m.upd > 0 => /\ p \notin info.upd[c] /\ ~Removable(c, sci) /\ sci = c
                      /\ upd[c] > horizon
  BY <1>1, ToSendFacts
<1>4. sent' = {m} /\ Deliver(m) /\ info' = MarkSent(m) /\ anno' = anno
  BY DEF SendChannel
<1>5. /\ scan' \in [Peer -> Scan] /\ Passed(p)' = sci
      /\ \A q \in Peer : q # p => Passed(q)' = Passed(q)
      /\ upd' \in [Cnl -> Stamp]
      /\ \A d \in Cnl : upd'[d] = IF d = c /\ Removable(c, sci) THEN 0 ELSE upd[d]
      /\ events \subseteq events' /\ events' \subseteq {"marks", "lost", "sync"}
      /\ p \in broken => "lost" \in events'
      /\ Vanishes(c, sci) => "marks" \in events'
  BY <1>1, <1>2, PassFacts
<1>6. /\ info' \in Info
      /\ \A d \in Cnl : info'.anno[d] = IF d = c /\ m.anno THEN info.anno[d] \cup {p} ELSE info.anno[d]
      /\ \A d \in Cnl : info'.upd[d] = IF d = c /\ m.upd > 0 THEN info.upd[d] \cup {p} ELSE info.upd[d]
  <2>1. /\ MarkSent(m) \in Info
        /\ \A d \in Cnl : /\ MarkSent(m).anno[d] =
                                IF d = m.c /\ m.anno THEN info.anno[d] \cup {m.to} ELSE info.anno[d]
                          /\ MarkSent(m).upd[d] =
                                IF d = m.c /\ m.upd > 0 THEN info.upd[d] \cup {m.to} ELSE info.upd[d]
    BY <1>1, <1>3, MarkFacts
  <2>2. PICK i : i = MarkSent(m)
    OBVIOUS
  <2>3. info' = i
    BY <1>4, <2>2
  <2>4. m.c = c /\ m.to = p
    BY <1>3
  <2>5. i \in Info
    BY <2>1, <2>2
  <2>6. ASSUME NEW d \in Cnl
        PROVE  /\ i.anno[d] = IF d = c /\ m.anno THEN info.anno[d] \cup {p} ELSE info.anno[d]
               /\ i.upd[d] = IF d = c /\ m.upd > 0 THEN info.upd[d] \cup {p} ELSE info.upd[d]
    BY <2>1, <2>2, <2>4
  <2> QED BY <2>3, <2>5, <2>6
<1>7. /\ has' \in [Peer -> Have]
      /\ \A q \in Peer : q # p => has'[q] = has[q]
      /\ p \in broken => has' = has
      /\ p \notin broken => has'[p].anno = IF m.anno THEN has[p].anno \cup {c} ELSE has[p].anno
      /\ \A d \in Cnl : has'[p].upd[d] = has[p].upd[d] \/
            (has'[p].upd[d] = m.upd /\ d = c /\ m.upd > has[p].upd[d])
  <2>1. /\ has' \in [Peer -> Have]
        /\ \A q \in Peer : q # m.to => has'[q] = has[q]
        /\ m.to \in broken => has' = has
        /\ m.to \notin broken =>
              has'[m.to].anno = IF m.anno THEN has[m.to].anno \cup {m.c} ELSE has[m.to].anno
        /\ \A d \in Cnl : has'[m.to].upd[d] \in {has[m.to].upd[d]} \cup
              {u \in {m.upd} : d = m.c /\ m.upd > has[m.to].upd[d]}
    BY <1>1, <1>3, <1>4, DeliverFacts
  <2> QED BY <1>3, <2>1
<1>8. Types'
  <2>1. sent' \subseteq Message
    BY <1>3, <1>4
  <2> QED BY <1>1, <1>4, <1>5, <1>6, <1>7, <2>1, TypesFrom DEF Types, TypeOK
<1>9. ASSUME events' \cap {"lost", "sync"} = {}, NEW q \in Peer PROVE MarkedAt(q)'
  <2>1. MarkedAt(q) /\ p \notin broken
    BY <1>1, <1>5, <1>9 DEF Marked
  <2>2. CASE q # p
    <3>1. has'[q] = has[q] /\ Passed(q)' = Passed(q)
      BY <1>5, <1>7, <2>2
    <3>2. \A d \in Cnl : q \in info'.anno[d] => q \in info.anno[d]
      BY <1>6, <2>2
    <3> QED BY <2>1, <3>1, <3>2 DEF MarkedAt
  <2>3. CASE q = p
    <3>1. has[p].anno \subseteq has'[p].anno /\ (m.anno => c \in has'[p].anno)
      BY <1>7, <2>1
    <3>2. ASSUME NEW d \in Cnl, p \in info'.anno[d] PROVE d \in has'[p].anno
      BY <1>6, <2>1, <2>3, <3>1, <3>2 DEF MarkedAt
    <3>3. ASSUME sci \in Cnl \ spent PROVE sci \in has'[p].anno
      <4>1. CASE c \in anno
        BY <1>3, <2>1, <2>3, <3>1, <4>1 DEF MarkedAt
      <4>2. CASE c \notin anno
        BY <2>1, <2>3, <3>1, <3>3, <4>2 DEF MarkedAt
      <4> QED BY <4>1, <4>2
    <3> QED BY <1>5, <2>3, <3>2, <3>3 DEF MarkedAt
  <2> QED BY <2>2, <2>3
<1>10. Marked'
  BY <1>9 DEF Marked
<1>11. Remembered'
  <2> SUFFICES ASSUME events' \cap {"marks", "sync"} = {}, NEW q \in Peer, NEW d \in Cnl, d \notin spent
               PROVE  RememberedAt(q, d)'
    BY DEF Remembered
  <2>1. RememberedAt(q, d) /\ ~Vanishes(c, sci)
    BY <1>1, <1>5 DEF Remembered
  <2>2. d \in has'[q].anno => q \in info'.anno[d]
    <3>1. d \in has[q].anno => q \in info.anno[d]
      BY <2>1 DEF RememberedAt
    <3>2. CASE q # p
      BY <1>6, <1>7, <3>1, <3>2
    <3>3. CASE q = p /\ p \in broken
      BY <1>6, <1>7, <3>1, <3>3
    <3>4. CASE q = p /\ p \notin broken
      BY <1>6, <1>7, <3>1, <3>4
    <3> QED BY <3>2, <3>3, <3>4
  <2>3. /\ info.upd[d] \subseteq info'.upd[d]
        /\ d = c /\ m.upd > 0 => p \in info'.upd[d]
    BY <1>6
  <2>4. \/ has'[q].upd[d] = has[q].upd[d]
        \/ q = p /\ d = c /\ has'[q].upd[d] = m.upd /\ m.upd > has[q].upd[d]
    BY <1>7
  <2>5. CASE has'[q].upd[d] = has[q].upd[d]
    <3>1. CASE upd'[d] = upd[d]
      BY <2>1, <2>2, <2>3, <2>5, <3>1 DEF RememberedAt
    <3>2. CASE d = c /\ Removable(c, sci)
      <4>1. upd'[d] = 0
        BY <1>5, <3>2
      <4>2. upd[c] > 0 /\ (upd[c] > horizon => info.upd[c] # {})
        BY <1>1, <2>1, <3>2 DEF Removable, Vanishes, ln_db_annocnlupd_is_prune
      <4>3. has[q].upd[c] > horizon => has[q].upd[c] =< upd[c]
        BY <1>1, <2>1, <3>2, <4>2 DEF RememberedAt
      <4>4. has[q].upd[c] > horizon => info.upd[c] # {}
        <5>1. has[q].upd[c] \in Nat /\ upd[c] \in Nat
          BY <1>1
        <5> QED BY <1>1, <4>2, <4>3, <5>1
      <4>5. has'[q].upd[d] > horizon => info'.upd[d] # {}
        BY <2>3, <2>5, <3>2, <4>4
      <4> QED BY <2>2, <4>1, <4>5 DEF RememberedAt
    <3> QED BY <1>5, <3>1, <3>2
  <2>6. CASE q = p /\ d = c /\ has'[q].upd[d] = m.upd /\ m.upd > has[q].upd[d]
    <3>1. m.upd > 0 /\ m.upd = upd[c]
      <4>1. has[q].upd[d] \in Nat /\ upd[c] \in Nat
        BY <1>1
      <4> QED BY <1>3, <2>6, <4>1
    <3>2. upd'[d] = upd[d] /\ p \in info'.upd[d]
      BY <1>3, <1>5, <2>3, <2>6, <3>1
    <3>3. upd[d] # 0 /\ has'[q].upd[d] = upd[d] /\ upd[d] =< upd[d]
      BY <1>1, <2>6, <3>1
    <3> QED BY <2>2, <2>6, <3>2, <3>3 DEF RememberedAt
  <2> QED BY <2>4, <2>5, <2>6
<1>12. AnnouncedFirst'
  <2> SUFFICES ASSUME events' \cap {"lost", "sync"} = {}, m.upd > 0, c \notin spent
               PROVE  c \in has'[p].anno
    BY <1>3, <1>4 DEF AnnouncedFirst
  <2>1. MarkedAt(p)' /\ sci = c
    BY <1>3, <1>9
  <2> QED BY <1>5, <2>1 DEF MarkedAt
<1> QED BY <1>8, <1>10, <1>11, <1>12 DEF GossipInv

----------------------------------------------------------------------------
(* The theorems.                                                           *)

LEMMA GossipInit ==
    ASSUME Init PROVE GossipInv
<1>1. 0 \in Stamp /\ 0 \in NodStamp
  BY GossipAssumption DEF Stamp, NodStamp
<1>2. NewScan \in Scan /\ NewScan.last_annocnl_sci = 0
  BY DEF NewScan, Scan
<1>3. NoneHave \in Have /\ NoneHave.anno = {} /\ \A c \in Cnl : NoneHave.upd[c] = 0
  BY <1>1 DEF NoneHave, Have
<1>4. info \in Info /\ \A c \in Cnl : info.anno[c] = {}
  BY DEF Init, Info
<1>5. \A p \in Peer : has[p] = NoneHave /\ Passed(p) = 0
  BY <1>2 DEF Init, Passed
<1>6. /\ scan \in [Peer -> Scan] /\ has \in [Peer -> Have] /\ upd \in [Cnl -> Stamp]
      /\ nod \in [Node -> NodStamp]
  BY <1>1, <1>2, <1>3 DEF Init
<1>7. Types
  <2>1. /\ anno = {} /\ known = {} /\ own = OwnCnl /\ online = Peer /\ broken = {} /\ sent = {}
        /\ spent = {} /\ horizon = 0 /\ events = {}
    BY DEF Init
  <2> QED BY <1>1, <1>4, <1>6, <2>1 DEF Types, TypeOK, Info, Scan
<1>8. Marked
  BY <1>4, <1>5 DEF Marked, MarkedAt, Cnl
<1>9. Remembered
  <2>1. horizon = 0
    BY DEF Init
  <2>2. ASSUME NEW p \in Peer, NEW c \in Cnl PROVE RememberedAt(p, c)
    <3>1. has[p].anno = {} /\ has[p].upd[c] = 0
      BY <1>3, <1>5
    <3> QED BY <2>1, <3>1 DEF RememberedAt
  <2> QED BY <2>2 DEF Remembered
<1>10. AnnouncedFirst
  BY DEF AnnouncedFirst, Init
<1> QED BY <1>7, <1>8, <1>9, <1>10 DEF GossipInv

\* What the pass over one channel is.
PassOver(p, c, sci, m) ==
    /\ c \in Cnl /\ c \notin anno \cap spent
    /\ sci = IF c \in anno THEN c ELSE Passed(p)
    /\ m = ToSend(p, c, sci)
    /\ \E rest \in SUBSET Cnl : SendChannel(p, c, sci, m, rest)
    /\ UNCHANGED <<nod, known, own, online, broken, spent, horizon>>

LEMMA WalkSteps ==
    ASSUME NEW p \in Peer, send_announcement(p)
    PROVE  \/ /\ scan' = [scan EXCEPT ![p].last_anno_cnl = 0] /\ sent' = {}
              /\ UNCHANGED <<anno, upd, info, has, events>>
              /\ UNCHANGED <<nod, known, own, online, broken, spent, horizon>>
           \/ \E c \in Cnl : /\ c \in spent /\ ln_db_annocnlall_del(c)
                             /\ scan' = [scan EXCEPT ![p].last_annocnl_sci = c] /\ sent' = {}
                             /\ UNCHANGED <<has, events>>
                             /\ UNCHANGED <<nod, known, own, online, broken, spent, horizon>>
           \/ \E c, sci, m : PassOver(p, c, sci, m)
<1>1. NextRecords(p) \subseteq Cnl
  BY DEF NextRecords, Records
<1>2. UNCHANGED <<nod, known, own, online, broken, spent, horizon>>
  BY DEF send_announcement
<1>3. CASE NextRecords(p) = {} /\ scan' = [scan EXCEPT ![p].last_anno_cnl = 0] /\ sent' = {}
           /\ UNCHANGED <<anno, upd, info, has, events>>
  BY <1>2, <1>3
<1>4. CASE \E c \in NextRecords(p) :
              /\ c \in anno \cap spent /\ ln_db_annocnlall_del(c)
              /\ scan' = [scan EXCEPT ![p].last_annocnl_sci = c]
              /\ sent' = {} /\ UNCHANGED <<has, events>>
  BY <1>1, <1>2, <1>4
<1>5. CASE \E c \in NextRecords(p) :
              /\ c \notin anno \cap spent
              /\ \E sci \in {IF c \in anno THEN c ELSE scan[p].last_annocnl_sci} :
                 \E m \in {ToSend(p, c, sci)} : SendChannel(p, c, sci, m, NextRecords(p) \ {c})
  <2>1. PICK c \in NextRecords(p) :
              /\ c \notin anno \cap spent
              /\ \E sci \in {IF c \in anno THEN c ELSE scan[p].last_annocnl_sci} :
                 \E m \in {ToSend(p, c, sci)} : SendChannel(p, c, sci, m, NextRecords(p) \ {c})
    BY <1>5
  <2>2. PICK sci \in {IF c \in anno THEN c ELSE scan[p].last_annocnl_sci} :
                 \E m \in {ToSend(p, c, sci)} : SendChannel(p, c, sci, m, NextRecords(p) \ {c})
    BY <2>1
  <2>3. PICK m \in {ToSend(p, c, sci)} : SendChannel(p, c, sci, m, NextRecords(p) \ {c})
    BY <2>2
  <2>4. \E rest \in SUBSET Cnl : SendChannel(p, c, sci, m, rest)
    BY <1>1, <2>3, Zenon
  <2>5. sci = IF c \in anno THEN c ELSE Passed(p)
    BY <2>2 DEF Passed
  <2>6. PassOver(p, c, sci, m)
    BY <1>1, <1>2, <2>1, <2>3, <2>4, <2>5 DEF PassOver
  <2> QED BY <2>6
<1> QED BY <1>3, <1>4, <1>5 DEF send_announcement

LEMMA WalkStep ==
    ASSUME GossipInv, NEW p \in Peer, send_announcement(p) PROVE GossipInv'
<1>1. CASE \E c, sci, m : PassOver(p, c, sci, m)
  <2>1. PICK c, sci, m : PassOver(p, c, sci, m)
    BY <1>1
  <2>2. PICK rest \in SUBSET Cnl : SendChannel(p, c, sci, m, rest)
    BY <2>1 DEF PassOver
  <2> QED BY <2>1, <2>2, SendStep DEF PassOver
<1> QED BY <1>1, WalkSteps, EndStep, DeleteStep

LEMMA GossipNext ==
    ASSUME GossipInv, [Next]_vars PROVE GossipInv'
<1>1. CASE UNCHANGED vars
  <2>1. UNCHANGED <<anno, upd, nod, known, own, info, online, broken, sent, scan, spent, horizon, has, events>>
    BY <1>1 DEF vars
  <2>2. Types' /\ Marked' /\ Remembered' /\ AnnouncedFirst'
    <3>1. Types /\ Marked /\ Remembered /\ AnnouncedFirst
      BY DEF GossipInv
    <3>2. Types'
      BY <2>1, <3>1 DEF Types, TypeOK
    <3>3. Marked'
      BY <2>1, <3>1 DEF Marked, MarkedAt, Passed
    <3>4. Remembered'
      BY <2>1, <3>1 DEF Remembered, RememberedAt
    <3>5. AnnouncedFirst'
      BY <2>1, <3>1 DEF AnnouncedFirst
    <3> QED BY <3>2, <3>3, <3>4, <3>5
  <2> QED BY <2>2 DEF GossipInv
<1>2. CASE \E p \in Peer : send_announcement(p)
  BY <1>2, WalkStep
<1>3. ASSUME sent' = {}, NEW p \in Peer, Receive(p) PROVE GossipInv'
  BY <1>3, AnnouncementStep, UpdateStep, NodeStep DEF Receive
<1>4. ASSUME sent' = {}, NEW p \in Peer, Connect(p) PROVE GossipInv'
  <2>1. CASE UNCHANGED <<info, has, events>>
    BY <1>4, <2>1, ConnectStep DEF Connect
  <2>2. CASE ln_db_annoinfos_del(p)
    BY <1>4, <2>2, SyncStep DEF Connect
  <2> QED BY <1>4, <2>1, <2>2 DEF Connect
<1>5. ASSUME sent' = {}, NEW c \in Cnl, OwnChannel(c) PROVE GossipInv'
  <2>1. CASE ln_db_annoown_del(c)
    BY <1>5, <2>1, EnvironmentStep
  <2>2. ASSUME NEW t \in Stamp \ {0},
               \/ proc_anno_sigs(c, t) \/ ln_channel_update_create(c, t)
               \/ \E p \in Peer : DisableUpdate(p, c, t)
        PROVE  GossipInv'
    BY <1>5, <2>2, OwnStep
  <2> QED BY <1>5, <2>1, <2>2 DEF OwnChannel
<1>6. CASE sent' = {} /\ ((\E p \in Peer : Break(p) \/ Disconnect(p)) \/ (\E c \in Cnl : Spend(c)) \/ Age)
  BY <1>6, EnvironmentStep
<1>7. CASE sent' = {} /\ anno_del_prune
  BY <1>7, PruneStep
<1> QED BY <1>1, <1>2, <1>3, <1>4, <1>5, <1>6, <1>7 DEF Next

\* The types, what a mark means and what marks do not miss, and the order of an
\* announcement and its update, over every behaviour of the receive threads, the
\* announce threads and the database.
THEOREM GossipInvariant == Spec => []GossipInv
<1>1. Init => GossipInv
  BY GossipInit
<1>2. GossipInv /\ [Next]_vars => GossipInv'
  BY GossipNext
<1> QED BY <1>1, <1>2, PTL DEF Spec

\* send_announcement never sends an update before its announcement.
THEOREM AnnouncementFirst == Spec => []AnnouncedFirst
<1>1. GossipInv => AnnouncedFirst
  BY DEF GossipInv
<1> QED BY <1>1, GossipInvariant, PTL

\* What an announce thread sends is new to its peer.
LEMMA NewToPeer ==
    ASSUME GossipInv, [Next]_vars, NEW m \in sent', ~UNCHANGED vars,
           events \cap {"marks", "sync"} = {}, m.c \notin spent
    PROVE  /\ m.anno => m.c \notin has[m.to].anno
           /\ m.upd > 0 => m.upd # has[m.to].upd[m.c]
<1>1. Types /\ Remembered
  BY DEF GossipInv
<1>2. PICK p \in Peer : send_announcement(p)
  BY DEF Next
<1>3. PICK c, sci, x : PassOver(p, c, sci, x)
  BY <1>2, WalkSteps
<1>4. c \in Cnl /\ x = ToSend(p, c, sci) /\ m = x
  BY <1>3 DEF PassOver, SendChannel
<1>5. /\ m.to = p /\ m.c = c
      /\ m.anno = (c \in anno /\ p \notin info.anno[c])
      /\ m.upd \in {0, upd[c]}
      /\ m.upd > 0 => p \notin info.upd[c] /\ upd[c] > horizon
  BY <1>1, <1>4, ToSendFacts
<1>6. RememberedAt(p, c)
  BY <1>1, <1>4, <1>5 DEF Remembered
<1>7. m.anno => c \notin has[p].anno
  BY <1>5, <1>6 DEF RememberedAt
<1>8. m.upd > 0 => m.upd # has[p].upd[c]
  <2> SUFFICES ASSUME m.upd > 0, m.upd = has[p].upd[c] PROVE FALSE
    OBVIOUS
  <2>1. upd[c] \in Nat /\ horizon \in Nat
    BY <1>1, <1>4, TypeFacts
  <2>2. m.upd = upd[c]
    BY <1>5
  <2>3. has[p].upd[c] > horizon /\ upd[c] # 0 /\ has[p].upd[c] = upd[c]
    BY <1>5, <2>1, <2>2
  <2> QED BY <1>5, <1>6, <2>3 DEF RememberedAt
<1> QED BY <1>5, <1>7, <1>8

\* A peer is not told what it has: neither what it sent itself nor what it was
\* sent before.
THEOREM NeverToldTwice == Spec => NotTwice
<1>1. GossipInv /\ [Next]_vars =>
        [\A m \in sent' :
           events \cap {"marks", "sync"} = {} /\ m.c \notin spent =>
               /\ m.anno => m.c \notin has[m.to].anno
               /\ m.upd > 0 => m.upd # has[m.to].upd[m.c]]_vars
  BY NewToPeer
<1> QED BY <1>1, GossipInvariant, PTL DEF Spec, NotTwice
=============================================================================
