---------------------------- MODULE MinirouteProofs ----------------------------
(***************************************************************************)
(* Proofs about Miniroute, for any hosts, links, threads and bounds.       *)
(***************************************************************************)
EXTENDS Miniroute, SequenceTheorems, WellFoundedInduction, TLAPS

Entry == [addr : Host, hop : Seq(Host), fresh : BOOLEAN]
Seen == [addr : Host, id : 1 .. MaxId]
Whole == [type : PacketType, from : Host, to : Host, dest : Host, id : 0 .. MaxId,
          ttl : 0 .. MAX_ROUTE_LENGTH, path : Seq(Host)]
Place == {"out", "enter", "register", "wait", "send"}

(***************************************************************************)
(* TypeInv: the types.                                                     *)
(***************************************************************************)
TypeInv ==
    /\ route_cache \in [Host -> Seq(Entry)]
    /\ disc_cache \in [Host -> Seq(Seen)]
    /\ discovery_id \in [Host -> 0 .. MaxId]
    /\ discovery_mutex \in [Host -> BOOLEAN]
    /\ discovery_sig \in [Host -> Nat]
    /\ discovery_alarm \in [Host -> 0 .. MaxId]
    /\ discovered_path \in [Host -> Seq(Host) \cup {NoPath}]
    /\ armed \in [Host -> SUBSET (1 .. MaxId)]
    /\ thr \in [Thread -> [at : Place, dest : Host, path : Seq(Host) \cup {NoPath}]]
    /\ net \subseteq Whole

\* p is a way from h to another place: what hop[1] of a path stands for is there.
Way(h, p) == p \in Seq(Host) /\ Len(p) >= 2 /\ p[1] = h /\ Walk(p)

\* What a route cache may hold on h, and a thread that runs there.
Leads(h, e) == Way(h, e.hop) /\ Last(e.hop) = e.addr
Started(t) == /\ thr[t].path # NoPath => Way(HostOf[t], thr[t].path)
              /\ thr[t].at = "send" => thr[t].path # NoPath

(***************************************************************************)
(* WayInv: every path a host keeps is a way from it.                       *)
(***************************************************************************)
WayInv ==
    /\ \A h \in Host : \A i \in DOMAIN route_cache[h] : Leads(h, route_cache[h][i])
    /\ \A h \in Host : discovered_path[h] # NoPath => Way(h, discovered_path[h])
    /\ \A t \in Thread : Started(t)

(***************************************************************************)
(* NetInv: a packet is on a link; the path of a discovery is the way it    *)
(* came, and ends where it was sent from; the path of data and replies     *)
(* ends where they go to.                                                  *)
(***************************************************************************)
Sound(m) ==
    /\ <<m.from, m.to>> \in Links /\ Walk(m.path)
    /\ m.type = "DISCOVERY" => m.path # << >> /\ Last(m.path) = m.from /\ m.id >= 1
    /\ m.type # "DISCOVERY" => Len(m.path) >= 2 /\ Last(m.path) = m.dest
NetInv == \A m \in net : Sound(m)

(***************************************************************************)
(* MutexInv: discovery_mutex of a host is taken while one of its threads   *)
(* discovers, and no two do.                                               *)
(***************************************************************************)
Discovers(t) == thr[t].at \in {"register", "wait"}
MutexInv ==
    /\ \A t \in Thread : Discovers(t) => /\ ~discovery_mutex[HostOf[t]]
                                         /\ discovery_id[HostOf[t]] >= 1
    /\ \A t, u \in Thread : Discovers(t) /\ Discovers(u) /\ HostOf[t] = HostOf[u] => t = u

(***************************************************************************)
(* CacheInv: a cache is never over its limit, and has one entry for an     *)
(* address, so that it does not matter which one a search finds.           *)
(***************************************************************************)
Bounded(cache) ==
    /\ Len(cache) <= SIZE_OF_ROUTE_CACHE
    /\ \A i, j \in DOMAIN cache : cache[i].addr = cache[j].addr => i = j
CacheInv == \A h \in Host : Bounded(route_cache[h]) /\ Bounded(disc_cache[h])

IInv == TypeInv /\ WayInv /\ NetInv /\ MutexInv /\ CacheInv
-----------------------------------------------------------------------------
(* The operators                                                           *)

\* A set of numbers that is not empty has a least one.
Less == {p \in Nat \X Nat : p[1] < p[2]}

LEMMA LessWellFounded == IsWellFoundedOn(Less, Nat)
<1>1. IsWellFoundedOn(OpToRel(<, Nat), Nat)
  BY NatLessThanWellFounded
<1> QED
  BY <1>1, Zenon DEF OpToRel, Less

LEMMA Least ==
    ASSUME NEW S \in SUBSET Nat, S # {}
    PROVE  \E m \in S : \A n \in S : m <= n
<1>1. PICK m \in S : \A n \in S : ~(<<n, m>> \in Less)
  BY LessWellFounded, WFMin
<1>2. ASSUME NEW n \in S PROVE m <= n
  <2>1. m \in Nat /\ n \in Nat
    OBVIOUS
  <2>2. n < m => <<n, m>> \in Less
    BY <2>1 DEF Less
  <2> QED
    BY <1>1, <2>1, <2>2
<1> QED
  BY <1>2

LEMMA RemoveAtFacts ==
    ASSUME NEW E, NEW c \in Seq(E), NEW p \in 1 .. Len(c), NEW d, d = RemoveAt(c, p)
    PROVE  /\ d \in Seq(E) /\ Len(d) = Len(c) - 1
           /\ \A i \in 1 .. Len(d) : d[i] = IF i < p THEN c[i] ELSE c[i + 1]
<1>1. PICK a, b : a = SubSeq(c, 1, p - 1) /\ b = SubSeq(c, p + 1, Len(c))
  OBVIOUS
<1>2. Len(c) \in Nat /\ \A i \in 1 .. Len(c) : c[i] \in E
  OBVIOUS
<1>3. a \in Seq(E) /\ Len(a) = p - 1 /\ \A i \in 1 .. p - 1 : a[i] = c[i]
  <2>1. 1 \in Int /\ p - 1 \in Int /\ \A i \in 1 .. p - 1 : c[i] \in E
    BY <1>2
  <2>2. /\ SubSeq(c, 1, p - 1) \in Seq(E)
        /\ Len(SubSeq(c, 1, p - 1)) = IF 1 <= p - 1 THEN (p - 1) - 1 + 1 ELSE 0
        /\ \A i \in 1 .. (p - 1) - 1 + 1 : SubSeq(c, 1, p - 1)[i] = c[1 + i - 1]
    BY <2>1, SubSeqProperties
  <2> QED
    BY <1>1, <2>2
<1>4. b \in Seq(E) /\ Len(b) = Len(c) - p /\ \A i \in 1 .. Len(c) - p : b[i] = c[p + i]
  <2>1. p + 1 \in Int /\ Len(c) \in Int /\ \A i \in p + 1 .. Len(c) : c[i] \in E
    BY <1>2
  <2>2. /\ SubSeq(c, p + 1, Len(c)) \in Seq(E)
        /\ Len(SubSeq(c, p + 1, Len(c))) = IF p + 1 <= Len(c) THEN Len(c) - (p + 1) + 1 ELSE 0
        /\ \A i \in 1 .. Len(c) - (p + 1) + 1 : SubSeq(c, p + 1, Len(c))[i] = c[(p + 1) + i - 1]
    BY <2>1, SubSeqProperties
  <2> QED
    BY <1>1, <1>2, <2>2
<1>5. d = a \o b
  BY <1>1 DEF RemoveAt
<1>6. /\ d \in Seq(E) /\ Len(d) = Len(a) + Len(b)
      /\ \A i \in 1 .. Len(a) + Len(b) : d[i] = IF i <= Len(a) THEN a[i] ELSE b[i - Len(a)]
  <2>1. /\ a \o b \in Seq(E) /\ Len(a \o b) = Len(a) + Len(b)
        /\ \A i \in 1 .. Len(a) + Len(b) : (a \o b)[i] = IF i <= Len(a) THEN a[i] ELSE b[i - Len(a)]
    <3>1. a \in Seq(E) /\ b \in Seq(E)
      BY <1>3, <1>4
    <3> QED
      BY <3>1, ConcatProperties, Zenon
  <2> QED
    BY <1>5, <2>1, Zenon
<1>7. Len(d) = Len(c) - 1
  BY <1>2, <1>3, <1>4, <1>6
<1>8. ASSUME NEW i \in 1 .. Len(d)
      PROVE  d[i] = IF i < p THEN c[i] ELSE c[i + 1]
  <2>1. CASE i < p
    <3>1. i \in 1 .. Len(a) + Len(b) /\ i <= Len(a) /\ i \in 1 .. p - 1
      BY <1>3, <1>6, <2>1
    <3> QED
      BY <1>3, <1>6, <2>1, <3>1
  <2>2. CASE ~(i < p)
    <3>1. /\ i \in 1 .. Len(a) + Len(b) /\ ~(i <= Len(a))
          /\ i - Len(a) \in 1 .. Len(c) - p /\ p + (i - Len(a)) = i + 1
      BY <1>2, <1>3, <1>4, <1>6, <1>7, <2>2
    <3>2. d[i] = b[i - Len(a)] /\ b[i - Len(a)] = c[p + (i - Len(a))]
      BY <1>4, <1>6, <3>1
    <3> QED
      BY <2>2, <3>1, <3>2
  <2> QED
    BY <2>1, <2>2
<1> QED
  BY <1>6, <1>7, <1>8

\* without: nothing else is taken out, and if no address is there twice, that one is not there.
LEMMA WithoutFacts ==
    ASSUME NEW E, NEW c \in Seq(E), NEW a, NEW d, d = without(c, a)
    PROVE  /\ d \in Seq(E)
           /\ \A i \in DOMAIN d : \E j \in DOMAIN c : d[i] = c[j]
           /\ Bounded(c) => Bounded(d) /\ \A i \in DOMAIN d : d[i].addr # a
<1>1. PICK at : at = {i \in DOMAIN c : c[i].addr = a}
  OBVIOUS
<1>2. d = IF at = {} THEN c ELSE RemoveAt(c, CHOOSE i \in at : TRUE)
  BY <1>1 DEF without
<1>3. CASE at = {}
  BY <1>1, <1>2, <1>3
<1>4. CASE at # {}
  <2>1. PICK p : p = CHOOSE i \in at : TRUE
    OBVIOUS
  <2>2. p \in at
    BY <1>4, <2>1
  <2>3. p \in 1 .. Len(c) /\ c[p].addr = a
    BY <1>1, <2>2
  <2>4. d = RemoveAt(c, p)
    BY <1>2, <1>4, <2>1
  <2>5. /\ d \in Seq(E) /\ Len(d) = Len(c) - 1
        /\ \A i \in 1 .. Len(d) : d[i] = IF i < p THEN c[i] ELSE c[i + 1]
    BY <2>3, <2>4, RemoveAtFacts, SMTT(20)
  <2>6. DOMAIN d = 1 .. Len(d) /\ DOMAIN c = 1 .. Len(c) /\ Len(c) \in Nat
    BY <2>5
  <2>7. \A i \in DOMAIN d : \E j \in DOMAIN c : d[i] = c[j]
    BY <2>3, <2>5, <2>6
  <2>8. ASSUME Bounded(c)
        PROVE  Bounded(d) /\ \A i \in DOMAIN d : d[i].addr # a
    <3>1. ASSUME NEW i \in DOMAIN d PROVE d[i].addr # a
      <4>1. PICK x : x = IF i < p THEN i ELSE i + 1
        OBVIOUS
      <4>2. x \in DOMAIN c /\ d[i] = c[x] /\ x # p
        BY <2>3, <2>5, <2>6, <4>1
      <4>3. \A j, k \in DOMAIN c : c[j].addr = c[k].addr => j = k
        BY <2>8 DEF Bounded
      <4> QED
        BY <2>3, <2>6, <4>2, <4>3
    <3>2. ASSUME NEW i \in DOMAIN d, NEW j \in DOMAIN d, d[i].addr = d[j].addr
          PROVE  i = j
      <4>1. PICK x, y : x = (IF i < p THEN i ELSE i + 1) /\ y = (IF j < p THEN j ELSE j + 1)
        OBVIOUS
      <4>2. x \in DOMAIN c /\ y \in DOMAIN c /\ d[i] = c[x] /\ d[j] = c[y]
        BY <2>3, <2>5, <2>6, <4>1, SMTT(30)
      <4>3. x = y
        BY <2>8, <3>2, <4>2 DEF Bounded
      <4> QED
        BY <2>3, <2>6, <4>1, <4>3
    <3>3. Len(d) <= SIZE_OF_ROUTE_CACHE
      BY <2>5, <2>6, <2>8, RouteAssumption DEF Bounded
    <3> QED
      BY <3>1, <3>2, <3>3 DEF Bounded
  <2> QED
    BY <2>5, <2>7, <2>8
<1> QED
  BY <1>3, <1>4

\* put_item: nothing comes into a cache but the item, and the cache keeps its bounds.
LEMMA PutFacts ==
    ASSUME NEW E, NEW c \in Seq(E), NEW item \in E, NEW d, d = put_item(c, item)
    PROVE  /\ d \in Seq(E)
           /\ \A i \in DOMAIN d : d[i] = item \/ \E j \in DOMAIN c : d[i] = c[j]
           /\ Bounded(c) => Bounded(d)
<1>1. PICK o : o = without(c, item.addr)
  OBVIOUS
<1>2. PICK r : r = IF Len(o) >= SIZE_OF_ROUTE_CACHE THEN Tail(o) ELSE o
  OBVIOUS
<1>3. d = Append(r, item)
  BY <1>1, <1>2 DEF put_item
<1>4. /\ o \in Seq(E)
      /\ \A i \in DOMAIN o : \E j \in DOMAIN c : o[i] = c[j]
      /\ Bounded(c) => Bounded(o) /\ \A i \in DOMAIN o : o[i].addr # item.addr
  BY <1>1, WithoutFacts
<1>5. Len(o) \in Nat /\ DOMAIN o = 1 .. Len(o) /\ SIZE_OF_ROUTE_CACHE \in Nat \ {0}
  BY <1>4, RouteAssumption
<1>6. /\ r \in Seq(E) 
      /\ \A i \in DOMAIN r : (i \in DOMAIN o /\ r[i] = o[i]) \/ (i + 1 \in DOMAIN o /\ r[i] = o[i + 1])
      /\ Bounded(o) => Bounded(r) /\ Len(r) < SIZE_OF_ROUTE_CACHE
  <2>1. CASE Len(o) < SIZE_OF_ROUTE_CACHE
    BY <1>2, <1>4, <1>5, <2>1
  <2>2. CASE Len(o) >= SIZE_OF_ROUTE_CACHE
    <3>1. o # << >> /\ r = Tail(o)
      BY <1>2, <1>5, <2>2
    <3>2. /\ Tail(o) \in Seq(E) /\ Len(Tail(o)) = Len(o) - 1
          /\ \A i \in 1 .. Len(Tail(o)) : Tail(o)[i] = o[i + 1]
      BY <1>4, <3>1, HeadTailProperties
    <3>3. DOMAIN r = 1 .. Len(r) /\ Len(r) = Len(o) - 1 /\ \A i \in 1 .. Len(r) : r[i] = o[i + 1]
      BY <3>1, <3>2
    <3>4. ASSUME Bounded(o) PROVE Bounded(r) /\ Len(r) < SIZE_OF_ROUTE_CACHE
      <4>1. Len(o) = SIZE_OF_ROUTE_CACHE
        <5>1. Len(o) <= SIZE_OF_ROUTE_CACHE
          BY <3>4 DEF Bounded
        <5>2. \A x, y \in Nat : x <= y /\ x >= y => x = y
          OBVIOUS
        <5>3. Len(o) \in Nat /\ SIZE_OF_ROUTE_CACHE \in Nat
          BY <1>5
        <5> QED
          BY <2>2, <5>1, <5>2, <5>3, Zenon
      <4>2. ASSUME NEW i \in DOMAIN r, NEW j \in DOMAIN r, r[i].addr = r[j].addr
            PROVE  i = j
        <5>1. i + 1 \in DOMAIN o /\ j + 1 \in DOMAIN o /\ o[i + 1].addr = o[j + 1].addr
          BY <1>5, <3>3, <4>2
        <5>2. i + 1 = j + 1
          BY <3>4, <5>1 DEF Bounded
        <5> QED
          BY <1>5, <3>3, <4>2, <5>2
      <4> QED
        BY <1>5, <3>3, <4>1, <4>2 DEF Bounded
    <3> QED
      BY <1>5, <3>1, <3>2, <3>3, <3>4
  <2> QED
    BY <1>5, <2>1, <2>2
<1>7. /\ d \in Seq(E) /\ Len(d) = Len(r) + 1 /\ DOMAIN d = 1 .. Len(r) + 1 /\ Len(r) \in Nat
      /\ DOMAIN r = 1 .. Len(r)
      /\ \A i \in 1 .. Len(r) : d[i] = r[i]
      /\ d[Len(r) + 1] = item
  BY <1>3, <1>6
<1>8. \A i \in DOMAIN r : \E j \in DOMAIN o : r[i] = o[j]
  BY <1>6
<1>9. \A i \in DOMAIN d : d[i] = item \/ (i \in DOMAIN r /\ d[i] = r[i])
  BY <1>7
<1>10. \A i \in DOMAIN d : d[i] = item \/ \E j \in DOMAIN c : d[i] = c[j]
  BY <1>4, <1>8, <1>9
<1>11. Bounded(c) => Bounded(d)
  <2> SUFFICES ASSUME Bounded(c) PROVE Bounded(d)
    OBVIOUS
  <2>1. \A i \in DOMAIN r : r[i].addr # item.addr
    BY <1>4, <1>8
  <2>2. Bounded(r) /\ Len(r) < SIZE_OF_ROUTE_CACHE
    BY <1>4, <1>6
  <2> QED
    BY <1>5, <1>7, <2>1, <2>2 DEF Bounded
<1> QED
  BY <1>7, <1>10, <1>11

\* path_from_hdr: the way back.
LEMMA BackFacts ==
    ASSUME NEW p \in Seq(Host), Walk(p), Len(p) >= 2, NEW r, r = path_from_hdr(p)
    PROVE  Way(p[Len(p)], r) /\ Len(r) = Len(p) /\ Last(r) = p[1] /\ Last(r) \in Host
<1>1. r = [i \in 1 .. Len(p) |-> p[(Len(p) - i) + 1]] /\ Len(p) \in Nat
  BY DEF path_from_hdr, Reverse
<1>2. \A i \in 1 .. Len(p) : p[(Len(p) - i) + 1] \in Host
  BY <1>1
<1>3. r \in Seq(Host) /\ Len(r) = Len(p)
  BY <1>1, <1>2
<1>4. \A i \in 1 .. Len(r) - 1 : <<r[i], r[i + 1]>> \in Links
  <2> SUFFICES ASSUME NEW i \in 1 .. Len(p) - 1 PROVE <<r[i], r[i + 1]>> \in Links
    BY <1>3
  <2>1. PICK j : j = Len(p) - i
    OBVIOUS
  <2>2. j \in 1 .. Len(p) - 1 /\ r[i] = p[j + 1] /\ r[i + 1] = p[j]
    BY <1>1, <2>1
  <2>3. <<p[j], p[j + 1]>> \in Links
    BY <2>2 DEF Walk
  <2>4. \A a, b : <<a, b>> \in Links => <<b, a>> \in Links
    BY RouteAssumption
  <2> QED
    BY <2>2, <2>3, <2>4
<1>5. r[1] = p[Len(p)] /\ r[Len(p)] = p[1]
  BY <1>1
<1>6. r[1] = p[Len(p)] /\ Last(r) = p[1] /\ p[1] \in Host
  BY <1>1, <1>3, <1>5 DEF Last
<1> QED
  BY <1>3, <1>4, <1>6 DEF Way, Walk

\* A path that goes one link further.
LEMMA FurtherFacts ==
    ASSUME NEW p \in Seq(Host), Walk(p), p # << >>, NEW h \in Host, <<p[Len(p)], h>> \in Links,
           NEW q, q = Append(p, h)
    PROVE  q \in Seq(Host) /\ Walk(q) /\ Len(q) >= 2 /\ q[Len(q)] = h
<1>1. /\ q \in Seq(Host) /\ Len(q) = Len(p) + 1 /\ Len(p) \in Nat \ {0}
      /\ \A i \in 1 .. Len(p) : q[i] = p[i]
      /\ q[Len(p) + 1] = h
  OBVIOUS
<1>2. \A i \in 1 .. Len(q) - 1 : <<q[i], q[i + 1]>> \in Links
  <2> SUFFICES ASSUME NEW i \in 1 .. Len(p) PROVE <<q[i], q[i + 1]>> \in Links
    BY <1>1
  <2>1. CASE i = Len(p)
    BY <1>1, <2>1
  <2>2. CASE i # Len(p)
    BY <1>1, <2>2 DEF Walk
  <2> QED
    BY <2>1, <2>2
<1> QED
  BY <1>1, <1>2 DEF Walk

-----------------------------------------------------------------------------
(* Steps of threads and hosts                                              *)

Paths == Seq(Host) \cup {NoPath}
Task == [at : Place, dest : Host, path : Paths]

\* Thread t goes on, and no other does.
LEMMA ThreadFacts ==
    ASSUME TypeInv, NEW t \in Thread, NEW r \in Task, thr' = [thr EXCEPT ![t] = r]
    PROVE  thr' \in [Thread -> Task] /\ thr'[t] = r /\ \A u \in Thread : u # t => thr'[u] = thr[u]
<1>1. thr \in [Thread -> Task]
  BY DEF TypeInv, Task, Paths
<1> QED
  BY <1>1

LEMMA GotoFacts ==
    ASSUME TypeInv, NEW t \in Thread, NEW place \in Place, Goto(t, place)
    PROVE  /\ thr' \in [Thread -> Task]
           /\ thr'[t].at = place /\ thr'[t].dest = thr[t].dest /\ thr'[t].path = thr[t].path
           /\ \A u \in Thread : u # t => thr'[u] = thr[u]
<1>1. PICK r : r = [thr[t] EXCEPT !.at = place]
  OBVIOUS
<1>2. thr[t] \in Task
  BY DEF TypeInv, Task, Paths
<1>3. r \in Task /\ r.at = place /\ r.dest = thr[t].dest /\ r.path = thr[t].path
  BY <1>1, <1>2 DEF Task
<1>4. thr' = [thr EXCEPT ![t] = r]
  BY <1>1 DEF Goto
<1> QED
  BY <1>3, <1>4, ThreadFacts

\* A thread that neither begins nor ends a discovery, and keeps its path.
LEMMA MutexKept ==
    ASSUME MutexInv, \A u \in Thread : Discovers(u)' => Discovers(u),
           \A h \in Host : ~discovery_mutex[h] => ~discovery_mutex'[h],
           \A h \in Host : discovery_id'[h] = discovery_id[h]
    PROVE  MutexInv'
BY RouteAssumption DEF MutexInv

\* The packets that are sent are sound.
LEMMA NetKept ==
    ASSUME NetInv, NEW out, net' = net \cup out, \A m \in out : Sound(m)
    PROVE  NetInv'
BY DEF NetInv

\* A broadcast by h of the path on which a discovery came to it.
LEMMA BroadcastFacts ==
    ASSUME NEW h \in Host, NEW dest \in Host, NEW id \in 1 .. MaxId, NEW ttl \in 0 .. MAX_ROUTE_LENGTH,
           NEW path \in Seq(Host), path # << >>, Last(path) = h, Walk(path)
    PROVE  \A m \in bcast(h, dest, id, ttl, path) : m \in Whole /\ Sound(m)
<1> SUFFICES ASSUME NEW l \in Links, l[1] = h, NEW m, m = Packet("DISCOVERY", h, l[2], dest, id, ttl, path)
             PROVE  m \in Whole /\ Sound(m)
  BY DEF bcast
<1>1. l = <<l[1], l[2]>> /\ l[2] \in Host
  BY RouteAssumption
<1>2. /\ m.type = "DISCOVERY" /\ m.from = h /\ m.to = l[2] /\ m.dest = dest /\ m.id = id
      /\ m.ttl = ttl /\ m.path = path
  BY DEF Packet
<1>3. m \in Whole
  <2>1. id \in 0 .. MaxId
    BY RouteAssumption
  <2> QED
    BY <1>1, <2>1 DEF Packet, Whole, PacketType
<1>4. <<m.from, m.to>> \in Links
  BY <1>1, <1>2
<1> QED
  BY <1>2, <1>3, <1>4, RouteAssumption DEF Sound

\* What is sent along a way.
LEMMA AlongFacts ==
    ASSUME NEW h \in Host, NEW path, Way(h, path), NEW type \in {"DATA", "REPLY"}, NEW id \in 0 .. MaxId,
           NEW m, m = along(type, h, id, path)
    PROVE  m \in Whole /\ Sound(m)
<1>1. path \in Seq(Host) /\ Len(path) \in Nat /\ Len(path) >= 2 /\ path[1] = h /\ path[2] \in Host
      /\ Last(path) \in Host
  BY DEF Way, Last
<1>2. <<h, path[2]>> \in Links
  BY <1>1 DEF Way, Walk
<1>3. /\ m.type = type /\ m.from = h /\ m.to = path[2] /\ m.dest = Last(path) /\ m.id = id
      /\ m.path = path
  BY DEF along, Packet
<1>4. m \in Whole
  <2>1. MAX_ROUTE_LENGTH \in 0 .. MAX_ROUTE_LENGTH
    BY RouteAssumption
  <2>2. type \in PacketType
    BY DEF PacketType
  <2> QED
    BY <1>1, <2>1, <2>2 DEF along, Packet, Whole
<1> QED
  BY <1>1, <1>2, <1>3, <1>4 DEF Sound, Way

LEMMA InitInv == Init => IInv
<1> SUFFICES ASSUME Init PROVE IInv
  OBVIOUS
<1>1. TypeInv
  BY RouteAssumption DEF Init, TypeInv, None, Place
<1>2. WayInv
  <2>1. \A h \in Host : DOMAIN route_cache[h] = {}
    BY DEF Init
  <2> QED
    BY <2>1 DEF Init, WayInv, Started
<1>3. NetInv /\ MutexInv
  BY DEF Init, NetInv, MutexInv, Discovers
<1>4. CacheInv
  BY RouteAssumption DEF Init, CacheInv, Bounded
<1> QED
  BY <1>1, <1>2, <1>3, <1>4 DEF IInv

-----------------------------------------------------------------------------
(* The actions of threads                                                  *)

\* Thread t goes on with a path of its own; the routes are as they were.
LEMMA ThreadWays ==
    ASSUME WayInv, NEW t \in Thread, \A u \in Thread : u # t => thr'[u] = thr[u],
           thr'[t].path # NoPath => Way(HostOf[t], thr'[t].path),
           thr'[t].at = "send" => thr'[t].path # NoPath,
           UNCHANGED route_cache,
           \A h \in Host : discovered_path'[h] # NoPath => Way(h, discovered_path'[h])
    PROVE  WayInv'
<1>1. ASSUME NEW u \in Thread PROVE Started(u)'
  <2>1. CASE u = t
    BY <2>1 DEF Started
  <2>2. CASE u # t
    BY <2>2 DEF WayInv, Started
  <2> QED
    BY <2>1, <2>2
<1> QED
  BY <1>1 DEF WayInv

LEMMA CallStep ==
    ASSUME IInv, NEW t \in Thread, NEW d \in Dest[t], Call(t, d)
    PROVE  IInv'
<1>1. PICK r : r = [at |-> "enter", dest |-> d, path |-> NoPath]
  OBVIOUS
<1>2. r \in Task /\ r.at = "enter" /\ r.path = NoPath
  BY <1>1, RouteAssumption DEF Task, Paths, Place
<1>3. thr' \in [Thread -> Task] /\ thr'[t] = r /\ \A u \in Thread : u # t => thr'[u] = thr[u]
  BY <1>1, <1>2, ThreadFacts DEF Call, IInv
<1>4. TypeInv'
  BY <1>3 DEF Call, IInv, TypeInv, Task, Paths, discoveryVars
<1>5. WayInv'
  BY <1>2, <1>3, ThreadWays DEF Call, IInv, WayInv, discoveryVars
<1>6. MutexInv'
  BY <1>2, <1>3, MutexKept DEF Call, IInv, Discovers, discoveryVars
<1> QED
  BY <1>4, <1>5, <1>6 DEF Call, IInv, NetInv, CacheInv, discoveryVars

LEMMA SendCachedStep ==
    ASSUME IInv, NEW t \in Thread, SendCached(t)
    PROVE  IInv'
<1>1. PICK h : h = HostOf[t]
  OBVIOUS
<1>2. h \in Host
  BY <1>1, RouteAssumption
<1>3. PICK e \in fresh(h, thr[t].dest) : thr' = [thr EXCEPT ![t].at = "send", ![t].path = e.hop]
  BY <1>1 DEF SendCached
<1>4. Way(h, e.hop)
  <2>1. PICK i \in DOMAIN route_cache[h] : e = route_cache[h][i]
    BY <1>3 DEF fresh, entries, Range
  <2> QED
    BY <1>2, <2>1 DEF IInv, WayInv, Leads
<1>5. PICK r : r = [thr[t] EXCEPT !.at = "send", !.path = e.hop]
  OBVIOUS
<1>6. thr[t] \in Task
  BY DEF IInv, TypeInv, Task, Paths
<1>7. r \in Task /\ r.at = "send" /\ r.path = e.hop /\ thr' = [thr EXCEPT ![t] = r]
  <2>1. e.hop \in Paths /\ "send" \in Place
    BY <1>4 DEF Way, Paths, Place
  <2> QED
    BY <1>3, <1>5, <1>6, <2>1 DEF Task
<1>8. thr' \in [Thread -> Task] /\ thr'[t] = r /\ \A u \in Thread : u # t => thr'[u] = thr[u]
  BY <1>7, ThreadFacts DEF IInv
<1>9. TypeInv'
  BY <1>8 DEF SendCached, IInv, TypeInv, Task, Paths, discoveryVars
<1>10. e.hop # NoPath
  BY <1>4, RouteAssumption DEF Way
<1>11. WayInv'
  BY <1>1, <1>4, <1>7, <1>8, <1>10, ThreadWays DEF SendCached, IInv, WayInv, discoveryVars
<1>12. MutexInv'
  BY <1>7, <1>8, MutexKept DEF SendCached, IInv, Discovers, discoveryVars
<1> QED
  BY <1>9, <1>11, <1>12 DEF SendCached, IInv, NetInv, CacheInv, discoveryVars

LEMMA DiscoverStep ==
    ASSUME IInv, NEW t \in Thread, Discover(t)
    PROVE  IInv'
<1>1. PICK h, id : h = HostOf[t] /\ id = discovery_id[h] + 1
  OBVIOUS
<1>2. h \in Host
  BY <1>1, RouteAssumption
<1>3. /\ thr[t].at = "enter" /\ discovery_mutex[h] /\ id <= MaxId
      /\ discovery_mutex' = [discovery_mutex EXCEPT ![h] = FALSE]
      /\ discovery_id' = [discovery_id EXCEPT ![h] = id]
      /\ disc_cache' = [disc_cache EXCEPT ![h] = put_item(disc_cache[h], dischist(h, id))]
      /\ net' = net \cup bcast(h, thr[t].dest, id, MAX_ROUTE_LENGTH, <<h>>)
      /\ Goto(t, "register")
      /\ UNCHANGED <<route_cache, discovery_sig, discovery_alarm, discovered_path, armed>>
  BY <1>1 DEF Discover
<1>4. id \in 1 .. MaxId
  BY <1>1, <1>2, <1>3, RouteAssumption DEF IInv, TypeInv
<1>5. /\ thr' \in [Thread -> Task]
      /\ thr'[t].at = "register" /\ thr'[t].dest = thr[t].dest /\ thr'[t].path = thr[t].path
      /\ \A u \in Thread : u # t => thr'[u] = thr[u]
  <2>1. "register" \in Place
    BY DEF Place
  <2> QED
    BY <1>3, <2>1, GotoFacts DEF IInv
<1>6. PICK put : put = put_item(disc_cache[h], dischist(h, id))
  OBVIOUS
<1>7. put \in Seq(Seen) /\ (Bounded(disc_cache[h]) => Bounded(put))
  <2>1. dischist(h, id) \in Seen /\ disc_cache[h] \in Seq(Seen)
    BY <1>2, <1>4 DEF dischist, Seen, IInv, TypeInv
  <2> QED
    BY <1>6, <2>1, PutFacts
<1>8. \A m \in bcast(h, thr[t].dest, id, MAX_ROUTE_LENGTH, <<h>>) : m \in Whole /\ Sound(m)
  <2>1. <<h>> \in Seq(Host) /\ <<h>> # << >> /\ Last(<<h>>) = h /\ Walk(<<h>>)
    BY <1>2 DEF Last, Walk
  <2>2. thr[t].dest \in Host /\ MAX_ROUTE_LENGTH \in 0 .. MAX_ROUTE_LENGTH
    BY RouteAssumption DEF IInv, TypeInv
  <2> QED
    BY <1>2, <1>4, <2>1, <2>2, BroadcastFacts
<1>9. TypeInv'
  <2>1. id \in 0 .. MaxId
    BY <1>4
  <2>2. net' \subseteq Whole
    BY <1>3, <1>8 DEF IInv, TypeInv
  <2>3. thr' \in [Thread -> [at : Place, dest : Host, path : Seq(Host) \cup {NoPath}]]
    BY <1>5 DEF Task, Paths
  <2>4. disc_cache' \in [Host -> Seq(Seen)]
    BY <1>3, <1>6, <1>7 DEF IInv, TypeInv
  <2>5. discovery_id' \in [Host -> 0 .. MaxId] /\ discovery_mutex' \in [Host -> BOOLEAN]
    BY <1>3, <2>1 DEF IInv, TypeInv
  <2> QED
    BY <1>3, <2>2, <2>3, <2>4, <2>5 DEF IInv, TypeInv
<1>10. WayInv'
  <2>1. Started(t)
    BY DEF IInv, WayInv
  <2> QED
    BY <1>3, <1>5, <2>1, ThreadWays DEF IInv, WayInv, Started
<1>11. NetInv'
  BY <1>3, <1>8, NetKept DEF IInv
<1>12. MutexInv'
  <2>1. \A g \in Host : discovery_mutex'[g] = (IF g = h THEN FALSE ELSE discovery_mutex[g])
    BY <1>3 DEF IInv, TypeInv
  <2>2. \A g \in Host : discovery_id'[g] = (IF g = h THEN id ELSE discovery_id[g])
    BY <1>3 DEF IInv, TypeInv
  <2>3. \A u \in Thread : HostOf[u] \in Host
    BY RouteAssumption
  <2>4. \A u \in Thread : HostOf[u] = h => ~Discovers(u)
    BY <1>1, <1>3 DEF IInv, MutexInv
  <2>5. \A u \in Thread : u # t => Discovers(u)' = Discovers(u)
    BY <1>5 DEF Discovers
  <2>6. id >= 1
    BY <1>4
  <2> QED
    BY <1>1, <2>1, <2>2, <2>3, <2>4, <2>5, <2>6 DEF IInv, MutexInv
<1>13. CacheInv'
  <2>1. \A g \in Host : disc_cache'[g] = IF g = h THEN put ELSE disc_cache[g]
    BY <1>3, <1>6 DEF IInv, TypeInv
  <2> QED
    BY <1>3, <1>7, <2>1 DEF IInv, CacheInv
<1> QED
  BY <1>9, <1>10, <1>11, <1>12, <1>13 DEF IInv

LEMMA RegisterAlarmStep ==
    ASSUME IInv, NEW t \in Thread, RegisterAlarm(t)
    PROVE  IInv'
<1>1. PICK h : h = HostOf[t]
  OBVIOUS
<1>2. h \in Host /\ Discovers(t)
  BY <1>1, RouteAssumption DEF RegisterAlarm, Discovers
<1>3. discovery_id[h] \in 1 .. MaxId
  BY <1>1, <1>2, RouteAssumption DEF IInv, TypeInv, MutexInv
<1>4. /\ thr' \in [Thread -> Task]
      /\ thr'[t].at = "wait" /\ thr'[t].dest = thr[t].dest /\ thr'[t].path = thr[t].path
      /\ \A u \in Thread : u # t => thr'[u] = thr[u]
  <2>1. "wait" \in Place /\ Goto(t, "wait")
    BY DEF Place, RegisterAlarm
  <2> QED
    BY <2>1, GotoFacts DEF IInv
<1>5. TypeInv'
  <2>1. /\ discovery_alarm' = [discovery_alarm EXCEPT ![h] = discovery_id[h]]
        /\ armed' = [armed EXCEPT ![h] = armed[h] \cup {discovery_id[h]}]
    BY <1>1 DEF RegisterAlarm
  <2>2. discovery_alarm' \in [Host -> 0 .. MaxId] /\ armed' \in [Host -> SUBSET (1 .. MaxId)]
    BY <1>3, <2>1 DEF IInv, TypeInv
  <2> QED
    BY <1>4, <2>2 DEF RegisterAlarm, IInv, TypeInv, Task, Paths
<1>6. WayInv'
  <2>1. Started(t)
    BY DEF IInv, WayInv
  <2> QED
    BY <1>4, <2>1, ThreadWays DEF RegisterAlarm, IInv, WayInv, Started
<1>7. MutexInv'
  <2>1. \A u \in Thread : Discovers(u)' => Discovers(u)
    BY <1>2, <1>4 DEF Discovers
  <2> QED
    BY <2>1, MutexKept DEF RegisterAlarm, IInv
<1> QED
  BY <1>5, <1>6, <1>7 DEF RegisterAlarm, IInv, NetInv, CacheInv

LEMMA WokenStep ==
    ASSUME IInv, NEW t \in Thread, Woken(t)
    PROVE  IInv'
<1>1. PICK h : h = HostOf[t]
  OBVIOUS
<1>2. h \in Host
  BY <1>1, RouteAssumption
<1>3. PICK path : path = IF discovery_alarm[h] = None THEN discovered_path[h] ELSE NoPath
  OBVIOUS
<1>4. /\ thr[t].at = "wait" /\ discovery_sig[h] > 0
      /\ discovery_sig' = [discovery_sig EXCEPT ![h] = discovery_sig[h] - 1]
      /\ discovered_path' = [discovered_path EXCEPT ![h] = NoPath] \/ UNCHANGED discovered_path
      /\ discovery_mutex' = [discovery_mutex EXCEPT ![h] = TRUE]
      /\ thr' = [thr EXCEPT ![t].at = IF path = NoPath THEN "out" ELSE "send", ![t].path = path]
      /\ UNCHANGED <<route_cache, disc_cache, discovery_id, discovery_alarm, armed, net>>
  BY <1>1, <1>3 DEF Woken
<1>5. path # NoPath => Way(h, path)
  BY <1>2, <1>3 DEF IInv, WayInv
<1>6. PICK place : place = IF path = NoPath THEN "out" ELSE "send"
  OBVIOUS
<1>7. PICK r : r = [thr[t] EXCEPT !.at = place, !.path = path]
  OBVIOUS
<1>8. thr[t] \in Task
  BY DEF IInv, TypeInv, Task, Paths
<1>9. r \in Task /\ r.at = place /\ r.path = path /\ thr' = [thr EXCEPT ![t] = r]
  <2>1. path \in Paths /\ place \in Place
    BY <1>5, <1>6 DEF Way, Paths, Place
  <2> QED
    BY <1>4, <1>6, <1>7, <1>8, <2>1 DEF Task
<1>10. thr' \in [Thread -> Task] /\ thr'[t] = r /\ \A u \in Thread : u # t => thr'[u] = thr[u]
  BY <1>9, ThreadFacts DEF IInv
<1>11. TypeInv'
  <2>1. discovery_sig' \in [Host -> Nat]
    <3>1. discovery_sig[h] - 1 \in Nat
      BY <1>2, <1>4 DEF IInv, TypeInv
    <3> QED
      BY <1>4, <3>1 DEF IInv, TypeInv
  <2>2. discovered_path' \in [Host -> Seq(Host) \cup {NoPath}] /\ discovery_mutex' \in [Host -> BOOLEAN]
    BY <1>4 DEF IInv, TypeInv
  <2> QED
    BY <1>4, <1>10, <2>1, <2>2 DEF IInv, TypeInv, Task, Paths
<1>12. WayInv'
  <2>1. \A g \in Host : discovered_path'[g] # NoPath => Way(g, discovered_path'[g])
    BY <1>4 DEF IInv, TypeInv, WayInv
  <2>2. r.at = "send" => r.path # NoPath
    BY <1>6, <1>9
  <2> QED
    BY <1>1, <1>4, <1>5, <1>9, <1>10, <2>1, <2>2, ThreadWays DEF IInv
<1>13. MutexInv'
  <2>1. \A g \in Host : discovery_mutex'[g] = (IF g = h THEN TRUE ELSE discovery_mutex[g])
    BY <1>4 DEF IInv, TypeInv
  <2>2. Discovers(t) /\ ~Discovers(t)'
    BY <1>4, <1>6, <1>9, <1>10 DEF Discovers
  <2>3. \A u \in Thread : u # t => Discovers(u)' = Discovers(u)
    BY <1>10 DEF Discovers
  <2>4. \A u \in Thread : HostOf[u] = h /\ u # t => ~Discovers(u)
    BY <1>1, <2>2 DEF IInv, MutexInv
  <2>5. \A u \in Thread : HostOf[u] \in Host
    BY RouteAssumption
  <2> QED
    BY <1>1, <1>4, <2>1, <2>2, <2>3, <2>4, <2>5 DEF IInv, MutexInv
<1> QED
  BY <1>4, <1>11, <1>12, <1>13 DEF IInv, NetInv, CacheInv

LEMMA SendDataStep ==
    ASSUME IInv, NEW t \in Thread, SendData(t)
    PROVE  IInv'
<1>1. PICK h, m : h = HostOf[t] /\ m = along("DATA", HostOf[t], 0, thr[t].path)
  OBVIOUS
<1>2. h \in Host /\ Way(h, thr[t].path)
  BY <1>1, RouteAssumption DEF SendData, IInv, WayInv, Started
<1>3. m \in Whole /\ Sound(m)
  <2>1. 0 \in 0 .. MaxId
    BY RouteAssumption
  <2> QED
    BY <1>1, <1>2, <2>1, AlongFacts
<1>4. PICK r : r = [thr[t] EXCEPT !.at = "out", !.path = NoPath]
  OBVIOUS
<1>5. thr[t] \in Task
  BY DEF IInv, TypeInv, Task, Paths
<1>6. r \in Task /\ r.at = "out" /\ r.path = NoPath /\ thr' = [thr EXCEPT ![t] = r]
  BY <1>4, <1>5 DEF SendData, Task, Paths, Place
<1>7. thr' \in [Thread -> Task] /\ thr'[t] = r /\ \A u \in Thread : u # t => thr'[u] = thr[u]
  BY <1>6, ThreadFacts DEF IInv
<1>8. net' = net \cup {m} /\ UNCHANGED <<route_cache, disc_cache, discoveryVars>>
  BY <1>1 DEF SendData
<1>9. TypeInv'
  BY <1>3, <1>7, <1>8 DEF IInv, TypeInv, Task, Paths, discoveryVars
<1>10. WayInv'
  BY <1>6, <1>7, <1>8, ThreadWays DEF IInv, WayInv, discoveryVars
<1>11. NetInv'
  BY <1>3, <1>8 DEF IInv, NetInv
<1>12. MutexInv'
  BY <1>6, <1>7, <1>8, MutexKept DEF IInv, Discovers, discoveryVars
<1> QED
  BY <1>8, <1>9, <1>10, <1>11, <1>12 DEF IInv, CacheInv, discoveryVars

-----------------------------------------------------------------------------
(* The actions of hosts                                                    *)

LEMMA AlarmFiresStep ==
    ASSUME IInv, NEW h \in Host, NEW i \in armed[h], AlarmFires(h, i)
    PROVE  IInv'
<1>1. /\ armed' = [armed EXCEPT ![h] = armed[h] \ {i}]
      /\ discovery_sig' = [discovery_sig EXCEPT ![h] = discovery_sig[h] + 1]
      /\ UNCHANGED <<route_cache, disc_cache, discovery_id, discovery_mutex, discovery_alarm,
                     discovered_path, thr, net>>
  BY DEF AlarmFires
<1>2. TypeInv'
  BY <1>1 DEF IInv, TypeInv
<1>3. WayInv' /\ NetInv' /\ MutexInv' /\ CacheInv'
  BY <1>1 DEF IInv, WayInv, Started, NetInv, MutexInv, Discovers, CacheInv
<1> QED
  BY <1>2, <1>3 DEF IInv

\* One route cache is changed, and holds ways from its host.
LEMMA RoutesKept ==
    ASSUME IInv, NEW h \in Host, NEW c \in Seq(Entry), \A i \in DOMAIN c : Leads(h, c[i]), Bounded(c),
           route_cache' = [route_cache EXCEPT ![h] = c], UNCHANGED disc_cache
    PROVE  /\ route_cache' \in [Host -> Seq(Entry)]
           /\ \A g \in Host : \A i \in DOMAIN route_cache'[g] : Leads(g, route_cache'[g][i])
           /\ CacheInv'
<1>1. /\ route_cache' \in [Host -> Seq(Entry)] /\ route_cache'[h] = c
      /\ \A g \in Host : g # h => route_cache'[g] = route_cache[g]
  BY DEF IInv, TypeInv
<1>2. ASSUME NEW g \in Host
      PROVE  (\A i \in DOMAIN route_cache'[g] : Leads(g, route_cache'[g][i])) /\ Bounded(route_cache'[g])
  <2>1. CASE g = h
    BY <1>1, <2>1
  <2>2. CASE g # h
    BY <1>1, <2>2 DEF IInv, WayInv, CacheInv
  <2> QED
    BY <2>1, <2>2
<1> QED
  BY <1>1, <1>2 DEF IInv, CacheInv

LEMMA ExpireStep ==
    ASSUME IInv, NEW h \in Host, NEW i \in DOMAIN route_cache[h], Expire(h, i)
    PROVE  IInv'
<1>1. PICK c : c = route_cache[h]
  OBVIOUS
<1>2. PICK e : e = [c[i] EXCEPT !.fresh = FALSE]
  OBVIOUS
<1>3. c \in Seq(Entry) /\ i \in DOMAIN c /\ (\A j \in DOMAIN c : Leads(h, c[j])) /\ Bounded(c)
  BY <1>1 DEF IInv, TypeInv, WayInv, CacheInv
<1>4. e \in Entry /\ e.addr = c[i].addr /\ e.hop = c[i].hop
  <2>1. c[i] \in Entry
    BY <1>3
  <2> QED
    BY <1>2, <2>1 DEF Entry
<1>5. PICK d : d = [c EXCEPT ![i] = e]
  OBVIOUS
<1>6. /\ d \in Seq(Entry) /\ DOMAIN d = DOMAIN c /\ Len(d) = Len(c)
      /\ \A j \in DOMAIN c : d[j] = IF j = i THEN e ELSE c[j]
  BY <1>3, <1>4, <1>5
<1>7. \A j \in DOMAIN d : Leads(h, d[j])
  BY <1>3, <1>4, <1>6 DEF Leads
<1>8. Bounded(d)
  <2>1. \A j \in DOMAIN c : d[j].addr = c[j].addr
    BY <1>4, <1>6
  <2> QED
    BY <1>3, <1>6, <2>1 DEF Bounded
<1>9. /\ route_cache' = [route_cache EXCEPT ![h] = d]
      /\ UNCHANGED <<disc_cache, discoveryVars, thr, net>>
  BY <1>1, <1>2, <1>5 DEF Expire
<1>10. /\ route_cache' \in [Host -> Seq(Entry)]
       /\ \A g \in Host : \A j \in DOMAIN route_cache'[g] : Leads(g, route_cache'[g][j])
       /\ CacheInv'
  BY <1>6, <1>7, <1>8, <1>9, RoutesKept
<1>11. TypeInv'
  BY <1>9, <1>10 DEF IInv, TypeInv, discoveryVars
<1>12. WayInv' /\ NetInv' /\ MutexInv'
  BY <1>9, <1>10 DEF IInv, WayInv, Started, NetInv, MutexInv, Discovers, discoveryVars
<1> QED
  BY <1>10, <1>11, <1>12 DEF IInv

\* A host files a way from it.
LEMMA FileFacts ==
    ASSUME IInv, NEW h \in Host, NEW path, Way(h, path), UNCHANGED disc_cache,
           route_cache' = [route_cache EXCEPT ![h] = put_item(route_cache[h], route_item(path))]
    PROVE  /\ route_cache' \in [Host -> Seq(Entry)]
           /\ \A g \in Host : \A j \in DOMAIN route_cache'[g] : Leads(g, route_cache'[g][j])
           /\ CacheInv'
<1>1. PICK c, e : c = route_cache[h] /\ e = route_item(path)
  OBVIOUS
<1>2. PICK d : d = put_item(c, e)
  OBVIOUS
<1>3. c \in Seq(Entry) /\ (\A j \in DOMAIN c : Leads(h, c[j])) /\ Bounded(c)
  BY <1>1 DEF IInv, TypeInv, WayInv, CacheInv
<1>4. e \in Entry /\ Leads(h, e)
  <2>1. path \in Seq(Host) /\ Last(path) \in Host
    BY DEF Way, Last
  <2>2. e.addr = Last(path) /\ e.hop = path
    BY <1>1 DEF route_item
  <2> QED
    BY <1>1, <2>1, <2>2 DEF route_item, Entry, Leads
<1>5. /\ d \in Seq(Entry) /\ Bounded(d)
      /\ \A i \in DOMAIN d : d[i] = e \/ \E j \in DOMAIN c : d[i] = c[j]
  BY <1>2, <1>3, <1>4, PutFacts
<1>6. \A i \in DOMAIN d : Leads(h, d[i])
  BY <1>3, <1>4, <1>5
<1>7. route_cache' = [route_cache EXCEPT ![h] = d]
  BY <1>1, <1>2
<1> QED
  BY <1>5, <1>6, <1>7, RoutesKept

LEMMA PassOnStep ==
    ASSUME IInv, NEW m \in net, m.ttl > 0, PassOn(m)
    PROVE  IInv'
<1>1. PICK at : at = {i \in DOMAIN m.path : m.path[i] = m.to}
  OBVIOUS
<1>2. PICK i : i = CHOOSE j \in at : \A k \in at : j <= k
  OBVIOUS
<1>3. m \in Whole /\ Sound(m)
  BY DEF IInv, TypeInv, NetInv
<1>4. relay(m) = IF at # {} /\ i < Len(m.path)
                 THEN {[m EXCEPT !.from = m.to, !.to = m.path[i + 1], !.ttl = m.ttl - 1]}
                 ELSE {}
  BY <1>1, <1>2 DEF relay
<1>5. \A n \in relay(m) : n \in Whole /\ Sound(n)
  <2>1. ASSUME at # {}, i < Len(m.path)
        PROVE  LET n == [m EXCEPT !.from = m.to, !.to = m.path[i + 1], !.ttl = m.ttl - 1]
               IN  n \in Whole /\ Sound(n)
    <3>1. PICK n : n = [m EXCEPT !.from = m.to, !.to = m.path[i + 1], !.ttl = m.ttl - 1]
      OBVIOUS
    <3>2. PICK p : p = m.path
      OBVIOUS
    <3>3. p \in Seq(Host) /\ Len(p) \in Nat /\ DOMAIN p = 1 .. Len(p)
      BY <1>3, <3>2 DEF Whole
    <3>4. i \in at
      <4>1. at \in SUBSET Nat
        BY <1>1, <3>2, <3>3
      <4>2. \E j \in at : \A k \in at : j <= k
        BY <2>1, <4>1, Least
      <4> QED
        BY <1>2, <4>2
    <3>5. i \in 1 .. Len(p) - 1 /\ p[i] = m.to
      BY <1>1, <2>1, <3>2, <3>3, <3>4
    <3>6. p[i + 1] \in Host /\ <<m.to, p[i + 1]>> \in Links
      BY <1>3, <3>2, <3>3, <3>5 DEF Sound, Walk
    <3>7. m.ttl - 1 \in 0 .. MAX_ROUTE_LENGTH
      BY <1>3, RouteAssumption DEF Whole
    <3>8. /\ n \in Whole /\ n.from = m.to /\ n.to = p[i + 1] /\ n.type = m.type /\ n.dest = m.dest
          /\ n.id = m.id /\ n.path = m.path
      BY <1>3, <3>1, <3>2, <3>6, <3>7 DEF Whole
    <3>9. m.type # "DISCOVERY"
      BY DEF PassOn
    <3> QED
      BY <1>3, <3>1, <3>6, <3>8, <3>9 DEF Sound
  <2> QED
    BY <1>4, <2>1
<1>6. net' = net \cup relay(m) /\ UNCHANGED <<route_cache, disc_cache, discoveryVars, thr>>
  BY DEF PassOn
<1>7. TypeInv'
  BY <1>5, <1>6 DEF IInv, TypeInv, discoveryVars
<1>8. NetInv'
  BY <1>5, <1>6, NetKept DEF IInv
<1>9. WayInv' /\ MutexInv' /\ CacheInv'
  BY <1>6 DEF IInv, WayInv, Started, MutexInv, Discovers, CacheInv, discoveryVars
<1> QED
  BY <1>7, <1>8, <1>9 DEF IInv

\* The path with which a discovery came to a host, and the host.
LEMMA CameFacts ==
    ASSUME IInv, NEW m \in net, m.type = "DISCOVERY", NEW q, q = Append(m.path, m.to)
    PROVE  /\ m \in Whole /\ m.to \in Host /\ m.id \in 1 .. MaxId /\ m.path # << >> /\ m.path[1] \in Host
           /\ q \in Seq(Host) /\ Walk(q) /\ Len(q) >= 2 /\ Last(q) = m.to /\ q[Len(q)] = m.to /\ q # << >>
<1>1. m \in Whole /\ Sound(m)
  BY DEF IInv, TypeInv, NetInv
<1>2. PICK p : p = m.path
  OBVIOUS
<1>3. p \in Seq(Host) /\ Walk(p) /\ p # << >> /\ m.to \in Host /\ <<Last(p), m.to>> \in Links
  BY <1>1, <1>2 DEF Whole, Sound
<1>4. /\ q \in Seq(Host) /\ Walk(q) /\ Len(q) >= 2 /\ Last(q) = m.to /\ q[Len(q)] = m.to
  <2>1. PICK h : h = m.to
    OBVIOUS
  <2>2. q = Append(p, h) /\ h \in Host /\ <<p[Len(p)], h>> \in Links
    BY <1>2, <1>3, <2>1 DEF Last
  <2>3. p \in Seq(Host) /\ Walk(p) /\ p # << >>
    BY <1>3
  <2>4. q \in Seq(Host) /\ Walk(q) /\ Len(q) >= 2 /\ q[Len(q)] = h
    BY <2>2, <2>3, FurtherFacts
  <2> QED
    BY <2>1, <2>4 DEF Last
<1>5. p[1] \in Host /\ q # << >>
  BY <1>3, <1>4
<1>6. m.id \in 1 .. MaxId
  BY <1>1, RouteAssumption DEF Whole, Sound
<1> QED
  BY <1>1, <1>2, <1>3, <1>4, <1>5, <1>6

LEMMA RebroadcastStep ==
    ASSUME IInv, NEW m \in net, m.ttl > 0, Rebroadcast(m)
    PROVE  IInv'
<1>1. PICK h, item, q : h = m.to /\ item = dischist(m.path[1], m.id) /\ q = Append(m.path, m.to)
  OBVIOUS
<1>2. /\ m.type = "DISCOVERY"
      /\ disc_cache' = [disc_cache EXCEPT ![h] = put_item(disc_cache[h], item)]
      /\ net' = net \cup bcast(h, m.dest, m.id, m.ttl - 1, q)
      /\ UNCHANGED <<route_cache, discoveryVars, thr>>
  BY <1>1 DEF Rebroadcast
<1>3. /\ m \in Whole /\ h \in Host /\ m.id \in 1 .. MaxId /\ m.path[1] \in Host
      /\ q \in Seq(Host) /\ Walk(q) /\ Len(q) >= 2 /\ Last(q) = h /\ q # << >>
  BY <1>1, <1>2, CameFacts
<1>4. \A n \in bcast(h, m.dest, m.id, m.ttl - 1, q) : n \in Whole /\ Sound(n)
  <2>1. m.dest \in Host /\ m.ttl - 1 \in 0 .. MAX_ROUTE_LENGTH
    BY <1>3, RouteAssumption DEF Whole
  <2> QED
    BY <1>3, <2>1, BroadcastFacts
<1>5. PICK put : put = put_item(disc_cache[h], item)
  OBVIOUS
<1>6. put \in Seq(Seen) /\ Bounded(put)
  <2>1. item \in Seen
    BY <1>1, <1>3 DEF dischist, Seen
  <2>2. disc_cache[h] \in Seq(Seen) /\ Bounded(disc_cache[h])
    BY <1>3 DEF IInv, TypeInv, CacheInv
  <2> QED
    BY <1>5, <2>1, <2>2, PutFacts
<1>7. TypeInv'
  <2>1. disc_cache' \in [Host -> Seq(Seen)]
    BY <1>2, <1>5, <1>6 DEF IInv, TypeInv
  <2>2. net' \subseteq Whole
    BY <1>2, <1>4 DEF IInv, TypeInv
  <2> QED
    BY <1>2, <2>1, <2>2 DEF IInv, TypeInv, discoveryVars
<1>8. NetInv'
  BY <1>2, <1>4, NetKept DEF IInv
<1>9. CacheInv'
  <2>1. \A g \in Host : disc_cache'[g] = IF g = h THEN put ELSE disc_cache[g]
    BY <1>2, <1>5 DEF IInv, TypeInv
  <2> QED
    BY <1>2, <1>6, <2>1 DEF IInv, CacheInv
<1>10. WayInv' /\ MutexInv'
  BY <1>2 DEF IInv, WayInv, Started, MutexInv, Discovers, discoveryVars
<1> QED
  BY <1>7, <1>8, <1>9, <1>10 DEF IInv

LEMMA ReplyStep ==
    ASSUME IInv, NEW m \in net, m.ttl > 0, Reply(m)
    PROVE  IInv'
<1>1. PICK h, q : h = m.to /\ q = Append(m.path, m.to)
  OBVIOUS
<1>2. PICK path : path = path_from_hdr(q)
  OBVIOUS
<1>3. PICK n : n = along("REPLY", h, m.id, path)
  OBVIOUS
<1>4. /\ m.type = "DISCOVERY"
      /\ route_cache' = [route_cache EXCEPT ![h] = put_item(route_cache[h], route_item(path))]
      /\ net' = net \cup {n}
      /\ UNCHANGED <<disc_cache, discoveryVars, thr>>
  BY <1>1, <1>2, <1>3 DEF Reply
<1>5. /\ m \in Whole /\ h \in Host /\ m.id \in 1 .. MaxId
      /\ q \in Seq(Host) /\ Walk(q) /\ Len(q) >= 2 /\ q[Len(q)] = h
  BY <1>1, <1>4, CameFacts
<1>6. Way(h, path)
  BY <1>2, <1>5, BackFacts
<1>7. n \in Whole /\ Sound(n)
  <2>1. m.id \in 0 .. MaxId
    BY <1>5
  <2> QED
    BY <1>3, <1>5, <1>6, <2>1, AlongFacts
<1>8. /\ route_cache' \in [Host -> Seq(Entry)]
      /\ \A g \in Host : \A j \in DOMAIN route_cache'[g] : Leads(g, route_cache'[g][j])
      /\ CacheInv'
  BY <1>4, <1>5, <1>6, FileFacts
<1>9. TypeInv'
  BY <1>4, <1>7, <1>8 DEF IInv, TypeInv, discoveryVars
<1>10. NetInv'
  BY <1>4, <1>7 DEF IInv, NetInv
<1>11. WayInv' /\ MutexInv'
  BY <1>4, <1>8 DEF IInv, WayInv, Started, MutexInv, Discovers, discoveryVars
<1> QED
  BY <1>8, <1>9, <1>10, <1>11 DEF IInv

LEMMA TakeReplyStep ==
    ASSUME IInv, NEW m \in net, m.ttl > 0, TakeReply(m)
    PROVE  IInv'
<1>1. PICK h, path : h = m.to /\ path = path_from_hdr(m.path)
  OBVIOUS
<1>2. /\ m.type = "REPLY" /\ m.dest = h
      /\ discovered_path' = [discovered_path EXCEPT ![h] = path]
      /\ route_cache' = [route_cache EXCEPT ![h] = put_item(route_cache[h], route_item(path))]
      /\ Cancel(h)
      /\ UNCHANGED <<disc_cache, discovery_id, discovery_mutex, thr, net>>
  BY <1>1 DEF TakeReply
<1>3. m \in Whole /\ Sound(m)
  BY DEF IInv, TypeInv, NetInv
<1>4. PICK p : p = m.path
  OBVIOUS
<1>5. p \in Seq(Host) /\ Walk(p) /\ Len(p) >= 2 /\ p[Len(p)] = h /\ h \in Host
  BY <1>1, <1>2, <1>3, <1>4 DEF Whole, Sound, Last
<1>6. Way(h, path)
  BY <1>1, <1>4, <1>5, BackFacts
<1>7. /\ route_cache' \in [Host -> Seq(Entry)]
      /\ \A g \in Host : \A j \in DOMAIN route_cache'[g] : Leads(g, route_cache'[g][j])
      /\ CacheInv'
  BY <1>2, <1>5, <1>6, FileFacts
<1>8. /\ armed' \in [Host -> SUBSET (1 .. MaxId)] /\ discovery_alarm' \in [Host -> 0 .. MaxId]
      /\ discovery_sig' \in [Host -> Nat]
  <2>1. CASE discovery_alarm[h] = None
    BY <1>2, <2>1 DEF Cancel, IInv, TypeInv
  <2>2. CASE discovery_alarm[h] # None
    <3>1. /\ armed' = [armed EXCEPT ![h] = armed[h] \ {discovery_alarm[h]}]
          /\ discovery_alarm' = [discovery_alarm EXCEPT ![h] = None]
          /\ discovery_sig' = [discovery_sig EXCEPT ![h] = discovery_sig[h] + 1]
      BY <1>2, <2>2 DEF Cancel
    <3>2. None \in 0 .. MaxId
      BY RouteAssumption DEF None
    <3>3. armed' \in [Host -> SUBSET (1 .. MaxId)]
      <4>1. armed[h] \ {discovery_alarm[h]} \in SUBSET (1 .. MaxId)
        BY <1>5 DEF IInv, TypeInv
      <4> QED
        BY <3>1, <4>1 DEF IInv, TypeInv
    <3>4. discovery_sig' \in [Host -> Nat]
      <4>1. discovery_sig[h] + 1 \in Nat
        <5>1. discovery_sig \in [Host -> Nat] /\ h \in Host
          BY <1>5 DEF IInv, TypeInv
        <5> QED
          BY <5>1
      <4> QED
        BY <3>1, <4>1 DEF IInv, TypeInv
    <3>5. discovery_alarm' \in [Host -> 0 .. MaxId]
      BY <3>1, <3>2 DEF IInv, TypeInv
    <3> QED
      BY <3>3, <3>4, <3>5
  <2> QED
    BY <2>1, <2>2
<1>9. discovered_path' \in [Host -> Seq(Host) \cup {NoPath}]
  BY <1>2, <1>6 DEF IInv, TypeInv, Way
<1>10. TypeInv'
  BY <1>2, <1>7, <1>8, <1>9 DEF IInv, TypeInv
<1>11. WayInv'
  <2>1. \A g \in Host : discovered_path'[g] = IF g = h THEN path ELSE discovered_path[g]
    BY <1>2 DEF IInv, TypeInv
  <2>2. \A g \in Host : discovered_path'[g] # NoPath => Way(g, discovered_path'[g])
    BY <1>6, <2>1 DEF IInv, WayInv
  <2> QED
    BY <1>2, <1>7, <2>2 DEF IInv, WayInv, Started
<1>12. NetInv' /\ MutexInv'
  BY <1>2 DEF IInv, NetInv, MutexInv, Discovers
<1> QED
  BY <1>7, <1>10, <1>11, <1>12 DEF IInv

LEMMA NextInv == IInv /\ [Next]_vars => IInv'
<1> SUFFICES ASSUME IInv, [Next]_vars PROVE IInv'
  OBVIOUS
<1>1. ASSUME NEW t \in Thread, Sending(t) \/ \E d \in Dest[t] : Call(t, d) PROVE IInv'
  BY <1>1, CallStep, SendCachedStep, DiscoverStep, RegisterAlarmStep, WokenStep, SendDataStep DEF Sending
<1>2. ASSUME NEW h \in Host,
             \/ \E i \in armed[h] : AlarmFires(h, i)
             \/ \E i \in DOMAIN route_cache[h] : Expire(h, i)
      PROVE  IInv'
  BY <1>2, AlarmFiresStep, ExpireStep
<1>3. ASSUME NEW m \in net, Control(m) PROVE IInv'
  BY <1>3, PassOnStep, RebroadcastStep, ReplyStep, TakeReplyStep DEF Control
<1>4. CASE UNCHANGED vars
  BY <1>4 DEF vars, discoveryVars, IInv, TypeInv, WayInv, Started, NetInv, MutexInv, Discovers, CacheInv
<1> QED
  BY <1>1, <1>2, <1>3, <1>4 DEF Next

\* IInv holds throughout.
LEMMA Invariance == Spec => []IInv
BY InitInv, NextInv, PTL DEF Spec
-----------------------------------------------------------------------------
(***************************************************************************)
(* What the runs check, of every execution.                                *)
(***************************************************************************)
\* Every variable has its type.
THEOREM TypeCorrect == Spec => []TypeOK
<1>1. ASSUME TypeInv, NetInv, MutexInv PROVE TypeOK
  <2>1. ASSUME NEW h \in Host
        PROVE  /\ \A i \in DOMAIN route_cache[h] :
                     /\ route_cache[h][i].addr \in Host /\ route_cache[h][i].hop \in Seq(Host)
                     /\ route_cache[h][i].fresh \in BOOLEAN
               /\ \A i \in DOMAIN disc_cache[h] : /\ disc_cache[h][i].addr \in Host
                                                  /\ disc_cache[h][i].id \in 1 .. MaxId
    <3>1. PICK c, d : c = route_cache[h] /\ d = disc_cache[h]
      OBVIOUS
    <3>2. (\A i \in DOMAIN c : c[i] \in Entry) /\ (\A i \in DOMAIN d : d[i] \in Seen)
      BY <1>1, <3>1 DEF TypeInv
    <3> QED
      BY <3>1, <3>2 DEF Entry, Seen
  <2>2. \A h \in Host : /\ discovered_path[h] = NoPath \/ discovered_path[h] \in Seq(Host)
                        /\ armed[h] \subseteq 1 .. MaxId
    BY <1>1 DEF TypeInv
  <2>3. \A t \in Thread : thr[t].at \in {"out", "enter", "register", "wait", "send"} /\ thr[t].dest \in Host
    BY <1>1 DEF TypeInv, Place
  <2>4. \A m \in net : /\ m.type \in PacketType /\ m.dest \in Host
                       /\ m.ttl \in 0 .. MAX_ROUTE_LENGTH /\ m.path \in Seq(Host)
    BY <1>1 DEF TypeInv, Whole
  <2> QED
    BY <1>1, <2>1, <2>2, <2>3, <2>4 DEF TypeInv, TypeOK
<1> QED
  BY <1>1, Invariance, PTL DEF IInv

\* Every cached route, and every path a thread sends along, leads from the host over links
\* to the address it is filed under, however the discoveries and replies were mixed up.
THEOREM RoutesAreWays == Spec => []RoutesLead
<1>1. ASSUME TypeInv, WayInv PROVE RoutesLead
  <2>1. \A h, p : Way(h, p) => Head(p) = h /\ Walk(p)
    BY DEF Way
  <2>2. \A h \in Host : \A e \in Range(route_cache[h]) : Leads(h, e)
    BY <1>1 DEF WayInv, Range
  <2> QED
    BY <1>1, <2>1, <2>2 DEF WayInv, Started, Leads, RoutesLead
<1> QED
  BY <1>1, Invariance, PTL DEF IInv

\* No host sends to one that is not its neighbour: data and replies follow paths of links,
\* and a discovery is only broadcast.
THEOREM NeighboursOnly == Spec => []OnlyOverLinks
<1>1. NetInv => OnlyOverLinks
  BY DEF NetInv, Sound, OnlyOverLinks
<1> QED
  BY <1>1, Invariance, PTL DEF IInv

\* While a thread of a host discovers a route, no other thread there broadcasts for it.
THEOREM BroadcastOnce == Spec => OneBroadcast
<1>1. ASSUME IInv, [Next]_vars, NEW t \in Thread, NEW u \in Thread,
             thr[t].at = "enter", thr'[t].at = "register", t # u, HostOf[t] = HostOf[u]
      PROVE  ~(thr[u].at \in {"register", "wait"} /\ thr[u].dest = thr[t].dest)
  <2>1. discovery_mutex[HostOf[t]]
    <3>1. thr' # thr
      BY <1>1
    <3>2. PICK v \in Thread : Sending(v) \/ \E d \in Dest[v] : Call(v, d)
      <4>1. ASSUME NEW m \in net, Control(m) PROVE FALSE
        BY <3>1, <4>1 DEF Control, PassOn, Rebroadcast, Reply, TakeReply
      <4>2. ASSUME NEW h \in Host, NEW i, AlarmFires(h, i) \/ Expire(h, i) PROVE FALSE
        BY <3>1, <4>2 DEF AlarmFires, Expire
      <4> QED
        BY <1>1, <3>1, <4>1, <4>2 DEF Next, vars
    <3>3. v = t /\ thr \in [Thread -> Task]
      <4>1. thr \in [Thread -> Task]
        BY <1>1 DEF IInv, TypeInv, Task, Paths
      <4>2. \A w \in Thread : w # v => thr'[w] = thr[w]
        BY <3>2, <4>1 DEF Sending, Call, SendCached, Discover, RegisterAlarm, Woken, SendData, Goto
      <4> QED
        BY <1>1, <4>1, <4>2
    <3>4. Discover(t)
      <4>1. ~SendCached(t) /\ ~Woken(t) /\ ~SendData(t) /\ ~RegisterAlarm(t) /\ ~\E d \in Dest[t] : Call(t, d)
        <5>1. ~RegisterAlarm(t) /\ ~Woken(t) /\ ~SendData(t)
          BY <1>1 DEF Woken, SendData, RegisterAlarm
        <5>2. ~\E d \in Dest[t] : Call(t, d)
          BY <1>1 DEF Call
        <5>3. ~SendCached(t)
          <6>1. ASSUME NEW p, thr' = [thr EXCEPT ![t].at = "send", ![t].path = p] PROVE FALSE
            <7>1. thr[t] \in Task
              BY <3>3
            <7>2. thr'[t].at = "send"
              BY <3>3, <6>1, <7>1 DEF Task
            <7> QED
              BY <1>1, <7>2
          <6> QED
            BY <6>1 DEF SendCached
        <5> QED
          BY <5>1, <5>2, <5>3
      <4> QED
        BY <3>2, <3>3, <4>1 DEF Sending
    <3> QED
      BY <3>4 DEF Discover
  <2> QED
    BY <1>1, <2>1 DEF IInv, MutexInv, Discovers
<1>2. IInv /\ [Next]_vars =>
        [\A t, u \in Thread :
            thr[t].at = "enter" /\ thr'[t].at = "register" /\ t # u /\ HostOf[t] = HostOf[u]
              => ~(thr[u].at \in {"register", "wait"} /\ thr[u].dest = thr[t].dest)]_vars
  BY <1>1
<1> QED
  BY <1>2, Invariance, PTL DEF Spec, OneBroadcast

\* A cache of routes or discoveries never has more entries than its limit, nor two of one
\* address: the entry that a search finds is the only one.
THEOREM CachesBounded == Spec => []CacheInv
BY Invariance, PTL DEF IInv
=============================================================================
