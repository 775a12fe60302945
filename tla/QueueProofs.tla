----------------------------- MODULE QueueProofs -----------------------------
(***************************************************************************)
(* Proofs about queue.c, for any finite set of items and any queues.       *)
(***************************************************************************)
EXTENDS Queue, SequenceTheorems, FunctionTheorems, FiniteSetTheorems, WellFoundedInduction, TLAPS

\* What is at place i of s, where its ends are followed by NULL.
Place(s, i) == IF i \in 1 .. Len(s) THEN s[i] ELSE NULL

(***************************************************************************)
(* The heap h keeps the list s in q: the header has its ends and length,   *)
(* and every item names q and the items at its sides.                      *)
(***************************************************************************)
IsList(h, q, s) ==
    /\ s \in Seq(Nodes)
    /\ h.queue[q].length = Len(s)
    /\ h.queue[q].head = Place(s, 1)
    /\ h.queue[q].tail = Place(s, Len(s))
    /\ \A i \in 1 .. Len(s) : /\ h.node[s[i]].queue = q
                              /\ h.node[s[i]].prev = Place(s, i - 1)
                              /\ h.node[s[i]].next = Place(s, i + 1)

IsHeap(h) ==
    /\ h.node \in [Nodes -> Links]
    /\ h.queue \in [Queues -> [head : Nodes \cup {NULL}, tail : Nodes \cup {NULL}, length : Nat]]

\* The inductive invariant: every queue is a list, the one that a walk from its head meets.
IInv == IsHeap(heap) /\ \A q \in Queues : IsList(heap, q, Walk(heap, q))
-----------------------------------------------------------------------------
(* A list is what a walk meets                                             *)

\* A set of numbers that is not empty has a least one.
Less == {p \in Nat \X Nat : p[1] < p[2]}

LEMMA LessWellFounded == IsWellFoundedOn(Less, Nat)
<1>1. IsWellFoundedOn(OpToRel(<, Nat), Nat)
  BY NatLessThanWellFounded
<1> QED
  BY <1>1, Zenon DEF OpToRel, Less

LEMMA Least ==
    ASSUME NEW S \in SUBSET Nat, S # {}
    PROVE  \E m \in S : \A n \in S : m <= n
<1>1. PICK m \in S : \A n \in S : ~(<<n, m>> \in Less)
  BY LessWellFounded, WFMin
<1>2. ASSUME NEW n \in S PROVE m <= n
  <2>1. m \in Nat /\ n \in Nat
    OBVIOUS
  <2>2. n < m => <<n, m>> \in Less
    BY <2>1 DEF Less
  <2> QED
    BY <1>1, <2>1, <2>2
<1> QED
  BY <1>2

\* An item is at one place of a list: else the first such place would be its head, with no prev.
LEMMA ListInjective ==
    ASSUME NEW h, NEW q, NEW s, IsList(h, q, s), NEW i \in 1 .. Len(s), NEW j \in 1 .. Len(s), s[i] = s[j]
    PROVE  i = j
<1>1. s \in Seq(Nodes) /\ Len(s) \in Nat /\ NULL \notin Nodes
  BY QueueAssumption DEF IsList
<1>2. \A k \in 1 .. Len(s) : s[k] \in Nodes /\ h.node[s[k]].prev = Place(s, k - 1)
  BY <1>1 DEF IsList
<1> DEFINE Twice == {k \in 1 .. Len(s) : \E l \in 1 .. Len(s) : k < l /\ s[k] = s[l]}
<1>3. Twice = {}
  <2>1. SUFFICES ASSUME Twice # {} PROVE FALSE
    OBVIOUS
  <2>2. PICK k \in Twice : \A l \in Twice : k <= l
    <3>1. Twice \in SUBSET Nat
      BY <1>1
    <3> QED
      BY <2>1, <3>1, Least
  <2>3. PICK l \in 1 .. Len(s) : k < l /\ s[k] = s[l]
    BY <2>2
  <2>4. k \in 1 .. Len(s) /\ Place(s, k - 1) = Place(s, l - 1)
    BY <1>2, <2>2, <2>3
  <2>5. l - 1 \in 1 .. Len(s) /\ Place(s, l - 1) = s[l - 1]
    BY <1>1, <2>3, <2>4 DEF Place
  <2>6. CASE k = 1
    <3>1. Place(s, k - 1) = NULL
      BY <1>1, <2>6 DEF Place
    <3> QED
      BY <1>1, <1>2, <2>4, <2>5, <3>1
  <2>7. CASE k # 1
    <3>1. k - 1 \in 1 .. Len(s) /\ Place(s, k - 1) = s[k - 1]
      BY <1>1, <2>4, <2>7 DEF Place
    <3>2. k - 1 < l - 1 /\ s[k - 1] = s[l - 1]
      BY <1>1, <2>3, <2>4, <2>5, <3>1
    <3>3. k - 1 \in Twice
      BY <2>5, <3>1, <3>2
    <3>4. ~(k <= k - 1)
      BY <1>1, <2>4
    <3> QED
      BY <2>2, <3>3, <3>4
  <2> QED
    BY <2>6, <2>7
<1>4. i < j \/ j < i \/ i = j
  BY <1>1
<1> QED
  BY <1>3, <1>4

LEMMA ListLength ==
    ASSUME NEW h, NEW q, NEW s, IsList(h, q, s)
    PROVE  Len(s) \in 0 .. Cardinality(Nodes) /\ Cardinality(Nodes) \in Nat
<1>1. s \in Seq(Nodes) /\ Len(s) \in Nat
  BY DEF IsList
<1>2. IsFiniteSet(Nodes) /\ Cardinality(Nodes) \in Nat
  BY QueueAssumption, FS_CardinalityType
<1>3. PICK f : f = [i \in 1 .. Len(s) |-> s[i]]
  OBVIOUS
<1>4. f \in [1 .. Len(s) -> Nodes]
  BY <1>1, <1>3
<1>5. \A i, j \in 1 .. Len(s) : f[i] = f[j] => i = j
  BY <1>3, ListInjective
<1>6. f \in Injection(1 .. Len(s), Nodes)
  BY <1>4, <1>5, Fun_IsInj
<1>7. Cardinality(1 .. Len(s)) <= Cardinality(Nodes)
  BY <1>2, <1>6, FS_Injection
<1>8. Cardinality(1 .. Len(s)) = Len(s)
  <2>1. 1 \in Int /\ Len(s) \in Int
    BY <1>1
  <2>2. Cardinality(1 .. Len(s)) = IF 1 > Len(s) THEN 0 ELSE Len(s) - 1 + 1
    BY <2>1, FS_Interval
  <2> QED
    BY <1>1, <2>2
<1> QED
  BY <1>1, <1>2, <1>7, <1>8

LEMMA WalkMeets ==
    ASSUME NEW h, NEW q, NEW s, IsList(h, q, s)
    PROVE  Walk(h, q) = s
<1>1. PICK N, l : N = Cardinality(Nodes) /\ l = Len(s)
  OBVIOUS
<1>2. N \in Nat /\ l \in Nat /\ l <= N /\ s \in Seq(Nodes) /\ NULL \notin Nodes
  <2>1. Len(s) \in 0 .. Cardinality(Nodes) /\ Cardinality(Nodes) \in Nat
    BY ListLength
  <2> QED
    BY <1>1, <2>1, QueueAssumption DEF IsList
<1>3. PICK first, after : first = h.queue[q].head /\ after = [n \in Nodes |-> h.node[n].next]
  OBVIOUS
<1>4. first = Place(s, 1) /\ \A i \in 1 .. l : s[i] \in Nodes /\ after[s[i]] = Place(s, i + 1)
  BY <1>1, <1>2, <1>3 DEF IsList
<1>5. PICK w : w = [i \in 1 .. N |-> Place(s, i)]
  OBVIOUS
<1>6. ASSUME NEW i \in 1 .. N
      PROVE  w[i] = IF i = 1 THEN h.queue[q].head
                    ELSE IF w[i - 1] = NULL THEN NULL ELSE h.node[w[i - 1]].next
  <2>1. CASE i = 1
    BY <1>3, <1>4, <1>5, <2>1
  <2>2. CASE i # 1
    <3>1. i - 1 \in 1 .. N /\ (i - 1) + 1 = i /\ w[i] = Place(s, i) /\ w[i - 1] = Place(s, i - 1)
      BY <1>2, <1>5, <2>2
    <3>2. CASE i - 1 <= l
      <4>1. i - 1 \in 1 .. l /\ w[i - 1] = s[i - 1] /\ s[i - 1] \in Nodes
        BY <1>1, <1>2, <1>4, <3>1, <3>2 DEF Place
      <4>2. h.node[s[i - 1]].next = Place(s, i)
        BY <1>3, <1>4, <3>1, <4>1
      <4> QED
        BY <1>2, <2>2, <3>1, <4>1, <4>2
    <3>3. CASE i - 1 > l
      <4>1. w[i - 1] = NULL /\ w[i] = NULL
        BY <1>1, <1>2, <3>1, <3>3 DEF Place
      <4> QED
        BY <2>2, <4>1
    <3> QED
      BY <1>2, <3>1, <3>2, <3>3
  <2> QED
    BY <2>1, <2>2
<1>7. w = [i \in 1 .. Cardinality(Nodes) |->
              IF i = 1 THEN h.queue[q].head
              ELSE IF w[i - 1] = NULL THEN NULL ELSE h.node[w[i - 1]].next]
  BY <1>1, <1>5, <1>6
<1>8. PICK at : at = CHOOSE g : g = [i \in 1 .. Cardinality(Nodes) |->
                                       IF i = 1 THEN h.queue[q].head
                                       ELSE IF g[i - 1] = NULL THEN NULL ELSE h.node[g[i - 1]].next]
  OBVIOUS
<1>9. at = [i \in 1 .. Cardinality(Nodes) |->
              IF i = 1 THEN h.queue[q].head
              ELSE IF at[i - 1] = NULL THEN NULL ELSE h.node[at[i - 1]].next]
  BY <1>7, <1>8, Zenon
<1>10. Walk(h, q) = SubSeq(at, 1, Cardinality({i \in DOMAIN at : at[i] # NULL}))
  BY <1>8, Zenon DEF Walk
<1>11. at = w
  <2> DEFINE Wrong == {i \in 1 .. N : at[i] # w[i]}
  <2>1. SUFFICES ASSUME Wrong # {} PROVE FALSE
    BY <1>1, <1>5, <1>9
  <2>2. PICK i \in Wrong : \A j \in Wrong : i <= j
    <3>1. Wrong \in SUBSET Nat
      BY <1>2
    <3> QED
      BY <2>1, <3>1, Least
  <2>3. i \in 1 .. N /\ at[i] # w[i]
    BY <2>2
  <2>4. i # 1 => i - 1 \in 1 .. N /\ at[i - 1] = w[i - 1]
    <3>1. i # 1 => i - 1 \in 1 .. N /\ ~(i <= i - 1)
      BY <1>2, <2>3, SMTT(30)
    <3> QED
      BY <2>2, <3>1
  <2>5. at[i] = IF i = 1 THEN h.queue[q].head
                ELSE IF at[i - 1] = NULL THEN NULL ELSE h.node[at[i - 1]].next
    BY <1>1, <1>9, <2>3
  <2> QED
    BY <1>6, <2>3, <2>4, <2>5
<1>12. {i \in DOMAIN at : at[i] # NULL} = 1 .. l
  BY <1>1, <1>2, <1>4, <1>5, <1>11 DEF Place
<1>13. Cardinality(1 .. l) = l
  BY <1>2, FS_Interval
<1>14. PICK c : c = SubSeq(w, 1, l)
  OBVIOUS
<1>15. Walk(h, q) = c
  BY <1>10, <1>11, <1>12, <1>13, <1>14
<1>16. c \in Seq(Nodes) /\ Len(c) = l /\ \A i \in 1 .. l : c[i] = s[i]
  <2>1. \A i \in 1 .. l : w[i] = s[i] /\ w[i] \in Nodes
    BY <1>1, <1>2, <1>4, <1>5 DEF Place
  <2>2. 1 \in Int /\ l \in Int
    BY <1>2
  <2>3. /\ SubSeq(w, 1, l) \in Seq(Nodes)
        /\ Len(SubSeq(w, 1, l)) = IF 1 <= l THEN l - 1 + 1 ELSE 0
        /\ \A i \in 1 .. l - 1 + 1 : SubSeq(w, 1, l)[i] = w[1 + i - 1]
    BY <2>1, <2>2, SubSeqProperties
  <2>4. c \in Seq(Nodes) /\ Len(c) = l
    BY <1>2, <1>14, <2>3
  <2>5. ASSUME NEW i \in 1 .. l PROVE c[i] = s[i]
    <3>1. i \in 1 .. l - 1 + 1 /\ 1 + i - 1 = i
      BY <1>2
    <3> QED
      BY <1>14, <2>1, <2>3, <3>1
  <2> QED
    BY <2>4, <2>5
<1> QED
  BY <1>1, <1>2, <1>15, <1>16, SeqEqual
-----------------------------------------------------------------------------
(* The operations on the lists                                             *)

LEMMA PlaceFacts ==
    ASSUME NEW h, NEW q, NEW s, IsList(h, q, s), NEW i \in Int
    PROVE  /\ Place(s, i) \in Nodes \cup {NULL} /\ (Place(s, i) = NULL <=> i \notin 1 .. Len(s))
           /\ \A j \in 1 .. Len(s) : Place(s, i) = s[j] => i = j
<1>1. s \in Seq(Nodes) /\ NULL \notin Nodes /\ \A j \in 1 .. Len(s) : s[j] \in Nodes
  BY QueueAssumption DEF IsList
<1>2. CASE i \in 1 .. Len(s)
  BY <1>1, <1>2, ListInjective DEF Place
<1>3. CASE i \notin 1 .. Len(s)
  BY <1>1, <1>3 DEF Place
<1> QED
  BY <1>2, <1>3

\* Items of a list that are left alone leave it a list.
LEMMA ListKept ==
    ASSUME NEW h, NEW g, NEW q, NEW s, IsList(h, q, s), g.queue[q] = h.queue[q],
           \A i \in 1 .. Len(s) : /\ g.node[s[i]].queue = h.node[s[i]].queue
                                  /\ g.node[s[i]].prev = h.node[s[i]].prev
                                  /\ g.node[s[i]].next = h.node[s[i]].next
    PROVE  IsList(g, q, s)
BY DEF IsList

\* Two queues have no item in common.
LEMMA ListsApart ==
    ASSUME NEW h, NEW q, NEW r, q # r, NEW s, NEW u, IsList(h, q, s), IsList(h, r, u),
           NEW i \in Int, NEW j \in 1 .. Len(u)
    PROVE  u[j] # Place(s, i)
<1>1. h.node[u[j]].queue = r /\ u[j] \in Nodes /\ NULL \notin Nodes
  BY QueueAssumption DEF IsList
<1>2. i \in 1 .. Len(s) => h.node[s[i]].queue = q
  BY DEF IsList
<1> QED
  BY <1>1, <1>2 DEF Place

\* queue_append adds at the end.
LEMMA AppendFacts ==
    ASSUME NEW h, IsHeap(h), NEW q \in Queues, NEW s, IsList(h, q, s), NEW n \in Nodes,
           \A i \in 1 .. Len(s) : s[i] # n, NEW g, g = QueueAppend(h, q, n)
    PROVE  /\ IsHeap(g) /\ IsList(g, q, Append(s, n))
           /\ \A r \in Queues \ {q} : g.queue[r] = h.queue[r]
           /\ \A m \in Nodes : m # n => /\ g.node[m].queue = h.node[m].queue /\ g.node[m].prev = h.node[m].prev
                                        /\ m # Place(s, Len(s)) => g.node[m].next = h.node[m].next
<1>1. PICK l, tl, hd : l = Len(s) /\ tl = h.queue[q].tail /\ hd = h.queue[q].head
  OBVIOUS
<1>2. /\ s \in Seq(Nodes) /\ l \in Nat /\ NULL \notin Nodes /\ h.queue[q].length = l
      /\ tl = Place(s, l) /\ hd = Place(s, 1)
  BY <1>1, QueueAssumption DEF IsList
<1>3. \A i \in 1 .. l : /\ s[i] \in Nodes /\ h.node[s[i]].queue = q
                        /\ h.node[s[i]].prev = Place(s, i - 1) /\ h.node[s[i]].next = Place(s, i + 1)
  BY <1>1, <1>2 DEF IsList
<1>4. PICK linked : linked = IF l = 0 THEN h.node ELSE [h.node EXCEPT ![tl].next = n]
  OBVIOUS
<1>5. /\ g.node = [linked EXCEPT ![n] = [prev |-> tl, next |-> NULL, queue |-> q]]
      /\ g.queue = [h.queue EXCEPT ![q] = [head |-> IF l = 0 THEN n ELSE @.head, tail |-> n, length |-> @.length + 1]]
  BY <1>1, <1>2, <1>4 DEF QueueAppend
<1>6. h.node \in [Nodes -> Links]
  BY DEF IsHeap
<1>7. h.queue \in [Queues -> [head : Nodes \cup {NULL}, tail : Nodes \cup {NULL}, length : Nat]]
  BY DEF IsHeap
<1>8. tl \in Nodes \cup {NULL} /\ hd \in Nodes \cup {NULL} /\ (l # 0 => tl \in Nodes /\ tl = s[l] /\ hd = s[1])
  BY <1>1, <1>2, <1>3 DEF Place
<1>9. linked \in [Nodes -> Links]
  <2>1. CASE l = 0
    BY <1>4, <1>6, <2>1
  <2>2. CASE l # 0
    BY <1>4, <1>6, <1>8, <2>2 DEF Links
  <2> QED
    BY <2>1, <2>2
<1>10. \A m \in Nodes : /\ linked[m].queue = h.node[m].queue /\ linked[m].prev = h.node[m].prev
                        /\ linked[m].next = IF l # 0 /\ m = tl THEN n ELSE h.node[m].next
  <2>1. CASE l = 0
    BY <1>4, <2>1
  <2>2. CASE l # 0
    BY <1>4, <1>6, <1>8, <2>2 DEF Links
  <2> QED
    BY <2>1, <2>2
<1>11. g.node \in [Nodes -> Links]
  BY <1>5, <1>8, <1>9 DEF Links
<1>12. /\ g.queue[q].length = l + 1 /\ g.queue[q].tail = n /\ g.queue[q].head = IF l = 0 THEN n ELSE hd
       /\ \A r \in Queues \ {q} : g.queue[r] = h.queue[r]
  <2>1. g.queue[q] = [head |-> IF l = 0 THEN n ELSE h.queue[q].head, tail |-> n, length |-> h.queue[q].length + 1]
    BY <1>5, <1>7
  <2>2. \A r \in Queues \ {q} : g.queue[r] = h.queue[r]
    BY <1>5, <1>7
  <2>3. g.queue[q].length = h.queue[q].length + 1 /\ g.queue[q].tail = n /\ g.queue[q].head = IF l = 0 THEN n ELSE h.queue[q].head
    BY <2>1
  <2> QED
    BY <1>1, <1>2, <2>2, <2>3
<1>13. g.queue \in [Queues -> [head : Nodes \cup {NULL}, tail : Nodes \cup {NULL}, length : Nat]]
  BY <1>2, <1>5, <1>7
<1>14. g.node[n].prev = tl /\ g.node[n].next = NULL /\ g.node[n].queue = q
  BY <1>5, <1>9
<1>15. \A m \in Nodes : m # n => /\ g.node[m].queue = h.node[m].queue /\ g.node[m].prev = h.node[m].prev
                                 /\ g.node[m].next = IF l # 0 /\ m = tl THEN n ELSE h.node[m].next
  BY <1>5, <1>9, <1>10
<1>16. PICK t : t = Append(s, n)
  OBVIOUS
<1>17. t \in Seq(Nodes) /\ Len(t) = l + 1 /\ t[l + 1] = n /\ \A i \in 1 .. l : t[i] = s[i]
  BY <1>1, <1>2, <1>16, AppendProperties
<1>18. \A j \in Int : Place(t, j) = IF j = l + 1 THEN n ELSE Place(s, j)
  BY <1>1, <1>2, <1>17 DEF Place
<1>19. ASSUME NEW i \in 1 .. l + 1
       PROVE  /\ g.node[t[i]].queue = q /\ g.node[t[i]].prev = Place(t, i - 1)
              /\ g.node[t[i]].next = Place(t, i + 1)
  <2>1. CASE i = l + 1
    <3>1. t[i] = n /\ Place(t, i - 1) = Place(s, l) /\ Place(t, i + 1) = Place(s, l + 2)
      BY <1>2, <1>17, <1>18, <2>1
    <3>2. Place(s, l + 2) = NULL
      BY <1>1, <1>2 DEF Place
    <3> QED
      BY <1>2, <1>14, <3>1, <3>2
  <2>2. CASE i \in 1 .. l
    <3>1. t[i] = s[i] /\ s[i] \in Nodes /\ s[i] # n
      BY <1>1, <1>3, <1>17, <2>2
    <3>2. Place(t, i - 1) = Place(s, i - 1)
      BY <1>2, <1>18, <2>2
    <3>3. g.node[s[i]].next = Place(t, i + 1)
      <4>1. CASE i = l
        BY <1>2, <1>8, <1>15, <1>18, <2>2, <3>1, <4>1
      <4>2. CASE i # l
        <5>1. s[i] # tl
          BY <1>1, <1>2, <1>8, <2>2, <4>2, ListInjective
        <5>2. Place(t, i + 1) = Place(s, i + 1)
          BY <1>2, <1>18, <2>2, <4>2
        <5> QED
          BY <1>3, <1>15, <2>2, <3>1, <5>1, <5>2
      <4> QED
        BY <4>1, <4>2
    <3> QED
      BY <1>3, <1>15, <2>2, <3>1, <3>2, <3>3
  <2> QED
    BY <1>2, <2>1, <2>2
<1>20. IsList(g, q, t)
  <2>1. g.queue[q].head = Place(t, 1) /\ g.queue[q].tail = Place(t, l + 1)
    BY <1>2, <1>12, <1>18
  <2> QED
    BY <1>12, <1>17, <1>19, <2>1 DEF IsList
<1>21. IsHeap(g)
  BY <1>11, <1>13 DEF IsHeap
<1> QED
  BY <1>1, <1>2, <1>12, <1>15, <1>16, <1>20, <1>21

\* queue_prepend adds at the front.
LEMMA PrependFacts ==
    ASSUME NEW h, IsHeap(h), NEW q \in Queues, NEW s, IsList(h, q, s), NEW n \in Nodes,
           \A i \in 1 .. Len(s) : s[i] # n, NEW g, g = QueuePrepend(h, q, n)
    PROVE  /\ IsHeap(g) /\ IsList(g, q, <<n>> \o s)
           /\ \A r \in Queues \ {q} : g.queue[r] = h.queue[r]
           /\ \A m \in Nodes : m # n => /\ g.node[m].queue = h.node[m].queue /\ g.node[m].next = h.node[m].next
                                        /\ m # Place(s, 1) => g.node[m].prev = h.node[m].prev
<1>1. PICK l, tl, hd : l = Len(s) /\ tl = h.queue[q].tail /\ hd = h.queue[q].head
  OBVIOUS
<1>2. /\ s \in Seq(Nodes) /\ l \in Nat /\ NULL \notin Nodes /\ h.queue[q].length = l
      /\ tl = Place(s, l) /\ hd = Place(s, 1)
  BY <1>1, QueueAssumption DEF IsList
<1>3. \A i \in 1 .. l : /\ s[i] \in Nodes /\ h.node[s[i]].queue = q
                        /\ h.node[s[i]].prev = Place(s, i - 1) /\ h.node[s[i]].next = Place(s, i + 1)
  BY <1>1, <1>2 DEF IsList
<1>4. PICK linked : linked = IF l = 0 THEN h.node ELSE [h.node EXCEPT ![hd].prev = n]
  OBVIOUS
<1>5. /\ g.node = [linked EXCEPT ![n] = [prev |-> NULL, next |-> hd, queue |-> q]]
      /\ g.queue = [h.queue EXCEPT ![q] = [head |-> n, tail |-> IF l = 0 THEN n ELSE @.tail, length |-> @.length + 1]]
  BY <1>1, <1>2, <1>4 DEF QueuePrepend
<1>6. h.node \in [Nodes -> Links]
  BY DEF IsHeap
<1>7. h.queue \in [Queues -> [head : Nodes \cup {NULL}, tail : Nodes \cup {NULL}, length : Nat]]
  BY DEF IsHeap
<1>8. tl \in Nodes \cup {NULL} /\ hd \in Nodes \cup {NULL} /\ (l # 0 => hd \in Nodes /\ tl = s[l] /\ hd = s[1])
  BY <1>1, <1>2, <1>3 DEF Place
<1>9. linked \in [Nodes -> Links]
  <2>1. CASE l = 0
    BY <1>4, <1>6, <2>1
  <2>2. CASE l # 0
    BY <1>4, <1>6, <1>8, <2>2 DEF Links
  <2> QED
    BY <2>1, <2>2
<1>10. \A m \in Nodes : /\ linked[m].queue = h.node[m].queue /\ linked[m].next = h.node[m].next
                        /\ linked[m].prev = IF l # 0 /\ m = hd THEN n ELSE h.node[m].prev
  <2>1. CASE l = 0
    BY <1>4, <2>1
  <2>2. CASE l # 0
    BY <1>4, <1>6, <1>8, <2>2 DEF Links
  <2> QED
    BY <2>1, <2>2
<1>11. g.node \in [Nodes -> Links]
  BY <1>5, <1>8, <1>9 DEF Links
<1>12. /\ g.queue[q].length = l + 1 /\ g.queue[q].head = n /\ g.queue[q].tail = IF l = 0 THEN n ELSE tl
       /\ \A r \in Queues \ {q} : g.queue[r] = h.queue[r]
  <2>1. g.queue[q] = [head |-> n, tail |-> IF l = 0 THEN n ELSE h.queue[q].tail, length |-> h.queue[q].length + 1]
    BY <1>5, <1>7
  <2>2. \A r \in Queues \ {q} : g.queue[r] = h.queue[r]
    BY <1>5, <1>7
  <2>3. g.queue[q].length = h.queue[q].length + 1 /\ g.queue[q].head = n /\ g.queue[q].tail = IF l = 0 THEN n ELSE h.queue[q].tail
    BY <2>1
  <2> QED
    BY <1>1, <1>2, <2>2, <2>3
<1>13. g.queue \in [Queues -> [head : Nodes \cup {NULL}, tail : Nodes \cup {NULL}, length : Nat]]
  BY <1>2, <1>5, <1>7
<1>14. g.node[n].prev = NULL /\ g.node[n].next = hd /\ g.node[n].queue = q
  BY <1>5, <1>9
<1>15. \A m \in Nodes : m # n => /\ g.node[m].queue = h.node[m].queue /\ g.node[m].next = h.node[m].next
                                 /\ g.node[m].prev = IF l # 0 /\ m = hd THEN n ELSE h.node[m].prev
  BY <1>5, <1>9, <1>10
<1>16. PICK one, t : one = <<n>> /\ t = one \o s
  OBVIOUS
<1>17. t \in Seq(Nodes) /\ Len(t) = l + 1 /\ t[1] = n /\ \A i \in 1 .. l : t[i + 1] = s[i]
  <2>1. one \in Seq(Nodes) /\ Len(one) = 1 /\ one[1] = n /\ s \in Seq(Nodes)
    BY <1>2, <1>16
  <2>2. /\ one \o s \in Seq(Nodes) /\ Len(one \o s) = Len(one) + Len(s)
        /\ \A i \in 1 .. Len(one) + Len(s) : (one \o s)[i] = IF i <= Len(one) THEN one[i] ELSE s[i - Len(one)]
    BY <2>1, ConcatProperties, Zenon
  <2>3. /\ t \in Seq(Nodes) /\ Len(t) = Len(one) + Len(s)
        /\ \A i \in 1 .. Len(one) + Len(s) : t[i] = IF i <= Len(one) THEN one[i] ELSE s[i - Len(one)]
    BY <1>16, <2>2, Zenon
  <2>4. ASSUME NEW i \in 1 .. l PROVE t[i + 1] = s[i]
    <3>1. i + 1 \in 1 .. Len(one) + Len(s) /\ ~(i + 1 <= Len(one)) /\ i + 1 - Len(one) = i
      BY <1>1, <1>2, <2>1
    <3> QED
      BY <2>3, <3>1
  <2>5. t \in Seq(Nodes) /\ Len(t) = l + 1
    BY <1>1, <1>2, <2>1, <2>3
  <2>6. t[1] = n
    <3>1. 1 \in 1 .. Len(one) + Len(s) /\ 1 <= Len(one)
      BY <1>1, <1>2, <2>1
    <3> QED
      BY <2>1, <2>3, <3>1
  <2> QED
    BY <2>4, <2>5, <2>6
<1>18. \A j \in Int : Place(t, j) = IF j = 1 THEN n ELSE Place(s, j - 1)
  <2> SUFFICES ASSUME NEW j \in Int PROVE Place(t, j) = IF j = 1 THEN n ELSE Place(s, j - 1)
    OBVIOUS
  <2>1. CASE j = 1
    BY <1>2, <1>17, <2>1 DEF Place
  <2>2. CASE j \in 2 .. l + 1
    <3>1. j - 1 \in 1 .. l /\ (j - 1) + 1 = j /\ j \in 1 .. l + 1 /\ j # 1
      BY <1>2, <2>2
    <3>2. t[(j - 1) + 1] = s[j - 1]
      BY <1>17, <3>1
    <3> QED
      BY <1>1, <1>17, <3>1, <3>2 DEF Place
  <2>3. CASE j \notin 1 .. l + 1
    BY <1>1, <1>2, <1>17, <2>3 DEF Place
  <2> QED
    BY <1>2, <2>1, <2>2, <2>3
<1>19. ASSUME NEW i \in 1 .. l + 1
       PROVE  /\ g.node[t[i]].queue = q /\ g.node[t[i]].prev = Place(t, i - 1)
              /\ g.node[t[i]].next = Place(t, i + 1)
  <2>1. CASE i = 1
    <3>1. t[i] = n /\ Place(t, i - 1) = Place(s, -1) /\ Place(t, i + 1) = Place(s, 1)
      BY <1>2, <1>17, <1>18, <2>1
    <3>2. Place(s, -1) = NULL
      BY <1>1, <1>2 DEF Place
    <3> QED
      BY <1>2, <1>14, <3>1, <3>2
  <2>2. CASE i # 1
    <3> DEFINE k == i - 1
    <3>1. k \in 1 .. l /\ i = k + 1 /\ k + 1 \in Int
      BY <1>2, <2>2
    <3>2. t[i] = s[k] /\ s[k] \in Nodes /\ s[k] # n
      BY <1>1, <1>3, <1>17, <3>1
    <3>3. Place(t, i + 1) = Place(s, k + 1)
      BY <1>2, <1>18, <3>1
    <3>4. g.node[s[k]].prev = Place(t, i - 1)
      <4>1. CASE k = 1
        <5>1. Place(t, i - 1) = n
          BY <1>18, <3>1, <4>1
        <5> QED
          BY <1>2, <1>8, <1>15, <3>1, <3>2, <4>1, <5>1
      <4>2. CASE k # 1
        <5>1. s[k] # hd
          <6>1. 1 \in 1 .. l /\ hd = s[1]
            BY <1>2, <1>8, <3>1
          <6> QED
            BY <1>1, <3>1, <4>2, <6>1, ListInjective
        <5>2. Place(t, i - 1) = Place(s, k - 1)
          BY <1>2, <1>18, <3>1, <4>2
        <5> QED
          BY <1>3, <1>15, <3>1, <3>2, <5>1, <5>2
      <4> QED
        BY <4>1, <4>2
    <3> QED
      BY <1>3, <1>15, <3>1, <3>2, <3>3, <3>4
  <2> QED
    BY <2>1, <2>2
<1>20. IsList(g, q, t)
  <2>1. g.queue[q].head = Place(t, 1) /\ g.queue[q].tail = Place(t, l + 1)
    <3>1. Place(t, 1) = n /\ Place(t, l + 1) = IF l = 0 THEN n ELSE Place(s, l)
      BY <1>2, <1>18
    <3> QED
      BY <1>2, <1>12, <3>1
  <2> QED
    BY <1>12, <1>17, <1>19, <2>1 DEF IsList
<1>21. IsHeap(g)
  BY <1>11, <1>13 DEF IsHeap
<1> QED
  BY <1>1, <1>2, <1>12, <1>15, <1>16, <1>20, <1>21

LEMMA RemoveAtFacts ==
    ASSUME NEW E, NEW c \in Seq(E), NEW p \in 1 .. Len(c), NEW d, d = RemoveAt(c, p)
    PROVE  /\ d \in Seq(E) /\ Len(d) = Len(c) - 1
           /\ \A i \in 1 .. Len(d) : d[i] = IF i < p THEN c[i] ELSE c[i + 1]
<1>1. PICK a, b : a = SubSeq(c, 1, p - 1) /\ b = SubSeq(c, p + 1, Len(c))
  OBVIOUS
<1>2. Len(c) \in Nat /\ \A i \in 1 .. Len(c) : c[i] \in E
  OBVIOUS
<1>3. a \in Seq(E) /\ Len(a) = p - 1 /\ \A i \in 1 .. p - 1 : a[i] = c[i]
  <2>1. 1 \in Int /\ p - 1 \in Int /\ \A i \in 1 .. p - 1 : c[i] \in E
    BY <1>2
  <2>2. /\ SubSeq(c, 1, p - 1) \in Seq(E)
        /\ Len(SubSeq(c, 1, p - 1)) = IF 1 <= p - 1 THEN (p - 1) - 1 + 1 ELSE 0
        /\ \A i \in 1 .. (p - 1) - 1 + 1 : SubSeq(c, 1, p - 1)[i] = c[1 + i - 1]
    BY <2>1, SubSeqProperties
  <2> QED
    BY <1>1, <2>2
<1>4. b \in Seq(E) /\ Len(b) = Len(c) - p /\ \A i \in 1 .. Len(c) - p : b[i] = c[p + i]
  <2>1. p + 1 \in Int /\ Len(c) \in Int /\ \A i \in p + 1 .. Len(c) : c[i] \in E
    BY <1>2
  <2>2. /\ SubSeq(c, p + 1, Len(c)) \in Seq(E)
        /\ Len(SubSeq(c, p + 1, Len(c))) = IF p + 1 <= Len(c) THEN Len(c) - (p + 1) + 1 ELSE 0
        /\ \A i \in 1 .. Len(c) - (p + 1) + 1 : SubSeq(c, p + 1, Len(c))[i] = c[(p + 1) + i - 1]
    BY <2>1, SubSeqProperties
  <2> QED
    BY <1>1, <1>2, <2>2
<1>5. d = a \o b
  BY <1>1 DEF RemoveAt
<1>6. /\ d \in Seq(E) /\ Len(d) = Len(a) + Len(b)
      /\ \A i \in 1 .. Len(a) + Len(b) : d[i] = IF i <= Len(a) THEN a[i] ELSE b[i - Len(a)]
  <2>1. /\ a \o b \in Seq(E) /\ Len(a \o b) = Len(a) + Len(b)
        /\ \A i \in 1 .. Len(a) + Len(b) : (a \o b)[i] = IF i <= Len(a) THEN a[i] ELSE b[i - Len(a)]
    <3>1. a \in Seq(E) /\ b \in Seq(E)
      BY <1>3, <1>4
    <3> QED
      BY <3>1, ConcatProperties, Zenon
  <2> QED
    BY <1>5, <2>1, Zenon
<1>7. Len(d) = Len(c) - 1
  BY <1>2, <1>3, <1>4, <1>6
<1>8. ASSUME NEW i \in 1 .. Len(d)
      PROVE  d[i] = IF i < p THEN c[i] ELSE c[i + 1]
  <2>1. CASE i < p
    <3>1. i \in 1 .. Len(a) + Len(b) /\ i <= Len(a) /\ i \in 1 .. p - 1
      BY <1>3, <1>6, <2>1
    <3> QED
      BY <1>3, <1>6, <2>1, <3>1
  <2>2. CASE ~(i < p)
    <3>1. /\ i \in 1 .. Len(a) + Len(b) /\ ~(i <= Len(a))
          /\ i - Len(a) \in 1 .. Len(c) - p /\ p + (i - Len(a)) = i + 1
      BY <1>2, <1>3, <1>4, <1>6, <1>7, <2>2
    <3>2. d[i] = b[i - Len(a)] /\ b[i - Len(a)] = c[p + (i - Len(a))]
      BY <1>4, <1>6, <3>1
    <3> QED
      BY <2>2, <3>1, <3>2
  <2> QED
    BY <2>1, <2>2
<1> QED
  BY <1>6, <1>7, <1>8

\* queue_delete takes out the item in place p.
LEMMA DeleteFacts ==
    ASSUME NEW h, IsHeap(h), NEW q \in Queues, NEW s, IsList(h, q, s), NEW p \in 1 .. Len(s),
           NEW n, n = s[p], NEW t, t = RemoveAt(s, p), NEW g, g = QueueDelete(h, q, n)
    PROVE  /\ IsHeap(g) /\ IsList(g, q, t)
           /\ \A r \in Queues \ {q} : g.queue[r] = h.queue[r]
           /\ \A m \in Nodes : m # n => /\ g.node[m].queue = h.node[m].queue
                                        /\ m # Place(s, p + 1) => g.node[m].prev = h.node[m].prev
                                        /\ m # Place(s, p - 1) => g.node[m].next = h.node[m].next
<1>1. PICK l, tl, hd : l = Len(s) /\ tl = h.queue[q].tail /\ hd = h.queue[q].head
  OBVIOUS
<1>2. /\ s \in Seq(Nodes) /\ l \in Nat /\ p \in 1 .. l /\ NULL \notin Nodes /\ h.queue[q].length = l
      /\ tl = Place(s, l) /\ hd = Place(s, 1)
  BY <1>1, QueueAssumption DEF IsList
<1>3. \A i \in 1 .. l : /\ s[i] \in Nodes /\ h.node[s[i]].queue = q
                        /\ h.node[s[i]].prev = Place(s, i - 1) /\ h.node[s[i]].next = Place(s, i + 1)
  BY <1>1, <1>2 DEF IsList
<1>4. n \in Nodes /\ h.node[n].queue = q /\ h.node[n].prev = Place(s, p - 1) /\ h.node[n].next = Place(s, p + 1)
  BY <1>2, <1>3
<1>5. CanDelete(h, q, n)
  BY <1>2, <1>4 DEF CanDelete
<1>6. PICK u, x : u = h.node[n].prev /\ x = h.node[n].next
  OBVIOUS
<1>7. u = Place(s, p - 1) /\ x = Place(s, p + 1)
  BY <1>4, <1>6
<1>8. h.node \in [Nodes -> Links]
  BY DEF IsHeap
<1>9. h.queue \in [Queues -> [head : Nodes \cup {NULL}, tail : Nodes \cup {NULL}, length : Nat]]
  BY DEF IsHeap
<1>10. PICK joined : joined = [m \in Nodes |-> [prev  |-> IF m = x THEN u ELSE h.node[m].prev,
                                                next  |-> IF m = u THEN x ELSE h.node[m].next,
                                                queue |-> h.node[m].queue]]
  OBVIOUS
<1>11. /\ g.node = [joined EXCEPT ![n].prev = NULL, ![n].next = NULL]
       /\ g.queue = [h.queue EXCEPT ![q] = [head   |-> IF u = NULL THEN x ELSE @.head,
                                            tail   |-> IF x = NULL THEN u ELSE @.tail,
                                            length |-> @.length - 1]]
  BY <1>5, <1>6, <1>10, ZenonT(30) DEF QueueDelete
<1>12. u \in Nodes \cup {NULL} /\ x \in Nodes \cup {NULL}
  BY <1>4, <1>6, <1>8 DEF Links
<1>13. joined \in [Nodes -> Links]
  <2> SUFFICES ASSUME NEW m \in Nodes PROVE joined[m] \in Links
    BY <1>10
  <2>1. h.node[m] \in Links
    BY <1>8
  <2>2. PICK a, b, c : /\ a = (IF m = x THEN u ELSE h.node[m].prev)
                       /\ b = (IF m = u THEN x ELSE h.node[m].next) /\ c = h.node[m].queue
    OBVIOUS
  <2>3. a \in Nodes \cup {NULL} /\ b \in Nodes \cup {NULL} /\ c \in Queues \cup {NULL}
    BY <1>12, <2>1, <2>2 DEF Links
  <2>4. joined[m] = [prev |-> a, next |-> b, queue |-> c]
    BY <1>10, <2>2
  <2> QED
    BY <2>3, <2>4 DEF Links
<1>14. g.node \in [Nodes -> Links]
  BY <1>4, <1>11, <1>13 DEF Links
<1>15. \A m \in Nodes : m # n => /\ g.node[m].queue = h.node[m].queue
                                 /\ g.node[m].prev = IF m = x THEN u ELSE h.node[m].prev
                                 /\ g.node[m].next = IF m = u THEN x ELSE h.node[m].next
  <2> SUFFICES ASSUME NEW m \in Nodes, m # n
               PROVE  /\ g.node[m].queue = h.node[m].queue
                      /\ g.node[m].prev = IF m = x THEN u ELSE h.node[m].prev
                      /\ g.node[m].next = IF m = u THEN x ELSE h.node[m].next
    OBVIOUS
  <2>1. g.node[m] = joined[m]
    BY <1>11, <1>13
  <2>2. joined[m] = [prev  |-> IF m = x THEN u ELSE h.node[m].prev,
                     next  |-> IF m = u THEN x ELSE h.node[m].next,
                     queue |-> h.node[m].queue]
    BY <1>10
  <2> QED
    BY <2>1, <2>2
<1>16. \A r \in Queues \ {q} : g.queue[r] = h.queue[r]
  BY <1>11, <1>9
<1>17. g.queue[q] = [head   |-> IF u = NULL THEN x ELSE h.queue[q].head,
                     tail   |-> IF x = NULL THEN u ELSE h.queue[q].tail,
                     length |-> h.queue[q].length - 1]
  BY <1>11, <1>9
<1>18. g.queue[q].head = IF u = NULL THEN x ELSE hd
  BY <1>1, <1>17
<1>19. g.queue[q].tail = IF x = NULL THEN u ELSE tl
  BY <1>1, <1>17
<1>20. g.queue[q].length = l - 1
  BY <1>2, <1>17
<1>21. g.queue \in [Queues -> [head : Nodes \cup {NULL}, tail : Nodes \cup {NULL}, length : Nat]]
  <2>1. h.queue[q] \in [head : Nodes \cup {NULL}, tail : Nodes \cup {NULL}, length : Nat]
    BY <1>9
  <2>2. l - 1 \in Nat /\ g.queue[q].head \in Nodes \cup {NULL} /\ g.queue[q].tail \in Nodes \cup {NULL}
    <3>1. l - 1 \in Nat
      BY <1>2
    <3>2. hd \in Nodes \cup {NULL} /\ tl \in Nodes \cup {NULL}
      BY <1>1, <2>1
    <3>3. g.queue[q].head \in Nodes \cup {NULL}
      BY <1>12, <1>18, <3>2
    <3>4. g.queue[q].tail \in Nodes \cup {NULL}
      BY <1>12, <1>19, <3>2
    <3> QED
      BY <3>1, <3>3, <3>4
  <2>3. g.queue[q] \in [head : Nodes \cup {NULL}, tail : Nodes \cup {NULL}, length : Nat]
    <3>1. PICK a, b, c : a = g.queue[q].head /\ b = g.queue[q].tail /\ c = g.queue[q].length
      OBVIOUS
    <3>2. g.queue[q] = [head |-> a, tail |-> b, length |-> c]
      BY <1>17, <3>1
    <3> QED
      BY <1>20, <2>2, <3>1, <3>2
  <2> QED
    BY <1>9, <1>11, <2>3
<1>22. /\ t \in Seq(Nodes) /\ Len(t) = l - 1
       /\ \A i \in 1 .. Len(t) : t[i] = IF i < p THEN s[i] ELSE s[i + 1]
  BY <1>1, <1>2, RemoveAtFacts, SMTT(30)
<1>23. \A j \in Int : Place(t, j) = IF j < p THEN Place(s, j) ELSE Place(s, j + 1)
  <2> SUFFICES ASSUME NEW j \in Int PROVE Place(t, j) = IF j < p THEN Place(s, j) ELSE Place(s, j + 1)
    OBVIOUS
  <2>1. CASE j \in 1 .. l - 1
    <3>1. j \in 1 .. Len(t) /\ j \in 1 .. Len(s) /\ j + 1 \in 1 .. Len(s)
      BY <1>1, <1>2, <1>22, <2>1
    <3> QED
      BY <1>22, <3>1 DEF Place
  <2>2. CASE j < 1
    <3>1. j \notin 1 .. Len(t) /\ j \notin 1 .. Len(s) /\ j < p
      BY <1>1, <1>2, <1>22, <2>2
    <3> QED
      BY <3>1 DEF Place
  <2>3. CASE j > l - 1
    <3>1. j \notin 1 .. Len(t) /\ j + 1 \notin 1 .. Len(s) /\ ~(j < p)
      BY <1>1, <1>2, <1>22, <2>3
    <3> QED
      BY <3>1 DEF Place
  <2> QED
    BY <1>2, <2>1, <2>2, <2>3
<1>24. \A k, j \in 1 .. l : s[k] = s[j] => k = j
  BY <1>1, ListInjective
<1>25. \A k \in 1 .. l : (s[k] = x <=> k = p + 1) /\ (s[k] = u <=> k = p - 1)
  <2> SUFFICES ASSUME NEW k \in 1 .. l PROVE (s[k] = x <=> k = p + 1) /\ (s[k] = u <=> k = p - 1)
    OBVIOUS
  <2>1. p + 1 \in Int /\ p - 1 \in Int /\ k \in 1 .. Len(s)
    BY <1>1, <1>2
  <2>2. s[k] = x => k = p + 1
    BY <1>7, <2>1, PlaceFacts
  <2>3. s[k] = u => k = p - 1
    BY <1>7, <2>1, PlaceFacts
  <2>4. Place(s, k) = s[k]
    BY <2>1 DEF Place
  <2> QED
    BY <1>7, <2>2, <2>3, <2>4
<1>26. ASSUME NEW i \in 1 .. l - 1
       PROVE  /\ g.node[t[i]].queue = q /\ g.node[t[i]].prev = Place(t, i - 1)
              /\ g.node[t[i]].next = Place(t, i + 1)
  <2>1. PICK k : k = IF i < p THEN i ELSE i + 1
    OBVIOUS
  <2>2. k \in 1 .. l /\ k # p /\ t[i] = s[k] /\ i \in 1 .. Len(t)
    BY <1>2, <1>22, <2>1, SMTT(30)
  <2>3. s[k] \in Nodes /\ s[k] # n
    BY <1>2, <1>3, <1>24, <2>2
  <2>4. g.node[s[k]].prev = IF k = p + 1 THEN u ELSE Place(s, k - 1)
    BY <1>3, <1>15, <1>25, <2>2, <2>3
  <2>5. g.node[s[k]].next = IF k = p - 1 THEN x ELSE Place(s, k + 1)
    BY <1>3, <1>15, <1>25, <2>2, <2>3
  <2>6. Place(t, i - 1) = IF i - 1 < p THEN Place(s, i - 1) ELSE Place(s, i - 1 + 1)
    <3>1. i - 1 \in Int
      BY <1>2
    <3> QED
      BY <1>23, <3>1
  <2>7. Place(t, i + 1) = IF i + 1 < p THEN Place(s, i + 1) ELSE Place(s, i + 1 + 1)
    <3>1. i + 1 \in Int
      BY <1>2
    <3> QED
      BY <1>23, <3>1
  <2>8. CASE i < p
    <3>1. k = i /\ k # p + 1 /\ i - 1 < p /\ i \in Int /\ p \in Int
      BY <1>2, <2>1, <2>8
    <3>2. g.node[t[i]].prev = Place(t, i - 1)
      BY <2>2, <2>4, <2>6, <3>1
    <3>3. g.node[t[i]].next = Place(t, i + 1)
      <4>1. CASE i = p - 1
        <5>1. ~(i + 1 < p) /\ i + 1 + 1 = p + 1
          BY <3>1, <4>1
        <5> QED
          BY <1>7, <2>2, <2>5, <2>7, <3>1, <4>1, <5>1
      <4>2. CASE i # p - 1
        <5>1. i + 1 < p
          BY <2>8, <3>1, <4>2
        <5> QED
          BY <2>2, <2>5, <2>7, <3>1, <4>2, <5>1
      <4> QED
        BY <4>1, <4>2
    <3> QED
      BY <1>3, <1>15, <2>2, <2>3, <3>2, <3>3, SMTT(20)
  <2>9. CASE ~(i < p)
    <3>1. k = i + 1 /\ k # p - 1 /\ ~(i + 1 < p) /\ k + 1 = i + 1 + 1 /\ i \in Int /\ p \in Int
      BY <1>2, <2>1, <2>9
    <3>2. g.node[t[i]].next = Place(t, i + 1)
      BY <2>2, <2>5, <2>7, <3>1
    <3>3. g.node[t[i]].prev = Place(t, i - 1)
      <4>1. CASE i = p
        <5>1. k = p + 1 /\ i - 1 < p
          BY <3>1, <4>1
        <5> QED
          BY <1>7, <2>2, <2>4, <2>6, <4>1, <5>1
      <4>2. CASE i # p
        <5>1. k # p + 1 /\ ~(i - 1 < p) /\ i - 1 + 1 = k - 1
          BY <2>9, <3>1, <4>2
        <5> QED
          BY <2>2, <2>4, <2>6, <5>1
      <4> QED
        BY <4>1, <4>2
    <3> QED
      BY <1>3, <1>15, <2>2, <2>3, <3>2, <3>3, SMTT(20)
  <2> QED
    BY <2>8, <2>9
<1>27. g.queue[q].head = Place(t, 1)
  <2>1. Place(t, 1) = IF 1 < p THEN Place(s, 1) ELSE Place(s, 1 + 1)
    BY <1>23
  <2>2. CASE p = 1
    <3>1. u = NULL
      BY <1>1, <1>2, <1>7, <2>2 DEF Place
    <3> QED
      BY <1>7, <1>18, <2>1, <2>2, <3>1
  <2>3. CASE p # 1
    <3>1. p - 1 \in 1 .. Len(s) /\ 1 < p
      BY <1>1, <1>2, <2>3
    <3>2. u # NULL
      BY <1>1, <1>2, <1>3, <1>7, <3>1 DEF Place
    <3> QED
      BY <1>2, <1>18, <2>1, <3>1, <3>2
  <2> QED
    BY <2>2, <2>3
<1>28. g.queue[q].tail = Place(t, l - 1)
  <2>1. Place(t, l - 1) = IF l - 1 < p THEN Place(s, l - 1) ELSE Place(s, l - 1 + 1)
    <3>1. l - 1 \in Int
      BY <1>2
    <3> QED
      BY <1>23, <3>1
  <2>2. CASE p = l
    <3>1. x = NULL /\ l - 1 < p
      BY <1>1, <1>2, <1>7, <2>2 DEF Place
    <3> QED
      BY <1>7, <1>19, <2>1, <2>2, <3>1
  <2>3. CASE p # l
    <3>1. p + 1 \in 1 .. Len(s) /\ ~(l - 1 < p) /\ l - 1 + 1 = l
      BY <1>1, <1>2, <2>3
    <3>2. x # NULL
      BY <1>1, <1>2, <1>3, <1>7, <3>1 DEF Place
    <3> QED
      BY <1>2, <1>19, <2>1, <3>1, <3>2
  <2> QED
    BY <2>2, <2>3
<1>29. IsList(g, q, t)
  BY <1>20, <1>22, <1>26, <1>27, <1>28 DEF IsList
<1>30. IsHeap(g)
  BY <1>14, <1>21 DEF IsHeap
<1> QED
  BY <1>7, <1>15, <1>16, <1>29, <1>30
-----------------------------------------------------------------------------
(* The steps                                                               *)

\* g is h but for the item n, the prev of a and the next of b.
OnlyAt(h, g, n, a, b) ==
    \A m \in Nodes : m # n => /\ g.node[m].queue = h.node[m].queue
                              /\ m # a => g.node[m].prev = h.node[m].prev
                              /\ m # b => g.node[m].next = h.node[m].next

\* What links or unlinks n in q rewrites n and at most the items at its sides: no other list.
LEMMA OthersKept ==
    ASSUME NEW h, NEW g, NEW q, NEW r, q # r, NEW s, NEW u, IsList(h, q, s), IsList(h, r, u),
           NEW n, \A k \in 1 .. Len(u) : u[k] # n, g.queue[r] = h.queue[r], NEW i \in Int, NEW j \in Int,
           OnlyAt(h, g, n, Place(s, i), Place(s, j))
    PROVE  IsList(g, r, u)
<1>1. \A k \in 1 .. Len(u) : u[k] \in Nodes
  BY DEF IsList
<1>2. \A k \in 1 .. Len(u) : u[k] # Place(s, i) /\ u[k] # Place(s, j)
  BY ListsApart
<1>3. \A k \in 1 .. Len(u) : /\ g.node[u[k]].queue = h.node[u[k]].queue
                             /\ g.node[u[k]].prev = h.node[u[k]].prev
                             /\ g.node[u[k]].next = h.node[u[k]].next
  BY <1>1, <1>2 DEF OnlyAt
<1> QED
  BY <1>3, ListKept

\* Once the heap is g, the lists of g are what the walks meet.
LEMMA NewHeap ==
    ASSUME NEW g, Becomes(g), IsHeap(g), NEW c, \A r \in Queues : IsList(g, r, c[r])
    PROVE  IInv' /\ \A r \in Queues : Walk(heap, r)' = c[r]
<1>1. PICK b : b = [node |-> node', queue |-> queue']
  OBVIOUS
<1>2. b.node = g.node /\ b.queue = g.queue
  BY <1>1 DEF Becomes
<1>3. IsHeap(b) /\ \A r \in Queues : IsList(b, r, c[r])
  BY <1>2 DEF IsHeap, IsList
<1>4. heap' = b
  BY <1>1 DEF heap
<1>5. \A r \in Queues : Walk(b, r) = c[r]
  BY <1>3, WalkMeets
<1>6. \A r \in Queues : Walk(heap, r)' = c[r]
  BY <1>4, <1>5
<1>7. IsHeap(b) /\ \A r \in Queues : IsList(b, r, Walk(b, r))
  BY <1>3, <1>5
<1>8. IInv'
  BY <1>4, <1>7 DEF IInv
<1> QED
  BY <1>6, <1>8

\* An item that is linked nowhere is in no list.
LEMMA UnlinkedFacts ==
    ASSUME IInv, NEW n, ~Linked(n), NEW q \in Queues
    PROVE  \A k \in 1 .. Len(Walk(heap, q)) : Walk(heap, q)[k] # n
<1>1. PICK s : s = Walk(heap, q)
  OBVIOUS
<1>2. s \in Seq(Nodes)
  BY <1>1 DEF IInv, IsList
<1>3. n \notin ToSet(s)
  BY <1>1 DEF Linked
<1>4. ToSet(s) = {s[k] : k \in 1 .. Len(s)}
  BY <1>2 DEF ToSet
<1> QED
  BY <1>1, <1>3, <1>4

LEMMA AppendStep ==
    ASSUME IInv, NEW q \in Queues, NEW n \in Nodes, AppendItem(q, n)
    PROVE  IInv' /\ \A r \in Queues : Walk(heap, r)' = IF r = q THEN Append(Walk(heap, q), n) ELSE Walk(heap, r)
<1>1. PICK h, g : h = heap /\ g = QueueAppend(h, q, n)
  OBVIOUS
<1>2. Becomes(g) /\ ~Linked(n)
  BY <1>1 DEF AppendItem
<1>3. PICK w : w = [r \in Queues |-> Walk(h, r)]
  OBVIOUS
<1>4. IsHeap(h) /\ \A r \in Queues : w[r] = Walk(heap, r) /\ IsList(h, r, w[r])
  BY <1>1, <1>3 DEF IInv
<1>5. \A r \in Queues : \A k \in 1 .. Len(w[r]) : w[r][k] # n
  BY <1>2, <1>4, UnlinkedFacts
<1>6. PICK s : s = w[q]
  OBVIOUS
<1>7. IsList(h, q, s) /\ \A k \in 1 .. Len(s) : s[k] # n
  BY <1>4, <1>5, <1>6
<1>8. /\ IsHeap(g) /\ IsList(g, q, Append(s, n))
      /\ \A r \in Queues \ {q} : g.queue[r] = h.queue[r]
      /\ \A m \in Nodes : m # n => /\ g.node[m].queue = h.node[m].queue /\ g.node[m].prev = h.node[m].prev
                                   /\ m # Place(s, Len(s)) => g.node[m].next = h.node[m].next
  BY <1>1, <1>4, <1>7, AppendFacts
<1>9. ASSUME NEW r \in Queues \ {q} PROVE IsList(g, r, w[r])
  <2>1. Len(s) \in Int /\ IsList(h, r, w[r]) /\ g.queue[r] = h.queue[r] /\ q # r
    BY <1>4, <1>7, <1>8 DEF IsList
  <2>2. \A k \in 1 .. Len(w[r]) : w[r][k] # n
    BY <1>5
  <2>3. OnlyAt(h, g, n, Place(s, Len(s)), Place(s, Len(s)))
    BY <1>8 DEF OnlyAt
  <2> QED
    BY <1>7, <2>1, <2>2, <2>3, OthersKept
<1>10. PICK c : c = [r \in Queues |-> IF r = q THEN Append(s, n) ELSE w[r]]
  OBVIOUS
<1>11. \A r \in Queues : c[r] = IF r = q THEN Append(s, n) ELSE w[r]
  BY <1>10
<1>12. \A r \in Queues : IsList(g, r, c[r])
  BY <1>8, <1>9, <1>11
<1>13. IInv' /\ \A r \in Queues : Walk(heap, r)' = c[r]
  BY <1>2, <1>8, <1>12, NewHeap
<1> QED
  BY <1>4, <1>6, <1>11, <1>13

LEMMA PrependStep ==
    ASSUME IInv, NEW q \in Queues, NEW n \in Nodes, PrependItem(q, n)
    PROVE  IInv' /\ \A r \in Queues : Walk(heap, r)' = IF r = q THEN <<n>> \o Walk(heap, q) ELSE Walk(heap, r)
<1>1. PICK h, g : h = heap /\ g = QueuePrepend(h, q, n)
  OBVIOUS
<1>2. Becomes(g) /\ ~Linked(n)
  BY <1>1 DEF PrependItem
<1>3. PICK w : w = [r \in Queues |-> Walk(h, r)]
  OBVIOUS
<1>4. IsHeap(h) /\ \A r \in Queues : w[r] = Walk(heap, r) /\ IsList(h, r, w[r])
  BY <1>1, <1>3 DEF IInv
<1>5. \A r \in Queues : \A k \in 1 .. Len(w[r]) : w[r][k] # n
  BY <1>2, <1>4, UnlinkedFacts
<1>6. PICK s, t : s = w[q] /\ t = <<n>> \o s
  OBVIOUS
<1>7. IsList(h, q, s) /\ \A k \in 1 .. Len(s) : s[k] # n
  BY <1>4, <1>5, <1>6
<1>8. /\ IsHeap(g) /\ IsList(g, q, <<n>> \o s)
      /\ \A r \in Queues \ {q} : g.queue[r] = h.queue[r]
      /\ \A m \in Nodes : m # n => /\ g.node[m].queue = h.node[m].queue /\ g.node[m].next = h.node[m].next
                                   /\ m # Place(s, 1) => g.node[m].prev = h.node[m].prev
  BY <1>1, <1>4, <1>7, PrependFacts
<1>9. ASSUME NEW r \in Queues \ {q} PROVE IsList(g, r, w[r])
  <2>1. IsList(h, r, w[r]) /\ g.queue[r] = h.queue[r] /\ q # r
    BY <1>4, <1>7, <1>8
  <2>2. \A k \in 1 .. Len(w[r]) : w[r][k] # n
    BY <1>5
  <2>3. OnlyAt(h, g, n, Place(s, 1), Place(s, 1))
    BY <1>8 DEF OnlyAt
  <2> QED
    BY <1>7, <2>1, <2>2, <2>3, OthersKept
<1>10. PICK c : c = [r \in Queues |-> IF r = q THEN t ELSE w[r]]
  OBVIOUS
<1>11. \A r \in Queues : c[r] = IF r = q THEN t ELSE w[r]
  BY <1>10
<1>12. \A r \in Queues : IsList(g, r, c[r])
  BY <1>6, <1>8, <1>9, <1>11
<1>13. IInv' /\ \A r \in Queues : Walk(heap, r)' = c[r]
  BY <1>2, <1>8, <1>12, NewHeap
<1> QED
  BY <1>4, <1>6, <1>11, <1>13

\* The item in place p of q is taken out.
LEMMA TakeStep ==
    ASSUME IInv, NEW q \in Queues, NEW p \in 1 .. Len(Walk(heap, q)),
           Becomes(QueueDelete(heap, q, Walk(heap, q)[p]))
    PROVE  IInv' /\ \A r \in Queues : Walk(heap, r)' = IF r = q THEN RemoveAt(Walk(heap, q), p) ELSE Walk(heap, r)
<1>1. PICK h, s : h = heap /\ s = Walk(heap, q)
  OBVIOUS
<1>2. PICK n, t : n = s[p] /\ t = RemoveAt(s, p)
  OBVIOUS
<1>3. PICK g : g = QueueDelete(h, q, n)
  OBVIOUS
<1>4. Becomes(g) /\ p \in 1 .. Len(s) /\ p \in Int
  BY <1>1, <1>2, <1>3 DEF IInv, IsList
<1>5. PICK w : w = [r \in Queues |-> Walk(h, r)]
  OBVIOUS
<1>6. IsHeap(h) /\ \A r \in Queues : w[r] = Walk(heap, r) /\ IsList(h, r, w[r])
  BY <1>1, <1>5 DEF IInv
<1>7. IsList(h, q, s)
  BY <1>1, <1>6
<1>8. /\ IsHeap(g) /\ IsList(g, q, t)
      /\ \A r \in Queues \ {q} : g.queue[r] = h.queue[r]
      /\ \A m \in Nodes : m # n => /\ g.node[m].queue = h.node[m].queue
                                   /\ m # Place(s, p + 1) => g.node[m].prev = h.node[m].prev
                                   /\ m # Place(s, p - 1) => g.node[m].next = h.node[m].next
  BY <1>2, <1>3, <1>4, <1>6, <1>7, DeleteFacts
<1>9. ASSUME NEW r \in Queues \ {q} PROVE IsList(g, r, w[r])
  <2>1. IsList(h, r, w[r]) /\ g.queue[r] = h.queue[r] /\ q # r /\ p + 1 \in Int /\ p - 1 \in Int
    BY <1>4, <1>6, <1>8
  <2>2. \A k \in 1 .. Len(w[r]) : w[r][k] # Place(s, p)
    BY <1>4, <1>7, <2>1, ListsApart
  <2>3. \A k \in 1 .. Len(w[r]) : w[r][k] # n
    BY <1>2, <1>4, <2>2 DEF Place
  <2>4. OnlyAt(h, g, n, Place(s, p + 1), Place(s, p - 1))
    BY <1>8 DEF OnlyAt
  <2> QED
    BY <1>7, <2>1, <2>3, <2>4, OthersKept
<1>10. PICK c : c = [r \in Queues |-> IF r = q THEN t ELSE w[r]]
  OBVIOUS
<1>11. \A r \in Queues : c[r] = IF r = q THEN t ELSE w[r]
  BY <1>10
<1>12. \A r \in Queues : IsList(g, r, c[r])
  BY <1>8, <1>9, <1>11
<1>13. IInv' /\ \A r \in Queues : Walk(heap, r)' = c[r]
  BY <1>4, <1>8, <1>12, NewHeap
<1> QED
  BY <1>1, <1>2, <1>6, <1>11, <1>13

LEMMA TailFacts ==
    ASSUME NEW E, NEW c \in Seq(E), c # << >>
    PROVE  RemoveAt(c, 1) = Tail(c) /\ 1 \in 1 .. Len(c)
<1>1. Len(c) \in Nat /\ 1 \in 1 .. Len(c)
  BY EmptySeq
<1>2. PICK d : d = RemoveAt(c, 1)
  OBVIOUS
<1>3. d \in Seq(E) /\ Len(d) = Len(c) - 1 /\ \A i \in 1 .. Len(d) : d[i] = IF i < 1 THEN c[i] ELSE c[i + 1]
  BY <1>1, <1>2, RemoveAtFacts
<1>4. Tail(c) \in Seq(E) /\ Len(Tail(c)) = Len(c) - 1 /\ \A i \in 1 .. Len(Tail(c)) : Tail(c)[i] = c[i + 1]
  BY <1>1
<1>5. \A i \in 1 .. Len(d) : d[i] = Tail(c)[i]
  BY <1>1, <1>3, <1>4
<1>6. d = Tail(c)
  BY <1>3, <1>4, <1>5, SeqEqual
<1> QED
  BY <1>1, <1>2, <1>6

\* queue_dequeue of an empty queue changes nothing: queue_delete finds the length 0.
LEMMA DequeueStep ==
    ASSUME IInv, NEW q \in Queues, DequeueItem(q)
    PROVE  \/ /\ Walk(heap, q) # << >> /\ IInv'
              /\ \A r \in Queues : Walk(heap, r)' = IF r = q THEN Tail(Walk(heap, q)) ELSE Walk(heap, r)
           \/ Walk(heap, q) = << >> /\ UNCHANGED vars
<1>1. PICK h, s : h = heap /\ s = Walk(heap, q)
  OBVIOUS
<1>2. IsList(h, q, s) /\ s \in Seq(Nodes)
  BY <1>1 DEF IInv, IsList
<1>3. QueueHead(h, q) = Place(s, 1) /\ h.queue[q].length = Len(s)
  BY <1>2 DEF IsList, QueueHead
<1>4. Becomes(QueueDelete(h, q, Place(s, 1)))
  BY <1>1, <1>3 DEF DequeueItem, QueueDequeue
<1>5. CASE s = << >>
  <2>1. QueueDelete(h, q, Place(s, 1)) = h
    BY <1>3, <1>5 DEF QueueDelete, CanDelete
  <2>2. node' = node /\ queue' = queue
    BY <1>1, <1>4, <2>1 DEF Becomes, heap
  <2> QED
    BY <1>1, <1>5, <2>2 DEF vars
<1>6. CASE s # << >>
  <2>1. RemoveAt(s, 1) = Tail(s) /\ 1 \in 1 .. Len(s)
    BY <1>2, <1>6, TailFacts
  <2>2. Place(s, 1) = s[1]
    BY <2>1 DEF Place
  <2>3. Becomes(QueueDelete(heap, q, Walk(heap, q)[1])) /\ 1 \in 1 .. Len(Walk(heap, q))
    BY <1>1, <1>4, <2>1, <2>2
  <2>4. IInv' /\ \A r \in Queues : Walk(heap, r)' = IF r = q THEN RemoveAt(Walk(heap, q), 1) ELSE Walk(heap, r)
    BY <2>3, TakeStep
  <2> QED
    BY <1>1, <1>6, <2>1, <2>4
<1> QED
  BY <1>5, <1>6

\* queue_delete of an item of another queue changes nothing: its back pointer says so.
LEMMA DeleteStep ==
    ASSUME IInv, NEW q \in Queues, NEW n \in Nodes, DeleteItem(q, n)
    PROVE  \/ /\ IInv'
              /\ \E p \in 1 .. Len(Walk(heap, q)) :
                    /\ Walk(heap, q)[p] = n
                    /\ \A r \in Queues : Walk(heap, r)' = IF r = q THEN RemoveAt(Walk(heap, q), p) ELSE Walk(heap, r)
           \/ n \notin ToSet(Walk(heap, q)) /\ UNCHANGED vars
<1>1. PICK h, s : h = heap /\ s = Walk(heap, q)
  OBVIOUS
<1>2. IsList(h, q, s) /\ s \in Seq(Nodes) /\ ToSet(s) = {s[k] : k \in 1 .. Len(s)}
  BY <1>1, SMTT(30) DEF IInv, IsList, ToSet
<1>3. Becomes(QueueDelete(h, q, n)) /\ Linked(n)
  BY <1>1 DEF DeleteItem
<1>4. CASE n \in ToSet(s)
  <2>1. PICK p \in 1 .. Len(s) : s[p] = n
    BY <1>2, <1>4
  <2>2. Becomes(QueueDelete(heap, q, Walk(heap, q)[p])) /\ p \in 1 .. Len(Walk(heap, q))
    BY <1>1, <1>3, <2>1
  <2>3. IInv' /\ \A r \in Queues : Walk(heap, r)' = IF r = q THEN RemoveAt(Walk(heap, q), p) ELSE Walk(heap, r)
    BY <2>2, TakeStep
  <2> QED
    BY <1>1, <2>1, <2>2, <2>3
<1>5. CASE n \notin ToSet(s)
  <2>1. PICK r \in Queues : n \in ToSet(Walk(heap, r))
    BY <1>3 DEF Linked
  <2>2. PICK u : u = Walk(heap, r)
    OBVIOUS
  <2>3. IsList(h, r, u) /\ u \in Seq(Nodes) /\ ToSet(u) = {u[k] : k \in 1 .. Len(u)}
    BY <1>1, <2>2 DEF IInv, IsList, ToSet
  <2>4. PICK k \in 1 .. Len(u) : u[k] = n
    BY <2>1, <2>2, <2>3
  <2>5. h.node[n].queue = r /\ r # q
    BY <1>1, <1>5, <2>1, <2>3, <2>4 DEF IsList
  <2>6. QueueDelete(h, q, n) = h
    BY <2>5 DEF QueueDelete, CanDelete
  <2>7. node' = node /\ queue' = queue
    BY <1>1, <1>3, <2>6 DEF Becomes, heap
  <2> QED
    BY <1>1, <1>5, <2>7 DEF vars
<1> QED
  BY <1>4, <1>5
-----------------------------------------------------------------------------
(* The theorems                                                            *)

LEMMA IInvInit == Init => IInv /\ \A q \in Queues : Walk(heap, q) = << >>
<1> SUFFICES ASSUME Init PROVE IInv /\ \A q \in Queues : Walk(heap, q) = << >>
  OBVIOUS
<1>1. PICK h : h = heap
  OBVIOUS
<1>2. h.node = node /\ h.queue = queue
  BY <1>1 DEF heap
<1>3. IsHeap(h)
  BY <1>2 DEF Init, IsHeap, Links, EmptyHeader
<1>4. ASSUME NEW q \in Queues PROVE IsList(h, q, << >>)
  <2>1. h.queue[q] = EmptyHeader
    BY <1>2 DEF Init
  <2>2. h.queue[q].length = 0 /\ h.queue[q].head = NULL /\ h.queue[q].tail = NULL
    BY <2>1 DEF EmptyHeader
  <2>3. Len(<< >>) = 0 /\ << >> \in Seq(Nodes)
    OBVIOUS
  <2> QED
    BY <2>2, <2>3 DEF IsList, Place
<1>5. \A q \in Queues : Walk(h, q) = << >>
  BY <1>4, WalkMeets
<1> QED
  BY <1>1, <1>3, <1>4, <1>5 DEF IInv

LEMMA IInvNext == IInv /\ [Next]_vars => IInv'
<1> SUFFICES ASSUME IInv, [Next]_vars PROVE IInv'
  OBVIOUS
<1>1. UNCHANGED vars => IInv'
  <2> SUFFICES ASSUME UNCHANGED vars PROVE IInv'
    OBVIOUS
  <2>1. heap' = heap
    BY DEF vars, heap
  <2> QED
    BY <2>1 DEF IInv
<1>2. ASSUME NEW q \in Queues, DequeueItem(q) PROVE IInv'
  BY <1>1, <1>2, DequeueStep
<1>3. ASSUME NEW q \in Queues, NEW n \in Nodes, AppendItem(q, n) PROVE IInv'
  BY <1>3, AppendStep
<1>4. ASSUME NEW q \in Queues, NEW n \in Nodes, PrependItem(q, n) PROVE IInv'
  BY <1>4, PrependStep
<1>5. ASSUME NEW q \in Queues, NEW n \in Nodes, DeleteItem(q, n) PROVE IInv'
  BY <1>1, <1>5, DeleteStep
<1> QED
  BY <1>1, <1>2, <1>3, <1>4, <1>5 DEF Next

LEMMA Invariance == Spec => []IInv
BY IInvInit, IInvNext, PTL DEF Spec

\* Every header and every item keeps the fields it is declared with: a queue never
\* counts more items than there are (queue_append, queue_delete).
THEOREM TypeCorrect == Spec => []TypeOK
<1>1. IInv => TypeOK
  <2> SUFFICES ASSUME IInv PROVE TypeOK
    OBVIOUS
  <2>1. node \in [Nodes -> Links]
    BY DEF IInv, IsHeap, heap
  <2>2. queue \in [Queues -> [head : Nodes \cup {NULL}, tail : Nodes \cup {NULL}, length : Nat]]
    BY DEF IInv, IsHeap, heap
  <2>3. ASSUME NEW q \in Queues PROVE queue[q] \in Headers
    <3>1. IsList(heap, q, Walk(heap, q))
      BY DEF IInv
    <3>2. queue[q].length = Len(Walk(heap, q))
      BY <3>1 DEF IsList, heap
    <3>3. queue[q].length \in 0 .. Cardinality(Nodes)
      BY <3>1, <3>2, ListLength
    <3>4. queue[q] \in [head : Nodes \cup {NULL}, tail : Nodes \cup {NULL}, length : Nat]
      BY <2>2
    <3> QED
      BY <3>3, <3>4 DEF Headers
  <2> QED
    BY <2>1, <2>2, <2>3 DEF TypeOK
<1> QED
  BY <1>1, Invariance, PTL

\* What WellLinked says of one queue and the list s.
LinkedAs(q, s) ==
    /\ queue[q].length = Len(s)
    /\ queue[q].head = (IF s = << >> THEN NULL ELSE s[1])
    /\ queue[q].tail = (IF s = << >> THEN NULL ELSE s[Len(s)])
    /\ \A i \in DOMAIN s :
          /\ node[s[i]].queue = q
          /\ node[s[i]].prev = (IF i = 1 THEN NULL ELSE s[i - 1])
          /\ node[s[i]].next = (IF i = Len(s) THEN NULL ELSE s[i + 1])

\* Both directions of every list agree with its header whatever is appended, prepended,
\* dequeued and deleted, as long as an item is linked only while it is in no queue.
THEOREM ListsLinked == Spec => []WellLinked
<1>1. IInv => WellLinked
  <2> SUFFICES ASSUME IInv, NEW q \in Queues PROVE LinkedAs(q, Walk(heap, q))
    BY DEF WellLinked, LinkedAs
  <2>0. PICK s : s = Walk(heap, q)
    OBVIOUS
  <2>1. s \in Seq(Nodes) /\ Len(s) \in Nat /\ DOMAIN s = 1 .. Len(s)
    BY <2>0 DEF IInv, IsList
  <2>2. /\ queue[q].length = Len(s) /\ queue[q].head = Place(s, 1) /\ queue[q].tail = Place(s, Len(s))
        /\ \A i \in 1 .. Len(s) : /\ node[s[i]].queue = q
                                  /\ node[s[i]].prev = Place(s, i - 1)
                                  /\ node[s[i]].next = Place(s, i + 1)
    BY <2>0 DEF IInv, IsList, heap
  <2>3. s = << >> <=> Len(s) = 0
    BY <2>1, EmptySeq
  <2>4. \A i \in 1 .. Len(s) : /\ Place(s, i - 1) = (IF i = 1 THEN NULL ELSE s[i - 1])
                               /\ Place(s, i + 1) = (IF i = Len(s) THEN NULL ELSE s[i + 1])
    <3> SUFFICES ASSUME NEW i \in 1 .. Len(s)
                 PROVE  /\ Place(s, i - 1) = (IF i = 1 THEN NULL ELSE s[i - 1])
                        /\ Place(s, i + 1) = (IF i = Len(s) THEN NULL ELSE s[i + 1])
      OBVIOUS
    <3>1. PICK l : l = Len(s)
      OBVIOUS
    <3>2. l \in Nat /\ i \in 1 .. l
      BY <2>1, <3>1
    <3>3. i - 1 \in 1 .. l <=> i # 1
      BY <3>2
    <3>4. i + 1 \in 1 .. l <=> i # l
      BY <3>2
    <3> QED
      BY <3>1, <3>3, <3>4 DEF Place
  <2>5. Place(s, 1) = (IF s = << >> THEN NULL ELSE s[1]) /\ Place(s, Len(s)) = (IF s = << >> THEN NULL ELSE s[Len(s)])
    BY <2>1, <2>3 DEF Place
  <2> QED
    <3>1. \A i \in DOMAIN s : /\ node[s[i]].queue = q
                               /\ node[s[i]].prev = (IF i = 1 THEN NULL ELSE s[i - 1])
                               /\ node[s[i]].next = (IF i = Len(s) THEN NULL ELSE s[i + 1])
      BY <2>1, <2>2, <2>4
    <3>2. LinkedAs(q, s)
      BY <2>2, <2>5, <3>1 DEF LinkedAs
    <3> QED
      BY <2>0, <3>2
<1> QED
  BY <1>1, Invariance, PTL

\* An operation on the links has the effect on the contents that queue.h promises.
LEMMA StepImplements == IInv /\ [Next]_vars => [StepsImplement]_vars
<1> SUFFICES ASSUME IInv PROVE StepsImplement
  OBVIOUS
<1>1. PICK w : w = [q \in Queues |-> Walk(heap, q)]
  OBVIOUS
<1>2. \A q \in Queues : w[q] = Walk(heap, q)
  BY <1>1
<1>3. ASSUME NEW q \in Queues, DequeueItem(q)
      PROVE  Abstract!TakeHead(q) \/ (Walk(heap, q) = << >> /\ UNCHANGED vars)
  <2>1. CASE /\ Walk(heap, q) # << >>
             /\ \A r \in Queues : Walk(heap, r)' = IF r = q THEN Tail(Walk(heap, q)) ELSE Walk(heap, r)
    <3>1. [r \in Queues |-> Walk(heap, r)'] = [w EXCEPT ![q] = Tail(@)]
      BY <1>1, <1>2, <2>1
    <3> QED
      BY <1>1, <1>2, <2>1, <3>1 DEF Abstract!TakeHead
  <2> QED
    BY <1>3, <2>1, DequeueStep
<1>4. ASSUME NEW n \in Nodes, ~Linked(n) PROVE n \in Abstract!Free
  <2>1. \A q \in Queues : n \notin ToSet(w[q])
    BY <1>2, <1>4 DEF Linked
  <2> QED
    BY <1>1, <2>1 DEF Abstract!Free, Abstract!ToSet, ToSet
<1>5. ASSUME NEW q \in Queues, NEW n \in Nodes, AppendItem(q, n) PROVE Abstract!Append2Tail(q, n)
  <2>1. \A r \in Queues : Walk(heap, r)' = IF r = q THEN Append(Walk(heap, q), n) ELSE Walk(heap, r)
    BY <1>5, AppendStep
  <2>2. [r \in Queues |-> Walk(heap, r)'] = [w EXCEPT ![q] = Append(@, n)]
    BY <1>1, <1>2, <2>1
  <2>3. n \in Abstract!Free
    BY <1>4, <1>5 DEF AppendItem
  <2> QED
    BY <1>1, <2>2, <2>3 DEF Abstract!Append2Tail
<1>6. ASSUME NEW q \in Queues, NEW n \in Nodes, PrependItem(q, n) PROVE Abstract!Put2Head(q, n)
  <2>1. \A r \in Queues : Walk(heap, r)' = IF r = q THEN <<n>> \o Walk(heap, q) ELSE Walk(heap, r)
    BY <1>6, PrependStep
  <2>2. [r \in Queues |-> Walk(heap, r)'] = [w EXCEPT ![q] = <<n>> \o @]
    BY <1>1, <1>2, <2>1
  <2>3. n \in Abstract!Free
    BY <1>4, <1>6 DEF PrependItem
  <2> QED
    BY <1>1, <2>2, <2>3 DEF Abstract!Put2Head
<1>7. ASSUME NEW q \in Queues, NEW n \in Nodes, DeleteItem(q, n)
      PROVE  Abstract!TakeOut(q, n) \/ (n \notin ToSet(Walk(heap, q)) /\ UNCHANGED vars)
  <2>1. ASSUME NEW p \in 1 .. Len(Walk(heap, q)), Walk(heap, q)[p] = n,
               \A r \in Queues : Walk(heap, r)' = IF r = q THEN RemoveAt(Walk(heap, q), p) ELSE Walk(heap, r)
        PROVE  Abstract!TakeOut(q, n)
    <3>1. [r \in Queues |-> Walk(heap, r)'] = [w EXCEPT ![q] = RemoveAt(@, p)]
      BY <1>1, <1>2, <2>1
    <3>2. p \in DOMAIN w[q] /\ w[q][p] = n
      BY <1>2, <2>1 DEF IInv, IsList
    <3>3. \A c, i : Abstract!RemoveAt(c, i) = RemoveAt(c, i)
      BY DEF Abstract!RemoveAt, RemoveAt
    <3>4. \E i \in DOMAIN w[q] : /\ w[q][i] = n
                                  /\ [r \in Queues |-> Walk(heap, r)'] = [w EXCEPT ![q] = Abstract!RemoveAt(@, i)]
      BY <3>1, <3>2, <3>3
    <3> QED
      BY <1>1, <3>4, Zenon DEF Abstract!TakeOut
  <2> QED
    BY <1>7, <2>1, DeleteStep
<1> QED
  BY <1>3, <1>5, <1>6, <1>7 DEF StepsImplement

\* Every operation on the linked lists is the operation of the abstract queues with the
\* same name, or a refusal that changes nothing.
THEOREM Implements == Spec => OperationsImplement
<1>1. Init => Abstract!Init
  BY IInvInit, Zenon DEF Abstract!Init
<1> QED
  BY <1>1, Invariance, StepImplements, PTL DEF Spec, OperationsImplement
=============================================================================
