------------------------------ MODULE RetryProofs ------------------------------
(***************************************************************************)
(* Proofs about Alarm and Retry, for any sleepers, delays and number of    *)
(* tries.                                                                  *)
(***************************************************************************)
EXTENDS Retry, SequenceTheorems, FiniteSetTheorems, WellFoundedInduction, TLAPS

Entry == [id : 0 .. MaxAlarm, left : Int, arg : Sleeper \cup {Sender}]
Statuses == {ALARM_SUCCESS, ALARM_CANCELED, ALARM_WAKEUP}

(***************************************************************************)
(* The socket has transmitted before, or its alarm was set when it was     *)
(* created: the field does not hold what malloc returned.                  *)
(***************************************************************************)
Settled == FreshAlarm \subseteq Statuses

(***************************************************************************)
(* QueueInv: the queue is sorted, nothing in it is overdue, the nearest    *)
(* time is not later than its head, and an alarm has an id of its own.     *)
(***************************************************************************)
Sorted(q) == \A i, j \in DOMAIN q : i < j => q[i].left <= q[j].left
Ahead(q) == \A i \in DOMAIN q : q[i].left > 0
Distinct(q) == \A i, j \in DOMAIN q : q[i].id = q[j].id => i = j

\* An alarm with that id and for that thread is in q.
Has(q, id, arg) == \E i \in DOMAIN q : q[i].id = id /\ q[i].arg = arg

QueueInv ==
    /\ alarmQueue \in Seq(Entry) /\ nextId \in Nat
    /\ alarmTime \in Int /\ (alarmTime = NoAlarm \/ alarmTime > 0)
    /\ Sorted(alarmQueue) /\ Ahead(alarmQueue) /\ Distinct(alarmQueue)
    /\ \A i \in DOMAIN alarmQueue : /\ alarmQueue[i].id < nextId
                                    /\ alarmTime # NoAlarm /\ alarmTime <= alarmQueue[i].left

(***************************************************************************)
(* ThreadInv: the types of the rest; a transmission has alarms left, and   *)
(* has had no more ACKs than it sent messages.                             *)
(***************************************************************************)
Left == IF spc \in {"send", "register"} THEN MAX_TRY - try ELSE MAX_TRY - try - 1
ThreadInv ==
    /\ running \in {Sender, Control, "idle"} \cup Sleeper
    /\ asleep \subseteq Sleeper
    /\ spc \in {"out", "send", "register", "store", "wait", "blocked", "check", "success"}
    /\ try \in 0 .. MAX_TRY - 1
    /\ spc \notin {"out", "success"} => nextId + Left <= MaxAlarm
    /\ nextId <= MaxAlarm
    /\ retry \in Int /\ retry >= -1 /\ (spc = "blocked" <=> retry = -1)
    /\ cpc \in {"out", "test", "deregister", "set", "signal"}
    /\ acks \in Nat /\ acks <= (IF spc = "send" THEN try ELSE try + 1)
    /\ acked \in BOOLEAN
    /\ result \in Nat /\ result <= nextId

(***************************************************************************)
(* OwnerInv: an id that the socket's threads keep is not that of an alarm  *)
(* of a sleeper, now or later.                                             *)
(***************************************************************************)
Kept == {alarm} \cup (IF cpc = "deregister" THEN {tested} ELSE {})
                \cup (IF spc = "store" THEN {result} ELSE {})
OwnerInv ==
    /\ alarm \in Statuses \cup Nat /\ tested \in Nat
    /\ \A id \in Kept : id < nextId
    /\ \A z \in Sleeper, id \in Kept : ~Has(alarmQueue, id, z)

(***************************************************************************)
(* SleepInv: a thread is asleep just when it has an alarm, and it has one. *)
(***************************************************************************)
SleepInv ==
    /\ \A z \in Sleeper : z \in asleep <=> \E id \in 0 .. MaxAlarm : Has(alarmQueue, id, z)
    /\ \A z \in Sleeper, id, jd \in 0 .. MaxAlarm :
          Has(alarmQueue, id, z) /\ Has(alarmQueue, jd, z) => id = jd

(***************************************************************************)
(* AckInv: the control thread has seen an ACK of the present message; so   *)
(* has it when the sender, which stored an id, finds SUCCESS.              *)
(***************************************************************************)
AckInv ==
    /\ cpc # "out" => acked
    /\ spc \in {"wait", "blocked", "check"} /\ alarm = ALARM_SUCCESS => acked
    /\ spc = "success" => acked

CoreInv == QueueInv /\ ThreadInv /\ AckInv
IInv == CoreInv /\ OwnerInv /\ SleepInv
-----------------------------------------------------------------------------
(* Numbers and sequences                                                   *)

\* A set of numbers that is not empty has a least one.
Less == {p \in Nat \X Nat : p[1] < p[2]}

LEMMA LessWellFounded == IsWellFoundedOn(Less, Nat)
<1>1. IsWellFoundedOn(OpToRel(<, Nat), Nat)
  BY NatLessThanWellFounded
<1> QED
  BY <1>1, Zenon DEF OpToRel, Less

LEMMA Least ==
    ASSUME NEW S \in SUBSET Nat, S # {}
    PROVE  \E m \in S : \A n \in S : m <= n
<1>1. PICK m \in S : \A n \in S : ~(<<n, m>> \in Less)
  BY LessWellFounded, WFMin
<1>2. ASSUME NEW n \in S PROVE m <= n
  <2>1. m \in Nat /\ n \in Nat
    OBVIOUS
  <2>2. n < m => <<n, m>> \in Less
    BY <2>1 DEF Less
  <2> QED
    BY <1>1, <2>1, <2>2
<1> QED
  BY <1>2

LEMMA FirstFacts ==
    ASSUME NEW S \in SUBSET Nat, S # {}, NEW m, m = Min(S)
    PROVE  m \in S /\ \A j \in S : m <= j
BY Least DEF Min

LEMMA RemoveAtFacts ==
    ASSUME NEW E, NEW c \in Seq(E), NEW p \in 1 .. Len(c), NEW d, d = RemoveAt(c, p)
    PROVE  /\ d \in Seq(E) /\ Len(d) = Len(c) - 1
           /\ \A i \in 1 .. Len(d) : d[i] = IF i < p THEN c[i] ELSE c[i + 1]
<1>1. PICK a, b : a = SubSeq(c, 1, p - 1) /\ b = SubSeq(c, p + 1, Len(c))
  OBVIOUS
<1>2. Len(c) \in Nat /\ \A i \in 1 .. Len(c) : c[i] \in E
  OBVIOUS
<1>3. a \in Seq(E) /\ Len(a) = p - 1 /\ \A i \in 1 .. p - 1 : a[i] = c[i]
  <2>1. 1 \in Int /\ p - 1 \in Int /\ \A i \in 1 .. p - 1 : c[i] \in E
    BY <1>2
  <2>2. /\ SubSeq(c, 1, p - 1) \in Seq(E)
        /\ Len(SubSeq(c, 1, p - 1)) = IF 1 <= p - 1 THEN (p - 1) - 1 + 1 ELSE 0
        /\ \A i \in 1 .. (p - 1) - 1 + 1 : SubSeq(c, 1, p - 1)[i] = c[1 + i - 1]
    BY <2>1, SubSeqProperties
  <2> QED
    BY <1>1, <2>2
<1>4. b \in Seq(E) /\ Len(b) = Len(c) - p /\ \A i \in 1 .. Len(c) - p : b[i] = c[p + i]
  <2>1. p + 1 \in Int /\ Len(c) \in Int /\ \A i \in p + 1 .. Len(c) : c[i] \in E
    BY <1>2
  <2>2. /\ SubSeq(c, p + 1, Len(c)) \in Seq(E)
        /\ Len(SubSeq(c, p + 1, Len(c))) = IF p + 1 <= Len(c) THEN Len(c) - (p + 1) + 1 ELSE 0
        /\ \A i \in 1 .. Len(c) - (p + 1) + 1 : SubSeq(c, p + 1, Len(c))[i] = c[(p + 1) + i - 1]
    BY <2>1, SubSeqProperties
  <2> QED
    BY <1>1, <1>2, <2>2
<1>5. d = a \o b
  BY <1>1 DEF RemoveAt
<1>6. /\ d \in Seq(E) /\ Len(d) = Len(a) + Len(b)
      /\ \A i \in 1 .. Len(a) + Len(b) : d[i] = IF i <= Len(a) THEN a[i] ELSE b[i - Len(a)]
  <2>1. /\ a \o b \in Seq(E) /\ Len(a \o b) = Len(a) + Len(b)
        /\ \A i \in 1 .. Len(a) + Len(b) : (a \o b)[i] = IF i <= Len(a) THEN a[i] ELSE b[i - Len(a)]
    <3>1. a \in Seq(E) /\ b \in Seq(E)
      BY <1>3, <1>4
    <3> QED
      BY <3>1, ConcatProperties, Zenon
  <2> QED
    BY <1>5, <2>1, Zenon
<1>7. Len(d) = Len(c) - 1
  BY <1>2, <1>3, <1>4, <1>6
<1>8. ASSUME NEW i \in 1 .. Len(d)
      PROVE  d[i] = IF i < p THEN c[i] ELSE c[i + 1]
  <2>1. CASE i < p
    <3>1. i \in 1 .. Len(a) + Len(b) /\ i <= Len(a) /\ i \in 1 .. p - 1
      BY <1>3, <1>6, <2>1
    <3> QED
      BY <1>3, <1>6, <2>1, <3>1
  <2>2. CASE ~(i < p)
    <3>1. /\ i \in 1 .. Len(a) + Len(b) /\ ~(i <= Len(a))
          /\ i - Len(a) \in 1 .. Len(c) - p /\ p + (i - Len(a)) = i + 1
      BY <1>2, <1>3, <1>4, <1>6, <1>7, <2>2
    <3>2. d[i] = b[i - Len(a)] /\ b[i - Len(a)] = c[p + (i - Len(a))]
      BY <1>4, <1>6, <3>1
    <3> QED
      BY <2>2, <3>1, <3>2
  <2> QED
    BY <2>1, <2>2
<1> QED
  BY <1>6, <1>7, <1>8

LEMMA InsertAtFacts ==
    ASSUME NEW E, NEW c \in Seq(E), NEW p \in 1 .. Len(c) + 1, NEW e \in E, NEW d, d = InsertAt(c, p, e)
    PROVE  /\ d \in Seq(E) /\ Len(d) = Len(c) + 1 /\ d[p] = e
           /\ \A i \in 1 .. p - 1 : d[i] = c[i]
           /\ \A i \in p .. Len(c) : d[i + 1] = c[i]
<1>1. PICK a, b : a = SubSeq(c, 1, p - 1) /\ b = SubSeq(c, p, Len(c))
  OBVIOUS
<1>2. Len(c) \in Nat /\ \A i \in 1 .. Len(c) : c[i] \in E
  OBVIOUS
<1>3. a \in Seq(E) /\ Len(a) = p - 1 /\ \A i \in 1 .. p - 1 : a[i] = c[i]
  <2>1. 1 \in Int /\ p - 1 \in Int /\ \A i \in 1 .. p - 1 : c[i] \in E
    BY <1>2
  <2>2. /\ SubSeq(c, 1, p - 1) \in Seq(E)
        /\ Len(SubSeq(c, 1, p - 1)) = IF 1 <= p - 1 THEN (p - 1) - 1 + 1 ELSE 0
        /\ \A i \in 1 .. (p - 1) - 1 + 1 : SubSeq(c, 1, p - 1)[i] = c[1 + i - 1]
    BY <2>1, SubSeqProperties
  <2> QED
    BY <1>1, <2>2
<1>4. b \in Seq(E) /\ Len(b) = Len(c) - p + 1 /\ \A i \in 1 .. Len(c) - p + 1 : b[i] = c[p + i - 1]
  <2>1. p \in Int /\ Len(c) \in Int /\ \A i \in p .. Len(c) : c[i] \in E
    BY <1>2
  <2>2. /\ SubSeq(c, p, Len(c)) \in Seq(E)
        /\ Len(SubSeq(c, p, Len(c))) = IF p <= Len(c) THEN Len(c) - p + 1 ELSE 0
        /\ \A i \in 1 .. Len(c) - p + 1 : SubSeq(c, p, Len(c))[i] = c[p + i - 1]
    BY <2>1, SubSeqProperties
  <2> QED
    BY <1>1, <1>2, <2>2
<1>5. PICK one : one = <<e>>
  OBVIOUS
<1>6. one \in Seq(E) /\ Len(one) = 1 /\ one[1] = e
  BY <1>5
<1>7. PICK h : h = a \o one
  OBVIOUS
<1>8. h \in Seq(E) /\ Len(h) = p /\ \A i \in 1 .. p : h[i] = IF i < p THEN c[i] ELSE e
  <2>1. /\ a \o one \in Seq(E) /\ Len(a \o one) = Len(a) + Len(one)
        /\ \A i \in 1 .. Len(a) + Len(one) : (a \o one)[i] = IF i <= Len(a) THEN a[i] ELSE one[i - Len(a)]
    <3>1. a \in Seq(E) /\ one \in Seq(E)
      BY <1>3, <1>6
    <3> QED
      BY <3>1, ConcatProperties, Zenon
  <2>2. /\ h \in Seq(E) /\ Len(h) = Len(a) + Len(one)
        /\ \A i \in 1 .. Len(a) + Len(one) : h[i] = IF i <= Len(a) THEN a[i] ELSE one[i - Len(a)]
    BY <1>7, <2>1, Zenon
  <2> QED
    BY <1>2, <1>3, <1>6, <2>2
<1>9. d = h \o b
  BY <1>1, <1>5, <1>7 DEF InsertAt
<1>10. /\ d \in Seq(E) /\ Len(d) = Len(h) + Len(b)
       /\ \A i \in 1 .. Len(h) + Len(b) : d[i] = IF i <= Len(h) THEN h[i] ELSE b[i - Len(h)]
  <2>1. /\ h \o b \in Seq(E) /\ Len(h \o b) = Len(h) + Len(b)
        /\ \A i \in 1 .. Len(h) + Len(b) : (h \o b)[i] = IF i <= Len(h) THEN h[i] ELSE b[i - Len(h)]
    <3>1. h \in Seq(E) /\ b \in Seq(E)
      BY <1>4, <1>8
    <3> QED
      BY <3>1, ConcatProperties, Zenon
  <2> QED
    BY <1>9, <2>1, Zenon
<1>11. Len(c) \in Nat /\ p \in Int /\ Len(h) = p /\ Len(b) = Len(c) - p + 1 /\ Len(d) = Len(c) + 1
  BY <1>2, <1>4, <1>8, <1>10
<1>12. ASSUME NEW i \in 1 .. Len(d) PROVE d[i] = IF i < p THEN c[i] ELSE IF i = p THEN e ELSE c[i - 1]
  <2>1. i \in Int /\ 1 <= i /\ i <= Len(c) + 1
    BY <1>11
  <2>2. d[i] = IF i <= Len(h) THEN h[i] ELSE b[i - Len(h)]
    BY <1>10, <1>11, <2>1
  <2>3. CASE i <= p
    <3>1. i \in 1 .. p /\ d[i] = h[i]
      BY <1>11, <2>1, <2>2, <2>3
    <3>2. h[i] = IF i < p THEN c[i] ELSE e
      BY <1>8, <3>1
    <3> QED
      BY <1>11, <2>1, <2>3, <3>1, <3>2
  <2>4. CASE i > p
    <3>1. i - p \in 1 .. Len(c) - p + 1 /\ d[i] = b[i - p]
      BY <1>11, <2>1, <2>2, <2>4
    <3>2. b[i - p] = c[p + (i - p) - 1]
      BY <1>4, <3>1
    <3>3. p + (i - p) - 1 = i - 1
      BY <1>11, <2>1
    <3> QED
      BY <1>11, <2>1, <2>4, <3>1, <3>2, <3>3
  <2> QED
    BY <1>11, <2>1, <2>3, <2>4
<1>13. ASSUME NEW i \in 1 .. p - 1 PROVE d[i] = c[i]
  BY <1>11, <1>12
<1>14. ASSUME NEW i \in p .. Len(c) PROVE d[i + 1] = c[i]
  <2>1. i + 1 \in 1 .. Len(d) /\ ~(i + 1 < p) /\ i + 1 # p /\ (i + 1) - 1 = i
    BY <1>11
  <2> QED
    BY <1>12, <2>1
<1> QED
  BY <1>10, <1>11, <1>12, <1>13, <1>14

\* minisocket_initialize: the table is defined, and no delay is 0.
LEMMA DelayFacts == \A i \in 0 .. MAX_TRY - 1 : retry_delay[i] \in Nat
<1> DEFINE Table(n) == {f \in [0 .. n -> Nat] : \A i \in 0 .. n : f[i] = IF i = 0 THEN 2 ELSE 2 * f[i - 1]}
<1>1. \A n \in Nat : Table(n) # {}
  <2> DEFINE S == {n \in Nat : Table(n) = {}}
  <2>1. SUFFICES ASSUME S # {} PROVE FALSE
    OBVIOUS
  <2>2. PICK n \in S : \A k \in S : n <= k
    <3>1. S \in SUBSET Nat
      OBVIOUS
    <3> QED
      BY <2>1, <3>1, Least
  <2>3. n \in Nat /\ Table(n) = {}
    BY <2>1, <2>2
  <2>4. CASE n = 0
    <3>1. [i \in 0 .. 0 |-> 2] \in Table(0)
      OBVIOUS
    <3> QED
      BY <2>3, <2>4, <3>1
  <2>5. CASE n # 0
    <3>1. n - 1 \in Nat /\ ~(n <= n - 1)
      BY <2>3, <2>5
    <3>2. PICK f : f \in Table(n - 1)
      BY <2>2, <3>1
    <3>3. PICK g : g = [i \in 0 .. n |-> IF i = n THEN 2 * f[n - 1] ELSE f[i]]
      OBVIOUS
    <3>4. g \in [0 .. n -> Nat]
      BY <2>3, <2>5, <3>1, <3>2, <3>3
    <3>5. \A i \in 0 .. n : g[i] = IF i = 0 THEN 2 ELSE 2 * g[i - 1]
      BY <2>3, <2>5, <3>1, <3>2, <3>3
    <3> QED
      BY <2>3, <3>4, <3>5
  <2> QED
    BY <2>4, <2>5
<1>2. MAX_TRY - 1 \in Nat
  BY RetryAssumption
<1>3. PICK f : f \in Table(MAX_TRY - 1)
  BY <1>1, <1>2
<1>4. f = [i \in 0 .. MAX_TRY - 1 |-> IF i = 0 THEN 2 ELSE 2 * f[i - 1]]
  BY <1>3
<1>5. PICK r : r = retry_delay
  OBVIOUS
<1>6. r = [i \in 0 .. MAX_TRY - 1 |-> IF i = 0 THEN 2 ELSE 2 * r[i - 1]]
  BY <1>4, <1>5, Zenon DEF retry_delay
<1>7. \A i \in 0 .. MAX_TRY - 1 : r[i] \in Nat
  <2>1. SUFFICES ASSUME NEW S, S = {i \in 0 .. MAX_TRY - 1 : r[i] \notin Nat}, S # {} PROVE FALSE
    OBVIOUS
  <2>2. S \in SUBSET Nat
    BY <2>1, <1>2
  <2>3. PICK i \in S : \A k \in S : i <= k
    BY <2>1, <2>2, Least
  <2>4. i \in 0 .. MAX_TRY - 1 /\ r[i] \notin Nat
    BY <2>1, <2>3
  <2>5. r[i] = IF i = 0 THEN 2 ELSE 2 * r[i - 1]
    BY <1>6, <2>4
  <2>6. i # 0 => r[i - 1] \in Nat
    BY <1>2, <2>1, <2>3, <2>4
  <2> QED
    BY <2>4, <2>5, <2>6
<1> QED
  BY <1>5, <1>7
-----------------------------------------------------------------------------
(* The alarms                                                              *)

\* d is q with a in place p, between what is earlier and what is not.
PutAt(d, q, a, p) ==
    /\ d \in Seq(Entry) /\ Len(d) = Len(q) + 1 /\ d[p] = a
    /\ \A i \in 1 .. p - 1 : d[i] = q[i]
    /\ \A i \in p .. Len(q) : d[i + 1] = q[i]
    /\ \A i \in 1 .. p - 1 : q[i].left < a.left
    /\ \A i \in p .. Len(q) : a.left <= q[i].left

\* The place that alarm_queue_insert finds.
LEMMA InsertedFacts ==
    ASSUME NEW q \in Seq(Entry), Sorted(q), NEW a \in Entry, NEW d, d = Inserted(q, a)
    PROVE  \E p \in 1 .. Len(q) + 1 : PutAt(d, q, a, p)
<1>1. Len(q) \in Nat /\ DOMAIN q = 1 .. Len(q) /\ \A i \in 1 .. Len(q) : q[i] \in Entry
  OBVIOUS
<1>2. a.left \in Int /\ \A i \in 1 .. Len(q) : q[i].left \in Int
  BY <1>1 DEF Entry
<1>3. PICK later : later = {i \in DOMAIN q : q[i].left >= a.left}
  OBVIOUS
<1>4. PICK p : p = IF later = {} THEN Len(q) + 1 ELSE Min(later)
  OBVIOUS
<1>5. d = InsertAt(q, p, a)
  BY <1>3, <1>4 DEF Inserted
<1>6. p \in 1 .. Len(q) + 1 /\ \A i \in 1 .. Len(q) : IF i < p THEN q[i].left < a.left ELSE a.left <= q[i].left
  <2>1. CASE later = {}
    <3>1. p = Len(q) + 1
      BY <1>4, <2>1
    <3>2. \A i \in 1 .. Len(q) : i < p /\ q[i].left < a.left
      BY <1>1, <1>2, <1>3, <2>1, <3>1
    <3> QED
      BY <1>1, <3>1, <3>2
  <2>2. CASE later # {}
    <3>1. later \in SUBSET Nat
      BY <1>1, <1>3
    <3>2. p = Min(later)
      BY <1>4, <2>2
    <3>3. p \in later /\ \A j \in later : p <= j
      BY <2>2, <3>1, <3>2, FirstFacts
    <3>4. p \in 1 .. Len(q) /\ q[p].left >= a.left
      BY <1>1, <1>3, <3>3
    <3>5. ASSUME NEW i \in 1 .. Len(q), i < p PROVE q[i].left < a.left
      <4>1. i \notin later
        BY <1>1, <3>3, <3>4, <3>5
      <4> QED
        BY <1>1, <1>2, <1>3, <4>1
    <3>6. ASSUME NEW i \in 1 .. Len(q), ~(i < p) PROVE a.left <= q[i].left
      <4>1. i = p \/ p < i
        BY <3>4, <3>6
      <4>2. q[p].left <= q[i].left
        BY <1>1, <1>2, <3>4, <4>1 DEF Sorted
      <4> QED
        BY <1>2, <3>4, <4>2
    <3> QED
      BY <1>1, <3>4, <3>5, <3>6
  <2> QED
    BY <2>1, <2>2
<1>7. /\ d \in Seq(Entry) /\ Len(d) = Len(q) + 1 /\ d[p] = a
      /\ \A i \in 1 .. p - 1 : d[i] = q[i]
      /\ \A i \in p .. Len(q) : d[i + 1] = q[i]
  <2>1. p \in 1 .. Len(q) + 1 /\ q \in Seq(Entry) /\ a \in Entry
    BY <1>6
  <2>2. d \in Seq(Entry) /\ Len(d) = Len(q) + 1 /\ d[p] = a
    BY <1>5, <2>1, InsertAtFacts
  <2>3. \A i \in 1 .. p - 1 : d[i] = q[i]
    BY <1>5, <2>1, InsertAtFacts
  <2>4. \A i \in p .. Len(q) : d[i + 1] = q[i]
    BY <1>5, <2>1, InsertAtFacts
  <2> QED
    BY <2>2, <2>3, <2>4
<1>8. \A i \in 1 .. p - 1 : q[i].left < a.left
  BY <1>1, <1>6
<1>9. \A i \in p .. Len(q) : a.left <= q[i].left
  BY <1>1, <1>6
<1> QED
  BY <1>6, <1>7, <1>8, <1>9 DEF PutAt

(***************************************************************************)
(* register_alarm: the queue stays in order, and the new alarm has an id   *)
(* that no other one has.                                                  *)
(***************************************************************************)
LEMMA RegisterFacts ==
    ASSUME QueueInv, nextId <= MaxAlarm, NEW delay \in Nat, NEW arg \in Sleeper \cup {Sender}, Register(delay, arg)
    PROVE  /\ QueueInv' /\ nextId' = nextId + 1
           /\ \A id, b : Has(alarmQueue', id, b) <=> Has(alarmQueue, id, b) \/ (id = nextId /\ b = arg)
<1>1. PICK q, n, at, left : q = alarmQueue /\ n = nextId /\ at = alarmTime /\ left = TicksToFire(delay)
  OBVIOUS
<1>2. left \in Nat /\ left > 0
  BY <1>1 DEF TicksToFire
<1>3. PICK a : a = [id |-> n, left |-> left, arg |-> arg]
  OBVIOUS
<1>4. q \in Seq(Entry) /\ n \in Nat /\ n <= MaxAlarm /\ at \in Int /\ (at = NoAlarm \/ at > 0)
  BY <1>1 DEF QueueInv
<1>5. Sorted(q) /\ Ahead(q) /\ Distinct(q)
  BY <1>1 DEF QueueInv
<1>6. DOMAIN q = 1 .. Len(q) /\ Len(q) \in Nat /\ \A i \in 1 .. Len(q) : q[i] \in Entry
  BY <1>4
<1>7. \A i \in 1 .. Len(q) : q[i].id < n /\ at # NoAlarm /\ at <= q[i].left
  BY <1>1, <1>6 DEF QueueInv
<1>8. MaxAlarm \in Nat
  BY RetryAssumption
<1>9. \A i \in 1 .. Len(q) : q[i].left \in Int /\ q[i].id \in Int
  BY <1>6, <1>8 DEF Entry
<1>10. a \in Entry /\ a.id = n /\ a.left = left /\ a.arg = arg
  BY <1>2, <1>3, <1>4, <1>8 DEF Entry
<1>11. PICK d : d = Inserted(q, a)
  OBVIOUS
<1>12. alarmQueue' = d /\ nextId' = n + 1 /\ alarmTime' = IF left < at \/ at = NoAlarm THEN left ELSE at
  BY <1>1, <1>3, <1>11 DEF Register, Sooner
<1>13. PICK p \in 1 .. Len(q) + 1 : PutAt(d, q, a, p)
  BY <1>4, <1>5, <1>10, <1>11, InsertedFacts
<1>14. DOMAIN d = 1 .. Len(q) + 1
  BY <1>13 DEF PutAt
<1>15. d[p] = a
  BY <1>13 DEF PutAt
<1>16. \A i \in 1 .. Len(q) + 1 : i < p => i \in 1 .. Len(q) /\ d[i] = q[i]
  BY <1>6, <1>13 DEF PutAt
<1>17. ASSUME NEW i \in 1 .. Len(q) + 1, i > p PROVE i - 1 \in 1 .. Len(q) /\ i - 1 >= p /\ d[i] = q[i - 1]
  <2>1. i - 1 \in p .. Len(q) /\ (i - 1) + 1 = i
    BY <1>6, <1>17
  <2>2. d[(i - 1) + 1] = q[i - 1]
    BY <1>13, <2>1 DEF PutAt
  <2> QED
    BY <1>6, <2>1, <2>2
<1>18. \A i \in 1 .. Len(q) : IF i < p THEN q[i].left < left ELSE left <= q[i].left
  BY <1>10, <1>13 DEF PutAt
<1>19. Sorted(d)
  <2> SUFFICES ASSUME NEW i \in 1 .. Len(q) + 1, NEW j \in 1 .. Len(q) + 1, i < j PROVE d[i].left <= d[j].left
    BY <1>14 DEF Sorted
  <2>1. i \in Int /\ j \in Int /\ p \in Int
    BY <1>6
  <2>2. \A k, l \in 1 .. Len(q) : k < l => q[k].left <= q[l].left
    BY <1>5, <1>6 DEF Sorted
  <2>3. CASE j < p
    BY <1>16, <2>1, <2>2, <2>3
  <2>4. CASE j = p
    BY <1>2, <1>9, <1>10, <1>15, <1>16, <1>18, <2>1, <2>4
  <2>5. CASE p < j /\ i < p
    <3>1. d[i] = q[i] /\ d[j] = q[j - 1] /\ i \in 1 .. Len(q) /\ j - 1 \in 1 .. Len(q)
      BY <1>16, <1>17, <2>1, <2>5
    <3>2. q[i].left < left /\ left <= q[j - 1].left
      BY <1>17, <1>18, <2>1, <2>5, <3>1
    <3> QED
      BY <1>2, <1>9, <3>1, <3>2
  <2>6. CASE i = p
    BY <1>2, <1>9, <1>10, <1>15, <1>17, <1>18, <2>1, <2>6
  <2>7. CASE p < i
    <3>1. d[i] = q[i - 1] /\ d[j] = q[j - 1] /\ i - 1 \in 1 .. Len(q) /\ j - 1 \in 1 .. Len(q)
      BY <1>17, <2>1, <2>7
    <3> QED
      BY <2>1, <2>2, <3>1
  <2> QED
    BY <2>1, <2>3, <2>4, <2>5, <2>6, <2>7
<1>20. Ahead(d)
  <2> SUFFICES ASSUME NEW i \in 1 .. Len(q) + 1 PROVE d[i].left > 0
    BY <1>14 DEF Ahead
  <2>1. \A k \in 1 .. Len(q) : q[k].left > 0
    BY <1>5, <1>6 DEF Ahead
  <2> QED
    BY <1>2, <1>6, <1>10, <1>15, <1>16, <1>17, <2>1
<1>21. Distinct(d)
  <2> SUFFICES ASSUME NEW i \in 1 .. Len(q) + 1, NEW j \in 1 .. Len(q) + 1, i < j PROVE d[i].id # d[j].id
    <3>1. \A i, j \in 1 .. Len(q) + 1 : i = j \/ i < j \/ j < i
      BY <1>6
    <3> QED
      BY <1>14, <3>1 DEF Distinct
  <2>1. i \in Int /\ j \in Int /\ p \in Int
    BY <1>6
  <2>2. \A k, l \in 1 .. Len(q) : q[k].id = q[l].id => k = l
    BY <1>5, <1>6 DEF Distinct
  <2>3. CASE j < p
    BY <1>16, <2>1, <2>2, <2>3
  <2>4. CASE j = p
    BY <1>4, <1>7, <1>9, <1>10, <1>15, <1>16, <2>1, <2>4
  <2>5. CASE p < j /\ i < p
    <3>1. d[i] = q[i] /\ d[j] = q[j - 1] /\ i \in 1 .. Len(q) /\ j - 1 \in 1 .. Len(q) /\ i # j - 1
      BY <1>16, <1>17, <2>1, <2>5
    <3> QED
      BY <2>2, <3>1
  <2>6. CASE i = p
    BY <1>4, <1>7, <1>9, <1>10, <1>15, <1>17, <2>1, <2>6
  <2>7. CASE p < i
    <3>1. d[i] = q[i - 1] /\ d[j] = q[j - 1] /\ i - 1 \in 1 .. Len(q) /\ j - 1 \in 1 .. Len(q) /\ i - 1 # j - 1
      BY <1>17, <2>1, <2>7
    <3> QED
      BY <2>2, <3>1
  <2> QED
    BY <2>1, <2>3, <2>4, <2>5, <2>6, <2>7
<1>22. PICK u : u = IF left < at \/ at = NoAlarm THEN left ELSE at
  OBVIOUS
<1>23. u \in Int /\ u > 0 /\ u # NoAlarm /\ u <= left /\ (at # NoAlarm => u <= at)
  BY <1>2, <1>4, <1>22 DEF NoAlarm
<1>24. \A i \in 1 .. Len(q) + 1 : d[i].id < n + 1 /\ u <= d[i].left
  <2> SUFFICES ASSUME NEW i \in 1 .. Len(q) + 1 PROVE d[i].id < n + 1 /\ u <= d[i].left
    OBVIOUS
  <2>1. CASE i = p
    BY <1>4, <1>10, <1>15, <1>23, <2>1
  <2>2. ASSUME NEW k \in 1 .. Len(q), d[i] = q[k] PROVE d[i].id < n + 1 /\ u <= d[i].left
    BY <1>4, <1>7, <1>9, <1>23, <2>2
  <2> QED
    BY <1>6, <1>16, <1>17, <2>1, <2>2
<1>25. QueueInv'
  <2>1. alarmQueue' = d /\ nextId' = n + 1 /\ alarmTime' = u
    BY <1>12, <1>22
  <2>2. \A i \in DOMAIN d : d[i].id < n + 1 /\ u # NoAlarm /\ u <= d[i].left
    BY <1>14, <1>23, <1>24
  <2>3. d \in Seq(Entry) /\ n + 1 \in Nat /\ u \in Int /\ u > 0
    BY <1>4, <1>13, <1>23 DEF PutAt
  <2> QED
    BY <1>19, <1>20, <1>21, <2>1, <2>2, <2>3, Zenon DEF QueueInv, Sorted, Ahead, Distinct
<1>26. ASSUME NEW id, NEW b PROVE Has(d, id, b) <=> Has(q, id, b) \/ (id = n /\ b = arg)
  <2>1. p \in 1 .. Len(q) + 1 /\ d[p].id = n /\ d[p].arg = arg
    BY <1>10, <1>15
  <2>2. ASSUME NEW i \in 1 .. Len(q) + 1, i # p PROVE \E k \in 1 .. Len(q) : d[i] = q[k]
    BY <1>6, <1>16, <1>17, <2>2
  <2>3. ASSUME NEW k \in 1 .. Len(q) PROVE \E i \in 1 .. Len(q) + 1 : d[i] = q[k]
    <3>1. CASE k < p
      <4>1. k \in 1 .. p - 1 /\ k \in 1 .. Len(q) + 1
        BY <1>6, <3>1
      <4> QED
        BY <1>13, <4>1 DEF PutAt
    <3>2. CASE k >= p
      <4>1. k \in p .. Len(q) /\ k + 1 \in 1 .. Len(q) + 1
        BY <1>6, <3>2
      <4> QED
        BY <1>13, <4>1 DEF PutAt
    <3> QED
      BY <1>6, <3>1, <3>2
  <2> QED
    <3>1. Has(d, id, b) <=> \E i \in 1 .. Len(q) + 1 : d[i].id = id /\ d[i].arg = b
      BY <1>14 DEF Has
    <3>2. Has(q, id, b) <=> \E k \in 1 .. Len(q) : q[k].id = id /\ q[k].arg = b
      BY <1>6 DEF Has
    <3>3. ASSUME NEW i \in 1 .. Len(q) + 1, d[i].id = id, d[i].arg = b PROVE Has(q, id, b) \/ (id = n /\ b = arg)
      BY <2>1, <2>2, <3>2, <3>3
    <3>4. ASSUME NEW k \in 1 .. Len(q), q[k].id = id, q[k].arg = b PROVE Has(d, id, b)
      BY <2>3, <3>1, <3>4
    <3>5. id = n /\ b = arg => Has(d, id, b)
      BY <2>1, <3>1
    <3> QED
      BY <3>1, <3>2, <3>3, <3>4, <3>5, Zenon
<1> QED
  BY <1>1, <1>12, <1>25, <1>26

\* deregister_alarm: an alarm with another id stays.
LEMMA DeregisterFacts ==
    ASSUME QueueInv, NEW x, Deregister(x)
    PROVE  /\ QueueInv' /\ nextId' = nextId
           /\ \A id, b : Has(alarmQueue', id, b) => Has(alarmQueue, id, b)
           /\ \A id, b : id # x /\ Has(alarmQueue, id, b) => Has(alarmQueue', id, b)
<1>1. PICK q, n, at : q = alarmQueue /\ n = nextId /\ at = alarmTime
  OBVIOUS
<1>2. q \in Seq(Entry) /\ Sorted(q) /\ Ahead(q) /\ Distinct(q)
  BY <1>1 DEF QueueInv
<1>3. n \in Nat /\ at \in Int /\ (at = NoAlarm \/ at > 0)
  BY <1>1 DEF QueueInv
<1>4. DOMAIN q = 1 .. Len(q) /\ Len(q) \in Nat
  BY <1>2
<1>5. \A i \in 1 .. Len(q) : q[i].id < n /\ at # NoAlarm /\ at <= q[i].left
  BY <1>1, <1>4 DEF QueueInv
<1>6. PICK S : S = {i \in DOMAIN q : q[i].id = x}
  OBVIOUS
<1>7. PICK p : p = Min(S)
  OBVIOUS
<1>8. PICK d : d = IF S = {} THEN q ELSE RemoveAt(q, p)
  OBVIOUS
<1>9. alarmQueue' = d /\ alarmTime' = at /\ nextId' = n
  BY <1>1, <1>6, <1>7, <1>8 DEF Deregister
<1>10. CASE S = {}
  <2>1. alarmQueue' = alarmQueue /\ alarmTime' = alarmTime /\ nextId' = nextId
    BY <1>1, <1>8, <1>9, <1>10
  <2> QED
    BY <2>1, Zenon DEF QueueInv, Sorted, Ahead, Distinct, Has
<1>11. CASE S # {}
  <2>1. S \in SUBSET Nat
    BY <1>4, <1>6
  <2>2. p \in S
    BY <1>7, <1>11, <2>1, FirstFacts
  <2>3. p \in 1 .. Len(q) /\ q[p].id = x
    BY <1>4, <1>6, <2>2
  <2>4. d = RemoveAt(q, p)
    BY <1>8, <1>11
  <2>5. /\ d \in Seq(Entry) /\ Len(d) = Len(q) - 1
        /\ \A i \in 1 .. Len(d) : d[i] = IF i < p THEN q[i] ELSE q[i + 1]
    BY <1>2, <2>3, <2>4, RemoveAtFacts, SMTT(20)
  <2>6. DOMAIN d = 1 .. Len(q) - 1
    BY <2>5
  <2>7. PICK up : up = [i \in 1 .. Len(q) - 1 |-> IF i < p THEN i ELSE i + 1]
    OBVIOUS
  <2>8. \A i \in 1 .. Len(q) - 1 : up[i] \in 1 .. Len(q) /\ d[i] = q[up[i]]
    BY <1>4, <2>3, <2>5, <2>7
  <2>9. \A i, j \in 1 .. Len(q) - 1 : i < j => up[i] < up[j]
    BY <1>4, <2>3, <2>7
  <2>10. Sorted(d)
    BY <1>2, <1>4, <2>6, <2>8, <2>9 DEF Sorted
  <2>11. Ahead(d)
    BY <1>2, <1>4, <2>6, <2>8 DEF Ahead
  <2>12. Distinct(d)
    <3> SUFFICES ASSUME NEW i \in 1 .. Len(q) - 1, NEW j \in 1 .. Len(q) - 1, d[i].id = d[j].id PROVE i = j
      BY <2>6 DEF Distinct
    <3>1. up[i] = up[j]
      BY <1>2, <1>4, <2>8 DEF Distinct
    <3>2. i < j \/ j < i \/ i = j
      BY <1>4
    <3> QED
      BY <1>4, <2>8, <2>9, <3>1, <3>2
  <2>13. \A i \in 1 .. Len(q) - 1 : d[i].id < n /\ at # NoAlarm /\ at <= d[i].left
    BY <1>5, <2>8
  <2>14. QueueInv'
    BY <1>3, <1>9, <2>5, <2>6, <2>10, <2>11, <2>12, <2>13, Zenon DEF QueueInv, Sorted, Ahead, Distinct
  <2>15. ASSUME NEW k \in 1 .. Len(q), k # p PROVE \E i \in 1 .. Len(q) - 1 : d[i] = q[k]
    <3>1. CASE k < p
      <4>1. k \in 1 .. Len(q) - 1 /\ d[k] = q[k]
        BY <1>4, <2>3, <2>5, <3>1
      <4> QED
        BY <4>1
    <3>2. CASE k > p
      <4>1. k - 1 \in 1 .. Len(q) - 1 /\ ~(k - 1 < p) /\ (k - 1) + 1 = k
        BY <1>4, <2>3, <3>2
      <4>2. d[k - 1] = q[k]
        BY <2>5, <4>1
      <4> QED
        BY <4>1, <4>2
    <3> QED
      BY <1>4, <2>3, <2>15, <3>1, <3>2
  <2>16. \A id, b : Has(d, id, b) => Has(q, id, b)
    BY <1>4, <2>6, <2>8 DEF Has
  <2>17. ASSUME NEW id, NEW b, id # x, Has(q, id, b) PROVE Has(d, id, b)
    <3>1. PICK k \in 1 .. Len(q) : q[k].id = id /\ q[k].arg = b
      BY <1>4, <2>17 DEF Has
    <3>2. PICK i \in 1 .. Len(q) - 1 : d[i] = q[k]
      BY <2>3, <2>15, <2>17, <3>1
    <3> QED
      BY <2>6, <3>1, <3>2 DEF Has
  <2> QED
    BY <1>1, <1>9, <2>14, <2>16, <2>17
<1> QED
  BY <1>10, <1>11

(***************************************************************************)
(* ticks++ and alarm_signal: what fires is a prefix of the queue, and what *)
(* stays has time left.                                                    *)
(***************************************************************************)
LEMMA TickFacts ==
    ASSUME QueueInv, AlarmTick
    PROVE  /\ QueueInv' /\ nextId' = nextId
           /\ Len(Fired) \in Nat /\ DOMAIN Fired = 1 .. Len(Fired)
           /\ \A id, b : Has(alarmQueue, id, b) <=> Has(Fired, id, b) \/ Has(alarmQueue', id, b)
           /\ \A id, b, c : ~(Has(Fired, id, b) /\ Has(alarmQueue', id, c))
<1>1. PICK q, n, at : q = alarmQueue /\ n = nextId /\ at = alarmTime
  OBVIOUS
<1>2. q \in Seq(Entry) /\ Sorted(q) /\ Ahead(q) /\ Distinct(q)
  BY <1>1 DEF QueueInv
<1>3. n \in Nat /\ at \in Int /\ (at = NoAlarm \/ at > 0)
  BY <1>1 DEF QueueInv
<1>4. DOMAIN q = 1 .. Len(q) /\ Len(q) \in Nat /\ \A i \in 1 .. Len(q) : q[i] \in Entry
  BY <1>2
<1>5. \A i \in 1 .. Len(q) : q[i].id < n /\ at # NoAlarm /\ at <= q[i].left
  BY <1>1, <1>4 DEF QueueInv
<1>6. PICK s : s = Passed
  OBVIOUS
<1>7. s = [i \in 1 .. Len(q) |-> [q[i] EXCEPT !.left = @ - 1]]
  BY <1>1, <1>4, <1>6 DEF Passed
<1>8. \A i \in 1 .. Len(q) : /\ s[i] \in Entry /\ s[i].id = q[i].id /\ s[i].arg = q[i].arg
                             /\ s[i].left = q[i].left - 1 /\ q[i].left \in Int
  BY <1>4, <1>7 DEF Entry
<1>9. s \in Seq(Entry) /\ Len(s) = Len(q) /\ DOMAIN s = 1 .. Len(q)
  <2>1. s \in [1 .. Len(q) -> Entry] /\ DOMAIN s = 1 .. Len(q)
    BY <1>7, <1>8
  <2>2. s \in Seq(Entry)
    BY <1>4, <2>1
  <2>3. Len(s) = Len(q)
    BY <1>4, <2>1, <2>2, LenProperties
  <2> QED
    BY <2>1, <2>2, <2>3
<1>10. PICK later : later = {i \in 1 .. Len(q) : s[i].left > 0}
  OBVIOUS
<1>11. PICK due : due = Due
  OBVIOUS
<1>12. due <=> at # NoAlarm /\ at <= 1
  BY <1>1, <1>11 DEF Due
<1>13. PICK m : m = FiredCount
  OBVIOUS
<1>14. m = IF ~due THEN 0
           ELSE IF later = {} THEN Len(q) ELSE Min(later) - 1
  <2>1. {i \in DOMAIN Passed : Passed[i].left > 0} = later /\ Len(Passed) = Len(q)
    BY <1>6, <1>9, <1>10
  <2>2. PICK all : all = {i \in DOMAIN Passed : Passed[i].left > 0}
    OBVIOUS
  <2>3. FiredCount = IF ~Due THEN 0
                     ELSE IF all = {} THEN Len(Passed)
                     ELSE Min(all) - 1
    BY <2>2, Zenon DEF FiredCount
  <2> QED
    BY <1>11, <1>13, <2>1, <2>2, <2>3, Zenon
<1>15. m \in 0 .. Len(q) /\ \A i \in 1 .. Len(q) : i > m => s[i].left > 0
  <2>1. CASE ~due
    <3>1. m = 0
      BY <1>14, <2>1
    <3>2. \A i \in 1 .. Len(q) : s[i].left > 0
      BY <1>3, <1>5, <1>8, <1>12, <2>1
    <3> QED
      BY <1>4, <3>1, <3>2
  <2>2. CASE due /\ later = {}
    <3>1. m = Len(q)
      BY <1>14, <2>2
    <3> QED
      BY <1>4, <3>1
  <2>3. CASE due /\ later # {}
    <3>1. PICK f : f = Min(later)
      OBVIOUS
    <3>2. m = f - 1
      BY <1>14, <2>3, <3>1
    <3>3. later \in SUBSET Nat
      BY <1>4, <1>10
    <3>4. f \in later
      BY <2>3, <3>1, <3>3, FirstFacts
    <3>5. f \in 1 .. Len(q) /\ s[f].left > 0
      BY <1>10, <3>4
    <3>6. ASSUME NEW i \in 1 .. Len(q), i > m PROVE s[i].left > 0
      <4>1. i = f \/ f < i
        BY <3>2, <3>5, <3>6
      <4>2. q[f].left <= q[i].left
        BY <1>2, <1>4, <1>8, <3>5, <4>1 DEF Sorted
      <4> QED
        BY <1>8, <3>5, <4>2
    <3> QED
      BY <1>4, <3>2, <3>5, <3>6
  <2> QED
    BY <2>1, <2>2, <2>3
<1>16. PICK fired, d : fired = SubSeq(s, 1, m) /\ d = SubSeq(s, m + 1, Len(s))
  OBVIOUS
<1>17. PICK u : u = IF due THEN IF d = << >> THEN NoAlarm ELSE d[1].left
                    ELSE IF at = NoAlarm THEN NoAlarm ELSE at - 1
  OBVIOUS
<1>18. fired = Fired /\ alarmQueue' = d /\ alarmTime' = u /\ nextId' = n
  BY <1>1, <1>6, <1>11, <1>13, <1>16, <1>17 DEF AlarmTick, Fired
<1>19. fired \in Seq(Entry) /\ Len(fired) = m /\ \A i \in 1 .. m : fired[i] = s[i]
  <2>1. 1 \in Int /\ m \in Int /\ \A i \in 1 .. m : s[i] \in Entry
    BY <1>4, <1>8, <1>15
  <2>2. /\ SubSeq(s, 1, m) \in Seq(Entry)
        /\ Len(SubSeq(s, 1, m)) = IF 1 <= m THEN m - 1 + 1 ELSE 0
        /\ \A i \in 1 .. m - 1 + 1 : SubSeq(s, 1, m)[i] = s[1 + i - 1]
    BY <2>1, SubSeqProperties
  <2> QED
    BY <1>4, <1>15, <1>16, <2>2
<1>20. d \in Seq(Entry) /\ Len(d) = Len(q) - m /\ \A i \in 1 .. Len(q) - m : d[i] = s[m + i]
  <2>1. m + 1 \in Int /\ Len(s) \in Int /\ \A i \in m + 1 .. Len(s) : s[i] \in Entry
    BY <1>4, <1>8, <1>9, <1>15
  <2>2. /\ SubSeq(s, m + 1, Len(s)) \in Seq(Entry)
        /\ Len(SubSeq(s, m + 1, Len(s))) = IF m + 1 <= Len(s) THEN Len(s) - (m + 1) + 1 ELSE 0
        /\ \A i \in 1 .. Len(s) - (m + 1) + 1 : SubSeq(s, m + 1, Len(s))[i] = s[(m + 1) + i - 1]
    BY <2>1, SubSeqProperties
  <2>3. d \in Seq(Entry) /\ Len(d) = Len(q) - m
    <3>1. Len(d) = IF m + 1 <= Len(q) THEN Len(q) - (m + 1) + 1 ELSE 0
      BY <1>9, <1>16, <2>2, Zenon
    <3>2. d \in Seq(Entry)
      BY <1>16, <2>2, Zenon
    <3>3. m \in Int /\ 0 <= m /\ m <= Len(q) /\ Len(q) \in Int
      BY <1>4, <1>15
    <3>4. PICK l : l = Len(q)
      OBVIOUS
    <3>5. Len(d) = l - m
      BY <3>1, <3>3, <3>4
    <3> QED
      BY <3>2, <3>4, <3>5
  <2>4. ASSUME NEW i \in 1 .. Len(q) - m PROVE d[i] = s[m + i]
    <3>1. i \in 1 .. Len(s) - (m + 1) + 1 /\ (m + 1) + i - 1 = m + i
      BY <1>4, <1>9, <1>15
    <3> QED
      BY <1>16, <2>2, <3>1
  <2> QED
    BY <2>3, <2>4
<1>21. DOMAIN fired = 1 .. m /\ DOMAIN d = 1 .. Len(q) - m
  BY <1>4, <1>15, <1>19, <1>20
<1>22. ASSUME NEW i \in 1 .. Len(q) - m
       PROVE  /\ m + i \in 1 .. Len(q) /\ d[i].id = q[m + i].id /\ d[i].arg = q[m + i].arg
              /\ d[i].left = q[m + i].left - 1 /\ d[i].left > 0 /\ q[m + i].left \in Int
  <2>1. m + i \in 1 .. Len(q) /\ m + i > m
    BY <1>4, <1>15
  <2> QED
    BY <1>8, <1>15, <1>20, <2>1
<1>23. Sorted(d) /\ Ahead(d) /\ Distinct(d)
  <2>1. \A i, j \in 1 .. Len(q) - m : i < j => m + i < m + j
    BY <1>4, <1>15
  <2>2. Sorted(d)
    BY <1>2, <1>4, <1>21, <1>22, <2>1, SMTT(30) DEF Sorted
  <2>3. Ahead(d)
    BY <1>21, <1>22 DEF Ahead
  <2>4. Distinct(d)
    <3> SUFFICES ASSUME NEW i \in 1 .. Len(q) - m, NEW j \in 1 .. Len(q) - m, d[i].id = d[j].id PROVE i = j
      BY <1>21 DEF Distinct
    <3>1. m + i = m + j
      BY <1>2, <1>4, <1>22 DEF Distinct
    <3> QED
      BY <1>4, <1>15, <3>1
  <2> QED
    BY <2>2, <2>3, <2>4
<1>24. \A i \in 1 .. Len(q) - m : d[i].id < n
  BY <1>5, <1>22
<1>25. u \in Int /\ (u = NoAlarm \/ u > 0) /\ \A i \in 1 .. Len(q) - m : u # NoAlarm /\ u <= d[i].left
  <2>1. CASE ~due
    <3>1. u = IF at = NoAlarm THEN NoAlarm ELSE at - 1
      BY <1>17, <2>1
    <3>2. at # NoAlarm => at - 1 > 0 /\ at - 1 # NoAlarm
      BY <1>3, <1>12, <2>1 DEF NoAlarm
    <3>3. ASSUME NEW i \in 1 .. Len(q) - m PROVE at # NoAlarm /\ at - 1 <= d[i].left
      BY <1>3, <1>5, <1>22
    <3> QED
      BY <1>3, <3>1, <3>2, <3>3 DEF NoAlarm
  <2>2. CASE due /\ d = << >>
    <3>1. u = NoAlarm /\ Len(q) - m = 0
      BY <1>17, <1>20, <2>2
    <3> QED
      BY <3>1 DEF NoAlarm
  <2>3. CASE due /\ d # << >>
    <3>1. u = d[1].left
      BY <1>17, <2>3
    <3>2. 1 \in 1 .. Len(q) - m
      BY <1>4, <1>15, <1>20, <2>3
    <3>3. \A i \in 1 .. Len(q) - m : i = 1 \/ 1 < i
      BY <1>4, <1>15
    <3>4. \A i \in 1 .. Len(q) - m : d[1].left <= d[i].left
      BY <1>21, <1>22, <1>23, <3>2, <3>3 DEF Sorted
    <3>5. d[1].left \in Int /\ d[1].left > 0
      BY <1>22, <3>2
    <3> QED
      BY <3>1, <3>4, <3>5 DEF NoAlarm
  <2> QED
    BY <2>1, <2>2, <2>3
<1>26. QueueInv'
  BY <1>3, <1>18, <1>20, <1>21, <1>23, <1>24, <1>25, Zenon DEF QueueInv, Sorted, Ahead, Distinct
<1>27. ASSUME NEW id, NEW b
       PROVE  Has(q, id, b) <=> Has(fired, id, b) \/ Has(d, id, b)
  <2>1. Has(q, id, b) <=> \E k \in 1 .. Len(q) : q[k].id = id /\ q[k].arg = b
    BY <1>4 DEF Has
  <2>2. Has(fired, id, b) <=> \E i \in 1 .. m : fired[i].id = id /\ fired[i].arg = b
    BY <1>21 DEF Has
  <2>3. Has(d, id, b) <=> \E i \in 1 .. Len(q) - m : d[i].id = id /\ d[i].arg = b
    BY <1>21 DEF Has
  <2>4. ASSUME NEW i \in 1 .. m PROVE i \in 1 .. Len(q) /\ fired[i].id = q[i].id /\ fired[i].arg = q[i].arg
    <3>1. i \in 1 .. Len(q)
      BY <1>4, <1>15
    <3> QED
      BY <1>8, <1>19, <3>1
  <2>5. ASSUME NEW k \in 1 .. Len(q), q[k].id = id, q[k].arg = b PROVE Has(fired, id, b) \/ Has(d, id, b)
    <3>1. CASE k \in 1 .. m
      BY <2>2, <2>4, <2>5, <3>1
    <3>2. CASE k > m
      <4>1. k - m \in 1 .. Len(q) - m /\ m + (k - m) = k
        BY <1>4, <1>15, <3>2
      <4> QED
        BY <1>22, <2>3, <2>5, <4>1
    <3> QED
      BY <1>4, <1>15, <3>1, <3>2
  <2>6. Has(fired, id, b) => Has(q, id, b)
    BY <2>1, <2>2, <2>4
  <2>7. Has(d, id, b) => Has(q, id, b)
    BY <1>22, <2>1, <2>3
  <2> QED
    BY <2>1, <2>5, <2>6, <2>7, Zenon
<1>28. ASSUME NEW id, NEW b, NEW c, Has(fired, id, b), Has(d, id, c) PROVE FALSE
  <2>1. PICK i \in 1 .. m : fired[i].id = id
    BY <1>21, <1>28 DEF Has
  <2>2. PICK j \in 1 .. Len(q) - m : d[j].id = id
    BY <1>21, <1>28 DEF Has
  <2>3. i \in 1 .. Len(q) /\ q[i].id = id
    <3>1. i \in 1 .. Len(q)
      BY <1>4, <1>15
    <3> QED
      BY <1>8, <1>19, <2>1, <3>1
  <2>4. m + j \in 1 .. Len(q) /\ q[m + j].id = id
    BY <1>22, <2>2
  <2>5. i = m + j
    BY <1>2, <1>4, <2>3, <2>4 DEF Distinct
  <2> QED
    BY <1>4, <1>15, <2>5
<1>29. Len(fired) \in Nat /\ DOMAIN fired = 1 .. Len(fired)
  BY <1>19
<1> QED
  BY <1>1, <1>18, <1>26, <1>27, <1>28, <1>29
-----------------------------------------------------------------------------
(* CoreInv, whatever the socket's alarm was at first                       *)

LEMMA CoreInit == Init => CoreInv
<1> SUFFICES ASSUME Init PROVE CoreInv
  OBVIOUS
<1>1. MAX_TRY \in Nat /\ MAX_TRY > 0 /\ MaxAlarm \in Nat
  BY RetryAssumption
<1>2. alarmQueue = << >> /\ alarmTime = NoAlarm /\ nextId = 0
  BY DEF Init, AlarmInit
<1>3. QueueInv
  <2>1. << >> \in Seq(Entry) /\ DOMAIN << >> = {}
    OBVIOUS
  <2>2. Sorted(<< >>) /\ Ahead(<< >>) /\ Distinct(<< >>)
    BY <2>1 DEF Sorted, Ahead, Distinct
  <2>3. 0 \in Nat /\ NoAlarm \in Int
    BY DEF NoAlarm
  <2> QED
    BY <1>2, <2>1, <2>2, <2>3, Zenon DEF QueueInv
<1>4. ThreadInv
  <2>1. spc = "out" /\ try = 0 /\ result = 0 /\ retry = 0 /\ cpc = "out" /\ acks = 0 /\ acked = FALSE
    BY DEF Init
  <2>2. running = Sender /\ asleep = {}
    BY DEF Init
  <2>3. running \in {Sender, Control, "idle"} \cup Sleeper /\ asleep \subseteq Sleeper
    BY <2>2
  <2>4. try \in 0 .. MAX_TRY - 1 /\ acks \in Nat /\ acks <= (IF spc = "send" THEN try ELSE try + 1)
    BY <1>1, <2>1
  <2>5. retry \in Int /\ retry >= -1 /\ (spc = "blocked" <=> retry = -1)
    BY <2>1
  <2>6. result \in Nat /\ result <= nextId /\ nextId <= MaxAlarm
    BY <1>1, <1>2, <2>1
  <2>7. acked \in BOOLEAN
    BY <2>1
  <2> QED
    BY <2>1, <2>3, <2>4, <2>5, <2>6, <2>7 DEF ThreadInv
<1>5. AckInv
  BY DEF Init, AckInv
<1> QED
  BY <1>3, <1>4, <1>5 DEF CoreInv

LEMMA QueueKept ==
    ASSUME QueueInv, UNCHANGED alarmVars
    PROVE  QueueInv'
<1>1. alarmQueue' = alarmQueue /\ alarmTime' = alarmTime /\ nextId' = nextId
  BY DEF alarmVars
<1> QED
  BY <1>1, Zenon DEF QueueInv, Sorted, Ahead, Distinct

LEMMA SwitchFacts ==
    ASSUME NEW t, SwitchFrom(t)
    PROVE  running' \in {Sender, Control, "idle"} \cup Sleeper
BY DEF SwitchFrom, Runnable

\* Signal keeps the count of socket->retry at -1 just while the sender waits.
LEMMA SignalFacts ==
    ASSUME ThreadInv, NEW n \in Nat, Signal(n)
    PROVE  /\ retry' \in Int /\ retry' >= -1 /\ (spc' = "blocked" <=> retry' = -1)
           /\ spc' = spc \/ (spc = "blocked" /\ spc' = "check" /\ n > 0)
BY DEF ThreadInv, Signal

\* What fires for one thread is a finite set.
LEMMA FiredFacts ==
    ASSUME NEW s, NEW l \in Nat, NEW m, m = {i \in 1 .. l : s[i].arg = Sender}
    PROVE  Cardinality(m) \in Nat /\ (Cardinality(m) > 0 => m # {})
<1>1. IsFiniteSet(1 .. l)
  BY FS_Interval
<1>2. m \subseteq 1 .. l
  OBVIOUS
<1>3. IsFiniteSet(m)
  BY <1>1, <1>2, FS_Subset
<1>4. Cardinality(m) \in Nat
  BY <1>3, FS_CardinalityType
<1>5. m = {} => Cardinality(m) = 0
  BY FS_EmptySet
<1> QED
  BY <1>4, <1>5

LEMMA CoreStep ==
    ASSUME CoreInv, [Next]_vars
    PROVE  CoreInv'
<1>1. QueueInv /\ ThreadInv /\ AckInv
  BY DEF CoreInv
<1>2. MAX_TRY \in Nat /\ MAX_TRY > 0 /\ MaxAlarm \in Nat
  BY RetryAssumption
<1>3. CASE BeginTransmit
  <2>1. QueueInv' /\ nextId \in Nat
    BY <1>1, <1>3, QueueKept DEF BeginTransmit, QueueInv
  <2>2. ThreadInv'
    <3>1. /\ spc' = "send" /\ try' = 0 /\ acks' = 0 /\ acked' \in BOOLEAN /\ spc = "out"
          /\ UNCHANGED <<running, nextId, asleep, result, retry, cpc>> /\ nextId + MAX_TRY <= MaxAlarm
      BY <1>3 DEF BeginTransmit, At, Stay, alarmVars, control
    <3>2. Left' = MAX_TRY
      BY <1>2, <3>1 DEF Left
    <3>3. nextId' + Left' <= MaxAlarm
      BY <1>2, <2>1, <3>1, <3>2
    <3> QED
      BY <1>1, <1>2, <3>1, <3>3 DEF ThreadInv
  <2>3. AckInv'
    BY <1>1, <1>3 DEF BeginTransmit, At, Stay, AckInv, control
  <2> QED
    BY <2>1, <2>2, <2>3 DEF CoreInv
<1>4. CASE Send
  <2>1. QueueInv'
    BY <1>1, <1>4, QueueKept DEF Send
  <2>2. ThreadInv'
    BY <1>1, <1>2, <1>4 DEF Send, At, Stay, ThreadInv, Left, alarmVars, control
  <2>3. AckInv'
    BY <1>1, <1>4 DEF Send, At, Stay, AckInv, control
  <2> QED
    BY <2>1, <2>2, <2>3 DEF CoreInv
<1>5. CASE RegisterRetry
  <2>1. try \in 0 .. MAX_TRY - 1 /\ spc = "register" /\ nextId \in Nat /\ nextId + (MAX_TRY - try) <= MaxAlarm
    BY <1>1, <1>2, <1>5 DEF RegisterRetry, At, ThreadInv, QueueInv, Left
  <2>2. nextId <= MaxAlarm /\ retry_delay[try] \in Nat /\ Register(retry_delay[try], Sender)
    BY <1>1, <1>5, <2>1, DelayFacts DEF RegisterRetry, ThreadInv
  <2>3. QueueInv' /\ nextId' = nextId + 1
    BY <1>1, <2>2, RegisterFacts
  <2>4. ThreadInv'
    BY <1>1, <1>2, <1>5, <2>1, <2>3 DEF RegisterRetry, At, Stay, ThreadInv, Left, control
  <2>5. AckInv'
    BY <1>1, <1>5 DEF RegisterRetry, At, Stay, AckInv, control
  <2> QED
    BY <2>3, <2>4, <2>5 DEF CoreInv
<1>6. CASE StoreAlarm
  <2>1. QueueInv'
    BY <1>1, <1>6, QueueKept DEF StoreAlarm
  <2>2. ThreadInv'
    BY <1>1, <1>2, <1>6 DEF StoreAlarm, At, Stay, ThreadInv, Left, alarmVars, control
  <2>3. AckInv'
    BY <1>1, <1>6 DEF StoreAlarm, At, Stay, AckInv, ThreadInv, control, ALARM_SUCCESS
  <2> QED
    BY <2>1, <2>2, <2>3 DEF CoreInv
<1>7. CASE WaitRetry
  <2>1. QueueInv'
    BY <1>1, <1>7, QueueKept DEF WaitRetry
  <2>2. running' \in {Sender, Control, "idle"} \cup Sleeper
    BY <1>1, <1>7, SwitchFacts DEF WaitRetry, Stay, ThreadInv
  <2>3. ThreadInv'
    BY <1>1, <1>2, <1>7, <2>2 DEF WaitRetry, At, ThreadInv, Left, alarmVars, control
  <2>4. AckInv'
    BY <1>1, <1>7 DEF WaitRetry, At, AckInv, control
  <2> QED
    BY <2>1, <2>3, <2>4 DEF CoreInv
<1>8. CASE CheckAlarm
  <2>1. QueueInv'
    BY <1>1, <1>8, QueueKept DEF CheckAlarm
  <2>2. ThreadInv'
    BY <1>1, <1>2, <1>8 DEF CheckAlarm, At, Stay, ThreadInv, Left, alarmVars, control
  <2>3. AckInv'
    BY <1>1, <1>8 DEF CheckAlarm, At, Stay, AckInv, control
  <2> QED
    BY <2>1, <2>2, <2>3 DEF CoreInv
<1>9. CASE ReturnSuccess
  <2>1. QueueInv'
    BY <1>1, <1>9, QueueKept DEF ReturnSuccess
  <2>2. ThreadInv'
    BY <1>1, <1>2, <1>9 DEF ReturnSuccess, At, Stay, ThreadInv, Left, alarmVars, control
  <2>3. AckInv'
    BY <1>1, <1>9 DEF ReturnSuccess, At, Stay, AckInv, control
  <2> QED
    BY <2>1, <2>2, <2>3 DEF CoreInv
<1>10. CASE TakeAck
  <2>1. QueueInv'
    BY <1>1, <1>10, QueueKept DEF TakeAck
  <2>2. ThreadInv'
    BY <1>1, <1>2, <1>10 DEF TakeAck, At, Stay, ThreadInv, Left, alarmVars, sender
  <2>3. AckInv'
    BY <1>1, <1>10 DEF TakeAck, At, Stay, AckInv, sender
  <2> QED
    BY <2>1, <2>2, <2>3 DEF CoreInv
<1>11. CASE TestAlarm
  <2>1. QueueInv'
    BY <1>1, <1>11, QueueKept DEF TestAlarm
  <2>2. running' \in {Sender, Control, "idle"} \cup Sleeper
    BY <1>1, <1>11, SwitchFacts DEF TestAlarm, NextPacket, Stay, ThreadInv
  <2>3. cpc' \in {"out", "deregister"} /\ cpc = "test"
    BY <1>11 DEF TestAlarm, NextPacket, At
  <2>4. ThreadInv'
    BY <1>1, <1>2, <1>11, <2>2, <2>3 DEF TestAlarm, ThreadInv, Left, alarmVars, sender
  <2>5. AckInv'
    BY <1>1, <1>11, <2>3 DEF TestAlarm, AckInv, sender
  <2> QED
    BY <2>1, <2>4, <2>5 DEF CoreInv
<1>12. CASE DeregisterRetry
  <2>1. PICK id : Deregister(id)
    BY <1>12 DEF DeregisterRetry
  <2>2. QueueInv' /\ nextId' = nextId
    BY <1>1, <2>1, DeregisterFacts
  <2>3. ThreadInv'
    BY <1>1, <1>2, <1>12, <2>2 DEF DeregisterRetry, At, Stay, ThreadInv, Left, sender
  <2>4. AckInv'
    BY <1>1, <1>12 DEF DeregisterRetry, At, Stay, AckInv, sender
  <2> QED
    BY <2>2, <2>3, <2>4 DEF CoreInv
<1>13. CASE SetSuccess
  <2>1. QueueInv'
    BY <1>1, <1>13, QueueKept DEF SetSuccess
  <2>2. ThreadInv'
    BY <1>1, <1>2, <1>13 DEF SetSuccess, At, Stay, ThreadInv, Left, alarmVars, sender
  <2>3. AckInv'
    BY <1>1, <1>13 DEF SetSuccess, At, Stay, AckInv, sender
  <2> QED
    BY <2>1, <2>2, <2>3 DEF CoreInv
<1>14. CASE SignalSender
  <2>1. QueueInv'
    BY <1>1, <1>14, QueueKept DEF SignalSender
  <2>2. running' \in {Sender, Control, "idle"} \cup Sleeper
    BY <1>1, <1>14, SwitchFacts DEF SignalSender, NextPacket, Stay, ThreadInv
  <2>3. 1 \in Nat /\ Signal(1) /\ cpc' = "out" /\ cpc = "signal"
    BY <1>14 DEF SignalSender, NextPacket, At
  <2>4. /\ retry' \in Int /\ retry' >= -1 /\ (spc' = "blocked" <=> retry' = -1)
        /\ spc' = spc \/ (spc = "blocked" /\ spc' = "check")
    BY <1>1, <2>3, SignalFacts
  <2>5. ThreadInv'
    BY <1>1, <1>2, <1>14, <2>2, <2>3, <2>4 DEF SignalSender, ThreadInv, Left, alarmVars
  <2>6. AckInv'
    BY <1>1, <1>14, <2>3, <2>4 DEF SignalSender, AckInv
  <2> QED
    BY <2>1, <2>5, <2>6 DEF CoreInv
<1>15. CASE Tick
  <2>1. AlarmTick
    BY <1>15 DEF Tick
  <2>2. QueueInv' /\ nextId' = nextId /\ Len(Fired) \in Nat /\ DOMAIN Fired = 1 .. Len(Fired)
    BY <1>1, <2>1, TickFacts
  <2>3. PICK m : m = {i \in DOMAIN Fired : Fired[i].arg = Sender}
    OBVIOUS
  <2>4. Cardinality(m) \in Nat /\ (Cardinality(m) > 0 => m # {})
    BY <2>2, <2>3, FiredFacts
  <2>5. Signal(Cardinality(m)) /\ alarm' = IF m = {} THEN alarm ELSE ALARM_WAKEUP
    BY <1>15, <2>3, Zenon DEF Tick
  <2>6. /\ retry' \in Int /\ retry' >= -1 /\ (spc' = "blocked" <=> retry' = -1)
        /\ spc' = spc \/ (spc = "blocked" /\ spc' = "check" /\ Cardinality(m) > 0)
    BY <1>1, <2>4, <2>5, SignalFacts
  <2>7. running' \in {Sender, Control, "idle"} \cup Sleeper /\ asleep' \subseteq asleep
    BY <1>15, SwitchFacts DEF Tick
  <2>8. UNCHANGED <<try, result, cpc, acks, acked>>
    BY <1>15 DEF Tick, control
  <2>9. ThreadInv'
    BY <1>1, <1>2, <2>2, <2>6, <2>7, <2>8 DEF ThreadInv, Left
  <2>10. AckInv'
    BY <1>1, <2>4, <2>5, <2>6, <2>8 DEF AckInv, ALARM_SUCCESS, ALARM_WAKEUP
  <2> QED
    BY <2>2, <2>9, <2>10 DEF CoreInv
<1>16. ASSUME NEW z \in Sleeper, Sleep(z) PROVE CoreInv'
  <2>1. PICK delay \in SleepTicks : Register(delay, z)
    BY <1>16 DEF Sleep
  <2>2. delay \in Nat /\ nextId <= MaxAlarm
    BY <1>1, <2>1, RetryAssumption DEF ThreadInv
  <2>3. QueueInv' /\ nextId' = nextId + 1
    BY <1>1, <2>1, <2>2, RegisterFacts
  <2>4. running' \in {Sender, Control, "idle"} \cup Sleeper /\ nextId + MAX_TRY < MaxAlarm /\ asleep' = asleep \cup {z}
    BY <1>16, SwitchFacts DEF Sleep
  <2>5. UNCHANGED <<spc, try, result, alarm, retry, cpc, acks, acked>>
    BY <1>16 DEF Sleep, sender, control
  <2>6. nextId \in Nat
    BY <1>1 DEF QueueInv
  <2>7. ThreadInv'
    BY <1>1, <1>2, <2>3, <2>4, <2>5, <2>6 DEF ThreadInv, Left
  <2>8. AckInv'
    BY <1>1, <2>5 DEF AckInv
  <2> QED
    BY <2>3, <2>7, <2>8 DEF CoreInv
<1>17. CASE UNCHANGED vars
  <2>1. QueueInv'
    BY <1>1, <1>17, QueueKept DEF vars
  <2>2. ThreadInv' /\ AckInv'
    BY <1>1, <1>17 DEF vars, alarmVars, sender, control, ThreadInv, Left, AckInv
  <2> QED
    BY <2>1, <2>2 DEF CoreInv
<1> QED
  BY <1>3, <1>4, <1>5, <1>6, <1>7, <1>8, <1>9, <1>10, <1>11, <1>12, <1>13, <1>14, <1>15, <1>16, <1>17
     DEF Next, SenderStep, ControlStep
-----------------------------------------------------------------------------
(* OwnerInv and SleepInv, when the socket's alarm was set at first         *)

LEMMA HasFacts ==
    ASSUME QueueInv, NEW id, NEW b, Has(alarmQueue, id, b)
    PROVE  id \in 0 .. MaxAlarm /\ id \in Nat /\ id < nextId
<1>1. PICK i \in DOMAIN alarmQueue : alarmQueue[i].id = id
  BY DEF Has
<1>2. alarmQueue \in Seq(Entry) /\ alarmQueue[i].id < nextId
  BY <1>1 DEF QueueInv
<1>3. alarmQueue[i] \in Entry
  BY <1>1, <1>2
<1> QED
  BY <1>1, <1>2, <1>3, RetryAssumption DEF Entry

LEMMA OwnInit == Init /\ Settled => OwnerInv /\ SleepInv
<1> SUFFICES ASSUME Init, Settled PROVE OwnerInv /\ SleepInv
  OBVIOUS
<1>1. alarmQueue = << >> /\ nextId = 0 /\ DOMAIN << >> = {}
  BY DEF Init, AlarmInit
<1>2. \A id, b : ~Has(alarmQueue, id, b)
  BY <1>1 DEF Has
<1>3. alarm \in Statuses /\ tested = 0 /\ spc = "out" /\ cpc = "out" /\ asleep = {}
  BY DEF Init, Settled
<1>4. Kept = {alarm}
  BY <1>3 DEF Kept
<1>5. alarm < 0
  BY <1>3 DEF Statuses, ALARM_SUCCESS, ALARM_CANCELED, ALARM_WAKEUP
<1> QED
  BY <1>1, <1>2, <1>3, <1>4, <1>5 DEF OwnerInv, SleepInv

\* The threads keep no new id, and no sleeper has a new alarm.
LEMMA OwnerKept ==
    ASSUME QueueInv, OwnerInv, nextId' = nextId,
           \A id : \A z \in Sleeper : Has(alarmQueue', id, z) => Has(alarmQueue, id, z),
           alarm' \in Statuses \cup Nat, tested' \in Nat, Kept' \subseteq Kept \cup Statuses
    PROVE  OwnerInv'
<1>1. \A id \in Statuses : id \in Int /\ id < 0
  BY DEF Statuses, ALARM_SUCCESS, ALARM_CANCELED, ALARM_WAKEUP
<1>2. nextId \in Nat
  BY DEF QueueInv
<1>3. \A id \in Kept \cup Statuses : id < nextId
  BY <1>1, <1>2 DEF OwnerInv
<1>4. ASSUME NEW z \in Sleeper, NEW id \in Kept \cup Statuses, Has(alarmQueue, id, z) PROVE FALSE
  <2>1. CASE id \in Kept
    BY <1>4, <2>1 DEF OwnerInv
  <2>2. CASE id \in Statuses
    <3>1. id \in Nat
      BY <1>4, HasFacts
    <3> QED
      BY <1>1, <2>2, <3>1
  <2> QED
    BY <2>1, <2>2
<1>5. \A z \in Sleeper, id \in Kept' : ~Has(alarmQueue', id, z)
  BY <1>4
<1>6. \A id \in Kept' : id < nextId'
  BY <1>3
<1> QED
  BY <1>5, <1>6 DEF OwnerInv

LEMMA SleepKept ==
    ASSUME SleepInv, asleep' = asleep,
           \A id : \A z \in Sleeper : Has(alarmQueue', id, z) <=> Has(alarmQueue, id, z)
    PROVE  SleepInv'
BY Zenon DEF SleepInv

LEMMA OwnStep ==
    ASSUME CoreInv, OwnerInv, SleepInv, [Next]_vars
    PROVE  OwnerInv' /\ SleepInv'
<1>1. QueueInv /\ ThreadInv /\ nextId \in Nat /\ nextId <= MaxAlarm
  BY DEF CoreInv, QueueInv, ThreadInv
<1>2. alarm \in Statuses \cup Nat /\ tested \in Nat /\ result \in Nat
  BY <1>1 DEF OwnerInv, ThreadInv
<1>3. Sender \notin Sleeper /\ MaxAlarm \in Nat
  BY RetryAssumption
<1>4. ASSUME UNCHANGED alarmVars, asleep' = asleep,
             alarm' \in Statuses \cup Nat, tested' \in Nat, Kept' \subseteq Kept \cup Statuses
      PROVE  OwnerInv' /\ SleepInv'
  <2>1. alarmQueue' = alarmQueue /\ nextId' = nextId
    BY <1>4 DEF alarmVars
  <2>2. \A id : \A z \in Sleeper : Has(alarmQueue', id, z) <=> Has(alarmQueue, id, z)
    BY <2>1
  <2> QED
    BY <1>1, <1>4, <2>1, <2>2, OwnerKept, SleepKept
<1>5. CASE BeginTransmit
  <2>1. alarm' = alarm /\ tested' = tested /\ cpc' = cpc /\ spc' = "send"
    BY <1>5 DEF BeginTransmit, control
  <2>2. Kept' \subseteq Kept
    BY <2>1 DEF Kept
  <2> QED
    BY <1>2, <1>4, <1>5, <2>1, <2>2 DEF BeginTransmit
<1>6. CASE Send
  <2>1. alarm' = alarm /\ tested' = tested /\ cpc' = cpc /\ spc' = "register"
    BY <1>6 DEF Send, control
  <2>2. Kept' \subseteq Kept
    BY <2>1 DEF Kept
  <2> QED
    BY <1>2, <1>4, <1>6, <2>1, <2>2 DEF Send
<1>7. CASE RegisterRetry
  <2>1. try \in 0 .. MAX_TRY - 1 /\ UNCHANGED <<asleep, alarm, cpc, tested>> /\ result' = nextId
    BY <1>1, <1>7 DEF RegisterRetry, ThreadInv, control
  <2>2. retry_delay[try] \in Nat /\ Register(retry_delay[try], Sender)
    BY <1>7, <2>1, DelayFacts DEF RegisterRetry
  <2>3. nextId' = nextId + 1 /\ \A id, b : Has(alarmQueue', id, b) <=> Has(alarmQueue, id, b) \/ (id = nextId /\ b = Sender)
    BY <1>1, <2>2, RegisterFacts
  <2>4. \A id : \A z \in Sleeper : Has(alarmQueue', id, z) <=> Has(alarmQueue, id, z)
    BY <1>3, <2>3
  <2>5. Kept' \subseteq Kept \cup {nextId}
    BY <2>1 DEF Kept
  <2>6. \A id \in Kept' : id < nextId'
    <3>1. \A id \in Kept : id \in Int /\ id < nextId
      BY <1>1, <1>2 DEF OwnerInv, Kept, Statuses, ALARM_SUCCESS, ALARM_CANCELED, ALARM_WAKEUP
    <3>2. \A id \in Kept \cup {nextId} : id < nextId + 1
      BY <1>1, <3>1
    <3> QED
      BY <2>3, <2>5, <3>2
  <2>7. ASSUME NEW z \in Sleeper, NEW id \in Kept', Has(alarmQueue', id, z) PROVE FALSE
    <3>1. Has(alarmQueue, id, z)
      BY <2>4, <2>7
    <3>2. id < nextId /\ id \in Nat
      BY <1>1, <3>1, HasFacts
    <3>3. id \in Kept
      BY <1>1, <2>5, <2>7, <3>2
    <3> QED
      BY <3>1, <3>3 DEF OwnerInv
  <2> QED
    BY <1>2, <2>1, <2>4, <2>6, <2>7, SleepKept DEF OwnerInv
<1>8. CASE StoreAlarm
  <2>1. alarm' = result /\ tested' = tested /\ cpc' = cpc /\ spc' = "wait" /\ spc = "store"
    BY <1>8 DEF StoreAlarm, At, control
  <2>2. Kept' \subseteq Kept
    BY <2>1 DEF Kept
  <2> QED
    BY <1>2, <1>4, <1>8, <2>1, <2>2 DEF StoreAlarm
<1>9. CASE WaitRetry
  <2>1. alarm' = alarm /\ tested' = tested /\ cpc' = cpc /\ spc' \in {"check", "blocked"}
    BY <1>9 DEF WaitRetry, control
  <2>2. Kept' \subseteq Kept
    BY <2>1 DEF Kept
  <2> QED
    BY <1>2, <1>4, <1>9, <2>1, <2>2 DEF WaitRetry
<1>10. CASE CheckAlarm
  <2>1. alarm' \in {alarm, ALARM_SUCCESS} /\ tested' = tested /\ cpc' = cpc /\ spc' \in {"success", "send", "out"}
    BY <1>10 DEF CheckAlarm, control
  <2>2. Kept' \subseteq Kept \cup Statuses
    BY <2>1 DEF Kept, Statuses
  <2>3. alarm' \in Statuses \cup Nat
    BY <1>2, <2>1 DEF Statuses
  <2> QED
    BY <1>2, <1>4, <1>10, <2>1, <2>2, <2>3 DEF CheckAlarm
<1>11. CASE ReturnSuccess
  <2>1. alarm' = alarm /\ tested' = tested /\ cpc' = cpc /\ spc' = "out"
    BY <1>11 DEF ReturnSuccess, control
  <2>2. Kept' \subseteq Kept
    BY <2>1 DEF Kept
  <2> QED
    BY <1>2, <1>4, <1>11, <2>1, <2>2 DEF ReturnSuccess
<1>12. CASE TakeAck
  <2>1. alarm' = alarm /\ tested' = tested /\ cpc' = "test" /\ spc' = spc /\ result' = result
    BY <1>12 DEF TakeAck, sender
  <2>2. Kept' \subseteq Kept
    BY <2>1 DEF Kept
  <2> QED
    BY <1>2, <1>4, <1>12, <2>1, <2>2 DEF TakeAck
<1>13. CASE TestAlarm
  <2>1. alarm' = alarm /\ spc' = spc /\ result' = result /\ ((tested' = tested /\ cpc' = "out") \/ (tested' = alarm /\ alarm > -1))
    BY <1>13 DEF TestAlarm, NextPacket, sender
  <2>2. tested' \in Nat
    BY <1>2, <2>1 DEF Statuses, ALARM_SUCCESS, ALARM_CANCELED, ALARM_WAKEUP
  <2>3. Kept' \subseteq Kept
    BY <2>1 DEF Kept
  <2> QED
    BY <1>2, <1>4, <1>13, <2>1, <2>2, <2>3 DEF TestAlarm
<1>14. CASE DeregisterRetry
  <2>1. PICK id \in {tested, alarm} : Deregister(id)
    BY <1>14 DEF DeregisterRetry
  <2>2. cpc = "deregister" /\ cpc' = "set" /\ UNCHANGED <<asleep, spc, result, alarm, tested>>
    BY <1>14 DEF DeregisterRetry, At, sender
  <2>3. id \in Kept
    BY <2>1, <2>2 DEF Kept
  <2>4. /\ nextId' = nextId
        /\ \A x, b : Has(alarmQueue', x, b) => Has(alarmQueue, x, b)
        /\ \A x, b : x # id /\ Has(alarmQueue, x, b) => Has(alarmQueue', x, b)
    BY <1>1, <2>1, DeregisterFacts
  <2>5. \A x : \A z \in Sleeper : Has(alarmQueue', x, z) <=> Has(alarmQueue, x, z)
    <3>1. \A z \in Sleeper : ~Has(alarmQueue, id, z)
      BY <2>3 DEF OwnerInv
    <3> QED
      BY <2>4, <3>1, Zenon
  <2>6. Kept' \subseteq Kept
    BY <2>2 DEF Kept
  <2> QED
    BY <1>1, <1>2, <2>2, <2>4, <2>5, <2>6, OwnerKept, SleepKept
<1>15. CASE SetSuccess
  <2>1. alarm' = ALARM_SUCCESS /\ tested' = tested /\ cpc' = "signal" /\ spc' = spc /\ result' = result
    BY <1>15 DEF SetSuccess, sender
  <2>2. Kept' \subseteq Kept \cup Statuses /\ alarm' \in Statuses
    BY <2>1 DEF Kept, Statuses
  <2> QED
    BY <1>2, <1>4, <1>15, <2>1, <2>2 DEF SetSuccess
<1>16. CASE SignalSender
  <2>1. alarm' = alarm /\ tested' = tested /\ cpc' = "out" /\ spc' \in {spc, "check"} /\ result' = result
    BY <1>16 DEF SignalSender, Signal, NextPacket
  <2>2. Kept' \subseteq Kept
    BY <2>1 DEF Kept
  <2> QED
    BY <1>2, <1>4, <1>16, <2>1, <2>2 DEF SignalSender
<1>17. CASE Tick
  <2>1. AlarmTick
    BY <1>17 DEF Tick
  <2>2. nextId' = nextId /\ DOMAIN Fired = 1 .. Len(Fired)
    BY <1>1, <2>1, TickFacts
  <2>3. \A id, b : Has(alarmQueue, id, b) <=> Has(Fired, id, b) \/ Has(alarmQueue', id, b)
    BY <1>1, <2>1, TickFacts
  <2>4. \A id, b, c : ~(Has(Fired, id, b) /\ Has(alarmQueue', id, c))
    BY <1>1, <2>1, TickFacts
  <2>5. alarm' \in {alarm, ALARM_WAKEUP} /\ spc' \in {spc, "check"} /\ UNCHANGED <<result, cpc, tested>>
    BY <1>17 DEF Tick, Signal, control
  <2>6. Kept' \subseteq Kept \cup Statuses /\ alarm' \in Statuses \cup Nat
    BY <1>2, <2>5 DEF Kept, Statuses
  <2>7. OwnerInv'
    BY <1>1, <1>2, <2>2, <2>3, <2>5, <2>6, OwnerKept
  <2>8. \A z \in Sleeper : z \in asleep' <=> z \in asleep /\ \A id : ~Has(Fired, id, z)
    <3>1. asleep' = {z \in asleep : \A i \in DOMAIN Fired : Fired[i].arg # z}
      BY <1>17 DEF Tick
    <3>2. \A z : (\A i \in DOMAIN Fired : Fired[i].arg # z) <=> (\A id : ~Has(Fired, id, z))
      BY Zenon DEF Has
    <3> QED
      BY <3>1, <3>2
  <2>9. \A id, b : Has(alarmQueue, id, b) => id \in 0 .. MaxAlarm
    BY <1>1, HasFacts
  <2>10. SleepInv'
    <3>1. ASSUME NEW z \in Sleeper, z \in asleep' PROVE \E id \in 0 .. MaxAlarm : Has(alarmQueue', id, z)
      <4>1. PICK id \in 0 .. MaxAlarm : Has(alarmQueue, id, z)
        BY <2>8, <3>1 DEF SleepInv
      <4> QED
        BY <2>3, <2>8, <3>1, <4>1
    <3>2. ASSUME NEW z \in Sleeper, NEW id \in 0 .. MaxAlarm, Has(alarmQueue', id, z) PROVE z \in asleep'
      <4>1. z \in asleep
        BY <2>3, <3>2 DEF SleepInv
      <4>2. ASSUME NEW jd, Has(Fired, jd, z) PROVE FALSE
        <5>1. Has(alarmQueue, jd, z) /\ Has(alarmQueue, id, z)
          BY <2>3, <3>2, <4>2
        <5>2. id = jd
          BY <2>9, <5>1 DEF SleepInv
        <5> QED
          BY <2>4, <3>2, <4>2, <5>2
      <4> QED
        BY <2>8, <4>1, <4>2
    <3>3. ASSUME NEW z \in Sleeper, NEW id \in 0 .. MaxAlarm, NEW jd \in 0 .. MaxAlarm,
                 Has(alarmQueue', id, z), Has(alarmQueue', jd, z)
          PROVE  id = jd
      BY <2>3, <3>3 DEF SleepInv
    <3> QED
      BY <3>1, <3>2, <3>3, Zenon DEF SleepInv
  <2> QED
    BY <2>7, <2>10
<1>18. ASSUME NEW z \in Sleeper, Sleep(z) PROVE OwnerInv' /\ SleepInv'
  <2>1. PICK delay \in SleepTicks : Register(delay, z)
    BY <1>18 DEF Sleep
  <2>2. delay \in Nat
    BY <2>1, RetryAssumption
  <2>3. nextId' = nextId + 1 /\ \A id, b : Has(alarmQueue', id, b) <=> Has(alarmQueue, id, b) \/ (id = nextId /\ b = z)
    BY <1>1, <2>1, <2>2, RegisterFacts
  <2>4. z \notin asleep /\ asleep' = asleep \cup {z} /\ UNCHANGED <<spc, result, alarm, cpc, tested>>
    BY <1>18 DEF Sleep, sender, control
  <2>5. Kept' = Kept
    BY <2>4 DEF Kept
  <2>6. \A id \in Kept : id < nextId /\ id # nextId /\ id < nextId + 1
    BY <1>1, <1>2 DEF OwnerInv, Kept, Statuses, ALARM_SUCCESS, ALARM_CANCELED, ALARM_WAKEUP, ThreadInv
  <2>7. OwnerInv'
    BY <1>2, <2>3, <2>4, <2>5, <2>6 DEF OwnerInv
  <2>8. nextId \in 0 .. MaxAlarm
    BY <1>1, <1>3
  <2>9. \A id \in 0 .. MaxAlarm : ~Has(alarmQueue, id, z)
    BY <2>4 DEF SleepInv
  <2>10. SleepInv'
    BY <2>3, <2>4, <2>8, <2>9, ZenonT(30) DEF SleepInv
  <2> QED
    BY <2>7, <2>10
<1>19. CASE UNCHANGED vars
  <2>1. UNCHANGED <<alarmVars, asleep, spc, result, alarm, cpc, tested>>
    BY <1>19 DEF vars, sender, control
  <2>2. Kept' \subseteq Kept
    BY <2>1 DEF Kept
  <2> QED
    BY <1>2, <1>4, <2>1, <2>2
<1> QED
  BY <1>5, <1>6, <1>7, <1>8, <1>9, <1>10, <1>11, <1>12, <1>13, <1>14, <1>15, <1>16, <1>17, <1>18, <1>19
     DEF Next, SenderStep, ControlStep
-----------------------------------------------------------------------------
(* The theorems                                                            *)

LEMMA CoreInvariant == Spec => []CoreInv
BY CoreInit, CoreStep, PTL DEF Spec

LEMMA Invariant == ASSUME Settled PROVE Spec => []IInv
<1>1. Init => IInv
  BY CoreInit, OwnInit DEF IInv
<1>2. IInv /\ [Next]_vars => IInv'
  BY CoreStep, OwnStep DEF IInv
<1> QED
  BY <1>1, <1>2, PTL DEF Spec

(***************************************************************************)
(* TypeOK: the retry semaphore is -1 just while the sender waits on it,    *)
(* and the socket's alarm is an id or a status, once it has been set.      *)
(***************************************************************************)
THEOREM TypeCorrect == ASSUME Settled PROVE Spec => []TypeOK
<1>1. IInv => TypeOK
  <2> SUFFICES ASSUME IInv PROVE TypeOK
    OBVIOUS
  <2>1. QueueInv /\ ThreadInv /\ OwnerInv
    BY DEF IInv, CoreInv
  <2>2. MAX_TRY \in Nat /\ MAX_TRY > 0 /\ MaxAlarm \in Nat
    BY RetryAssumption
  <2>3. alarmQueue \in Seq(Entry) /\ nextId \in Nat /\ alarmTime \in Int
    BY <2>1 DEF QueueInv
  <2>4. \A i \in DOMAIN alarmQueue : alarmQueue[i] \in Entry
    BY <2>3
  <2>5. alarm \in Statuses \cup Nat /\ alarm < nextId /\ nextId <= MaxAlarm
    BY <2>1 DEF OwnerInv, Kept, ThreadInv
  <2>6. alarm \in Statuses \cup 0 .. MaxAlarm
    BY <2>2, <2>3, <2>5
  <2>7. acks \in 0 .. MAX_TRY /\ result \in 0 .. MaxAlarm
    BY <2>1, <2>2, <2>3 DEF ThreadInv
  <2> QED
    BY <2>1, <2>2, <2>3, <2>4, <2>6, <2>7 DEF TypeOK, ThreadInv, Entry, Statuses
<1> QED
  BY <1>1, Invariant, PTL

(***************************************************************************)
(* Alarms are on time: the queue is sorted, nothing in it is overdue, and  *)
(* clock_handler never looks at a time later than the head's, though       *)
(* deregister_alarm leaves that time as it is.                             *)
(***************************************************************************)
THEOREM OnTime == Spec => []AlarmsOnTime
<1>1. CoreInv => AlarmsOnTime
  <2> SUFFICES ASSUME CoreInv PROVE AlarmsOnTime
    OBVIOUS
  <2>1. QueueInv
    BY DEF CoreInv
  <2>2. alarmQueue \in Seq(Entry)
    BY <2>1 DEF QueueInv
  <2>3. alarmQueue # << >> => 1 \in DOMAIN alarmQueue
    BY <2>2
  <2> QED
    BY <2>1, <2>3 DEF AlarmsOnTime, QueueInv, Sorted, Ahead
<1> QED
  BY <1>1, CoreInvariant, PTL

(***************************************************************************)
(* minithread_sleep_with_timeout: a sleeper has exactly one alarm, so that *)
(* it is woken once and its semaphore is back at 0.  The control thread,   *)
(* which deregisters the id that it finds in the socket, never takes it.   *)
(***************************************************************************)
THEOREM OneAlarmEach == ASSUME Settled PROVE Spec => []SleepersHaveAlarms
<1>1. IInv => SleepersHaveAlarms
  <2> SUFFICES ASSUME IInv, NEW z \in Sleeper
               PROVE  Cardinality({i \in DOMAIN alarmQueue : alarmQueue[i].arg = z}) = (IF z \in asleep THEN 1 ELSE 0)
    BY DEF SleepersHaveAlarms
  <2>1. QueueInv /\ SleepInv
    BY DEF IInv, CoreInv
  <2>2. PICK S : S = {i \in DOMAIN alarmQueue : alarmQueue[i].arg = z}
    OBVIOUS
  <2>3. \A i \in S : Has(alarmQueue, alarmQueue[i].id, z)
    BY <2>2 DEF Has
  <2>4. \A i \in S : alarmQueue[i].id \in 0 .. MaxAlarm
    BY <2>1, <2>3, HasFacts
  <2>5. \A i, j \in S : i = j
    <3>1. \A i, j \in S : alarmQueue[i].id = alarmQueue[j].id
      BY <2>1, <2>3, <2>4 DEF SleepInv
    <3> QED
      BY <2>1, <2>2, <3>1 DEF QueueInv, Distinct
  <2>6. CASE z \in asleep
    <3>1. PICK i : i \in S
      BY <2>1, <2>2, <2>6 DEF SleepInv, Has
    <3>2. S = {i}
      BY <2>5, <3>1
    <3> QED
      BY <2>2, <2>6, <3>2, FS_Singleton
  <2>7. CASE z \notin asleep
    <3>1. S = {}
      BY <2>1, <2>3, <2>4, <2>7 DEF SleepInv
    <3> QED
      BY <2>2, <2>7, <3>1, FS_EmptySet
  <2> QED
    BY <2>6, <2>7
<1> QED
  BY <1>1, Invariant, PTL

(***************************************************************************)
(* minisocket_transmit reports success only of a message whose ACK the     *)
(* control thread has taken, whatever alarms and late ACKs do between.     *)
(***************************************************************************)
THEOREM SuccessAcked == Spec => []SuccessMeansAcked
<1>1. CoreInv => SuccessMeansAcked
  BY DEF CoreInv, AckInv, SuccessMeansAcked
<1> QED
  BY <1>1, CoreInvariant, PTL
=============================================================================
