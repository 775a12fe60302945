--------------------------- MODULE BufferCacheProofs ---------------------------
(***************************************************************************)
(* Proofs about BufferCache, for any threads, blocks, disk and hash lists. *)
(***************************************************************************)
EXTENDS BufferCache, FiniteSetTheorems, SequenceTheorems, TLAPS

Pc == {"idle", "lock", "find", "limit", "request", "enqueue", "hung", "await",
       "reply", "add", "held", "release", "unlock"}
IoPc == {"limit", "request", "enqueue", "hung", "await", "reply"}

\* t has the unit of block_lock[HashOf(t)]; t has a buffer.
Locked(t) == pc[t] \notin {"idle", "lock"}
HasBuffer(t) == pc[t] \notin {"idle", "lock", "find"}

\* blocking_read for bread, up to hash_add, and blocking_write for bwrite.
Reading(t) == pc[t] \in IoPc \cup {"add"} /\ ~writing[t]
Writing(t) == pc[t] \in IoPc /\ writing[t]

InHash(b) == \E h \in Slot : \E i \in DOMAIN hash[h] : hash[h][i] = b
Requested(t) == \E i \in DOMAIN requests : requests[i].by = t
Answered(t) == interrupt # NoReply /\ interrupt.by = t

\* The request of t was served.
Served(t) == pc[t] \in {"reply", "add"} \/ (pc[t] = "await" /\ ~Requested(t))
-----------------------------------------------------------------------------
Answers == [num : Block, by : Thread, write : BOOLEAN, ok : BOOLEAN]
Requests == [num : Block, by : Thread, buf : Buffers, write : BOOLEAN]

(***************************************************************************)
(* TypeInv: the types, of the variables that TypeOK says nothing of too.   *)
(***************************************************************************)
TypeInv ==
    /\ pc \in [Thread -> Pc]
    /\ blk \in [Thread -> Block \cup {NULL}]
    /\ writing \in [Thread -> BOOLEAN]
    /\ bufp \in [Thread -> Buffers \cup {NoBuffer}]
    /\ buffer \in [Buffers -> [num : Block, data : Value \cup {Junk}, state : {"CLEAN", "DIRTY", Junk}]]
    /\ hash \in [Slot -> Seq(Buffers)]
    /\ lru \subseteq Buffers
    /\ block_lock \in [Slot -> 0 .. 1]
    /\ block_sig \in [Slot -> 0 .. 1]
    /\ disk_lim \in Nat
    /\ reply \in [Slot -> Answers \cup {NoReply}]
    /\ requests \in Seq(Requests)
    /\ interrupt \in Answers \cup {NoReply}
    /\ disk \in [0 .. DiskSize - 1 -> Value]
    /\ latest \in [Block -> Value \cup {Junk}]
    /\ failed \subseteq Block

(***************************************************************************)
(* CallInv: where a thread is says what it has.                            *)
(***************************************************************************)
CallInv ==
    \A t \in Thread :
        /\ pc[t] = "idle" <=> blk[t] = NULL
        /\ HasBuffer(t) => bufp[t] \in Buffers /\ buffer[bufp[t]].num = blk[t]
        /\ writing[t] => pc[t] \in IoPc \cup {"release", "unlock"}

(***************************************************************************)
(* LockInv: the one unit of block_lock[h] is in its count, or with one of  *)
(* the threads whose block has this hash.                                  *)
(***************************************************************************)
LockInv ==
    /\ \A t \in Thread : Locked(t) => block_lock[HashOf(t)] = 0
    /\ \A t, u \in Thread : t # u /\ Locked(t) /\ Locked(u) => HashOf(t) # HashOf(u)

(***************************************************************************)
(* BufferInv: a block has one buffer; it is in the hash list of its        *)
(* number, or with the thread that is still reading it.                    *)
(***************************************************************************)
BufferInv ==
    /\ \A b \in Buffers : b[1] = buffer[b].num
    /\ \A b, c \in Buffers : b # c => buffer[b].num # buffer[c].num
    /\ \A b \in Buffers : InHash(b) \/ \E t \in Thread : Reading(t) /\ bufp[t] = b
    /\ \A t \in Thread : Reading(t) => ~InHash(bufp[t])
    /\ \A h \in Slot : \A i \in DOMAIN hash[h] : BLOCK_NUM_HASH(buffer[hash[h][i]].num) = h
    /\ \A h \in Slot : \A i, j \in DOMAIN hash[h] : i # j => hash[h][i] # hash[h][j]

\* LruInv: the LRU list has the buffers that nobody has.
LruInv == \A b \in Buffers : b \in lru <=> \A t \in Thread : Holding(t) => bufp[t] # b

(***************************************************************************)
(* RequestInv: a thread that waits for the disk has its request in the     *)
(* queue, or the answer under way, or the unit of block_sig: one of them;  *)
(* with the unit goes the reply.                                           *)
(***************************************************************************)
Mine(t, r) == r # NoReply /\ r.num = blk[t] /\ r.by = t /\ r.write = writing[t]

RequestInv ==
    /\ \A i \in DOMAIN requests :
          LET r == requests[i]
          IN  pc[r.by] = "await" /\ r.num = blk[r.by] /\ r.buf = bufp[r.by] /\ r.write = writing[r.by]
    /\ \A i, j \in DOMAIN requests : i # j => requests[i].by # requests[j].by
    /\ \A t \in Thread : Answered(t) => At(t, "await") /\ Mine(t, interrupt) /\ ~Requested(t)
    /\ \A h \in Slot : block_sig[h] = 1 =>
          \E t \in Thread : /\ At(t, "await") /\ HashOf(t) = h /\ Mine(t, reply[h])
                            /\ ~Requested(t) /\ ~Answered(t)
    /\ \A t \in Thread : At(t, "reply") => Mine(t, reply[HashOf(t)])

(***************************************************************************)
(* LimitInv: the units of disk_lim are in its count or with the threads    *)
(* between its P and its V, of which those with a request are a part.      *)
(***************************************************************************)
Limited == {t \in Thread : pc[t] \in IoPc \ {"limit"}}
Queued == {t \in Thread : Requested(t)}

LimitInv ==
    /\ IsFiniteSet(Limited) /\ disk_lim + Cardinality(Limited) = MaxPending
    /\ Len(requests) = Cardinality(Queued)

(***************************************************************************)
(* DataInv: as long as no request of a block has failed, what was last     *)
(* written to it is on the disk when no thread has it and it is not dirty, *)
(* and in its buffer when the buffer was read.                             *)
(***************************************************************************)
Fresh(b) == LET n == buffer[b].num IN n < DiskSize /\ buffer[b].data = latest[n]
Stored(n) == n < DiskSize => disk[n] = latest[n]
Settled(b) == Fresh(b) /\ (buffer[b].state # "DIRTY" => Stored(buffer[b].num))

DataInv ==
    /\ \A n \in Block \ failed : (\A b \in Buffers : buffer[b].num # n) => Stored(n)
    /\ \A b \in lru : buffer[b].num \notin failed => Settled(b)
    /\ \A t \in Thread : pc[t] \in {"held", "release"} /\ blk[t] \notin failed => Settled(bufp[t])
    /\ \A t \in Thread : Reading(t) /\ blk[t] \notin failed =>
          Stored(blk[t]) /\ (Served(t) => Fresh(bufp[t]))
    /\ \A t \in Thread : Writing(t) /\ blk[t] \notin failed =>
          Fresh(bufp[t]) /\ (Served(t) => Stored(blk[t]))
    /\ \A t \in Thread : Writing(t) => buffer[bufp[t]].data \in Value

IInv == TypeInv /\ CallInv /\ LockInv /\ BufferInv /\ LruInv /\ RequestInv /\ LimitInv /\ DataInv
-----------------------------------------------------------------------------
\* Every block has a hash list.
LEMMA HashType == \A n \in Block : BLOCK_NUM_HASH(n) \in Slot
  BY BufferAssumption, Z3 DEF BLOCK_NUM_HASH, Slot

(***************************************************************************)
(* What RemoveAt does to a sequence: the ones behind move up by one.       *)
(***************************************************************************)
LEMMA RemoveFacts ==
    ASSUME NEW S, NEW s \in Seq(S), NEW i \in 1 .. Len(s)
    PROVE  /\ RemoveAt(s, i) \in Seq(S)
           /\ Len(RemoveAt(s, i)) = Len(s) - 1
           /\ \A j \in 1 .. Len(s) - 1 : RemoveAt(s, i)[j] = (IF j < i THEN s[j] ELSE s[j + 1])
<1> DEFINE a == SubSeq(s, 1, i - 1)
           b == SubSeq(s, i + 1, Len(s))
<1>1. RemoveAt(s, i) = a \o b
  BY DEF RemoveAt
<1>2. a \in Seq(S) /\ Len(a) = i - 1 /\ \A j \in 1 .. i - 1 : a[j] = s[j]
  BY SubSeqProperties
<1>3. b \in Seq(S) /\ Len(b) = Len(s) - i /\ \A j \in 1 .. Len(s) - i : b[j] = s[i + j]
  BY SubSeqProperties
<1> HIDE DEF a, b
<1>4. /\ a \o b \in Seq(S)
      /\ Len(a \o b) = Len(s) - 1
      /\ \A j \in 1 .. Len(s) - 1 : (a \o b)[j] = (IF j < i THEN a[j] ELSE b[j - (i - 1)])
  <2>1. /\ a \o b \in Seq(S)
        /\ Len(a \o b) = Len(a) + Len(b)
        /\ \A j \in 1 .. Len(a) + Len(b) : (a \o b)[j] = (IF j <= Len(a) THEN a[j] ELSE b[j - Len(a)])
    BY <1>2, <1>3, ConcatProperties
  <2>2. Len(a) + Len(b) = Len(s) - 1 /\ \A j \in Nat : j < i <=> j <= Len(a)
    BY <1>2, <1>3
  <2> QED
    BY <2>1, <2>2, <1>2, SMTT(30)
<1>5. \A j \in 1 .. Len(s) - 1 : (a \o b)[j] = (IF j < i THEN s[j] ELSE s[j + 1])
  BY <1>2, <1>3, <1>4
<1> QED
  BY <1>1, <1>4, <1>5

\* A thread that is not idle has asked for a block, and so for a hash list.
LEMMA Asked ==
    ASSUME TypeInv, CallInv, NEW t \in Thread, pc[t] # "idle"
    PROVE  blk[t] \in Block /\ HashOf(t) \in Slot /\ blk[t] \in Nat
  BY HashType, BufferAssumption DEF TypeInv, CallInv, HashOf

\* The threads that have a block of a hash list: one at most.
LEMMA OneHolder ==
    ASSUME TypeInv, CallInv, LockInv, NEW t \in Thread, NEW u \in Thread, Locked(t), Locked(u),
           HashOf(t) = HashOf(u) \/ blk[t] = blk[u]
    PROVE  t = u
  BY DEF LockInv, HashOf

(***************************************************************************)
(* hash_find: a buffer that is found is the one of the block, and when     *)
(* none is found the block has no buffer, not even one that is being read. *)
(***************************************************************************)
LEMMA FirstFacts ==
    ASSUME IInv, NEW t \in Thread, At(t, "find"), Found(blk[t]) # {}
    PROVE  /\ First(blk[t]) \in Buffers
           /\ buffer[First(blk[t])].num = blk[t]
           /\ InHash(First(blk[t]))
<1> DEFINE n == blk[t]
           h == BLOCK_NUM_HASH(n)
<1>1. n \in Block /\ h \in Slot
  BY Asked DEF IInv, At, HashOf
<1>2. hash[h] \in Seq(Buffers)
  BY <1>1 DEF IInv, TypeInv
<1>3. PICK i \in Found(n) : TRUE
  OBVIOUS
<1>4. i \in DOMAIN hash[h] /\ buffer[hash[h][i]].num = n
  BY <1>3 DEF Found
<1>5. \A j \in Found(n) : j = i
  <2>1. SUFFICES ASSUME NEW j \in DOMAIN hash[h], buffer[hash[h][j]].num = n PROVE j = i
    BY DEF Found
  <2>2. hash[h][i] \in Buffers /\ hash[h][j] \in Buffers
    BY <1>2, <1>4, ElementOfSeq
  <2>3. hash[h][i] = hash[h][j]
    BY <2>1, <2>2, <1>4 DEF IInv, BufferInv
  <2> QED
    BY <2>1, <2>3, <1>1, <1>4 DEF IInv, BufferInv
<1>6. i \in Nat
  BY <1>2, <1>4
<1>7. (CHOOSE k \in Found(n) : \A j \in Found(n) : k <= j) = i
  <2>1. \E k \in Found(n) : \A j \in Found(n) : k <= j
    BY <1>3, <1>5, <1>6
  <2> QED
    BY <2>1, <1>5, Zenon
<1>8. First(n) = hash[h][i]
  BY <1>7 DEF First
<1>9. hash[h][i] \in Buffers
  BY <1>2, <1>4, ElementOfSeq
<1> QED
  BY <1>1, <1>4, <1>8, <1>9 DEF InHash

LEMMA MissFacts ==
    ASSUME IInv, NEW t \in Thread, At(t, "find"), Found(blk[t]) = {}
    PROVE  /\ \A b \in Buffers : buffer[b].num # blk[t]
           /\ NewBuffer(blk[t]) \notin Buffers
           /\ NewBuffer(blk[t])[1] = blk[t]
<1> DEFINE n == blk[t]
           h == BLOCK_NUM_HASH(n)
<1>1. n \in Block /\ h \in Slot
  BY Asked DEF IInv, At, HashOf
<1>2. ASSUME NEW b \in Buffers, buffer[b].num = n PROVE FALSE
  <2>1. CASE InHash(b)
    <3>1. PICK g \in Slot : \E i \in DOMAIN hash[g] : hash[g][i] = b
      BY <2>1 DEF InHash
    <3>2. PICK i \in DOMAIN hash[g] : hash[g][i] = b
      BY <3>1
    <3>3. g = h
      BY <3>2, <1>2 DEF IInv, BufferInv
    <3> QED
      BY <3>2, <3>3, <1>2 DEF Found
  <2>2. CASE \E u \in Thread : Reading(u) /\ bufp[u] = b
    <3>1. PICK u \in Thread : Reading(u) /\ bufp[u] = b
      BY <2>2
    <3>2. HasBuffer(u) /\ Locked(u) /\ u # t
      BY <3>1 DEF Reading, IoPc, HasBuffer, Locked, At
    <3>3. blk[u] = n
      BY <3>1, <3>2, <1>2 DEF IInv, CallInv
    <3>4. Locked(t)
      BY DEF At, Locked
    <3> QED
      BY <3>2, <3>3, <3>4, OneHolder DEF IInv
  <2> QED
    BY <2>1, <2>2, <1>2 DEF IInv, BufferInv
<1>3. NewBuffer(n)[1] = n
  BY DEF NewBuffer
<1>4. NewBuffer(n) \notin Buffers
  BY <1>2, <1>3 DEF IInv, BufferInv
<1> QED
  BY <1>2, <1>3, <1>4
-----------------------------------------------------------------------------
(***************************************************************************)
(* The types are kept.  A count stays at most 1 because of what the others *)
(* say of who has its unit; what is written to the disk was written by a   *)
(* program, as a buffer that is being written was filled.                  *)
(***************************************************************************)
LEMMA SameBuffers ==
    ASSUME DOMAIN buffer' = DOMAIN buffer
    PROVE  Buffers' = Buffers /\ Requests' = Requests /\ Answers' = Answers
  BY DEF Buffers, Requests, Answers

LEMMA TypeStep == ASSUME IInv, [Next]_vars PROVE TypeInv'
<1> USE DEF Goto, At, Pc
<1>0. TypeInv
  BY DEF IInv
<1>1. ASSUME NEW t \in Thread, NEW n \in Block, Bread(t, n) PROVE TypeInv'
  BY <1>1, <1>0, SameBuffers DEF Bread, TypeInv, cacheVars, ioVars, diskVars
<1>2. ASSUME NEW t \in Thread, LockBlock(t) PROVE TypeInv'
  <2>0. Buffers' = Buffers /\ Requests' = Requests /\ Answers' = Answers
    BY <1>2, SameBuffers DEF LockBlock, cacheVars, ioVars, diskVars
  <2>1. HashOf(t) \in Slot
    BY <1>2, Asked DEF LockBlock, IInv
  <2>2. block_lock[HashOf(t)] - 1 \in 0 .. 1
    BY <1>2, <2>1, <1>0 DEF LockBlock, TypeInv
  <2>3. block_lock' \in [Slot -> 0 .. 1]
    BY <1>2, <2>1, <2>2, <1>0 DEF LockBlock, TypeInv
  <2> QED
    BY <1>2, <1>0, <2>0, <2>3 DEF LockBlock, TypeInv, ioVars, diskVars
<1>3. ASSUME NEW t \in Thread, FindHit(t) PROVE TypeInv'
  <2>0. Buffers' = Buffers /\ Requests' = Requests /\ Answers' = Answers
    BY <1>3, SameBuffers DEF FindHit, cacheVars, ioVars, diskVars
  <2>1. First(blk[t]) \in Buffers
    BY <1>3, FirstFacts DEF FindHit
  <2>2. bufp' \in [Thread -> Buffers \cup {NoBuffer}] /\ lru' \subseteq Buffers
    BY <1>3, <2>1, <1>0 DEF FindHit, TypeInv
  <2> QED
    BY <1>3, <1>0, <2>0, <2>2 DEF FindHit, TypeInv, ioVars, diskVars
<1>4. ASSUME NEW t \in Thread, FindMiss(t) PROVE TypeInv'
  <2> DEFINE b == NewBuffer(blk[t])
  <2>1. Buffers' = Buffers \cup {b} /\ blk[t] \in Block
    BY <1>4, Asked DEF FindMiss, Buffers, IInv
  <2>2. Requests \subseteq Requests' /\ Answers' = Answers
    BY <2>1 DEF Requests, Answers
  <2>3. requests' \in Seq(Requests') /\ hash' \in [Slot -> Seq(Buffers')]
    <3>1. Seq(Requests) \subseteq Seq(Requests') /\ Seq(Buffers) \subseteq Seq(Buffers')
      BY <2>1, <2>2, SeqMonotonic
    <3> QED
      BY <1>4, <3>1, <1>0 DEF FindMiss, TypeInv, ioVars, diskVars
  <2>4. bufp' \in [Thread -> Buffers' \cup {NoBuffer}] /\ lru' \subseteq Buffers'
    BY <1>4, <2>1, <1>0 DEF FindMiss, TypeInv
  <2>5. buffer' \in [Buffers' -> [num : Block, data : Value \cup {Junk}, state : {"CLEAN", "DIRTY", Junk}]]
    <3>1. [num |-> blk[t], data |-> Junk, state |-> Junk]
              \in [num : Block, data : Value \cup {Junk}, state : {"CLEAN", "DIRTY", Junk}]
      BY <2>1
    <3> QED
      BY <1>4, <2>1, <3>1, <1>0 DEF FindMiss, TypeInv
  <2> QED
    BY <1>4, <1>0, <2>2, <2>3, <2>4, <2>5 DEF FindMiss, TypeInv, ioVars, diskVars
<1>5. ASSUME NEW t \in Thread, Limit(t) PROVE TypeInv'
  BY <1>5, <1>0, SameBuffers DEF Limit, TypeInv, cacheVars, ioVars, diskVars
<1>6. ASSUME NEW t \in Thread, LockDisk(t) PROVE TypeInv'
  BY <1>6, <1>0, SameBuffers DEF LockDisk, TypeInv, cacheVars, ioVars, diskVars
<1>7. ASSUME NEW t \in Thread, Enqueue(t) PROVE TypeInv'
  <2>0. Buffers' = Buffers /\ Requests' = Requests /\ Answers' = Answers
    BY <1>7, SameBuffers DEF Enqueue, cacheVars, ioVars, diskVars
  <2>1. blk[t] \in Block /\ bufp[t] \in Buffers /\ writing[t] \in BOOLEAN
    BY <1>7, Asked, <1>0 DEF Enqueue, IInv, CallInv, HasBuffer, TypeInv
  <2>2. [num |-> blk[t], by |-> t, buf |-> bufp[t], write |-> writing[t]] \in Requests
    BY <2>1 DEF Requests
  <2>3. requests' \in Seq(Requests)
    BY <1>7, <2>2, <1>0, AppendProperties DEF Enqueue, TypeInv
  <2> QED
    BY <1>7, <1>0, <2>0, <2>3 DEF Enqueue, TypeInv, cacheVars
<1>8. ASSUME NEW t \in Thread, Await(t) PROVE TypeInv'
  <2>0. Buffers' = Buffers /\ Requests' = Requests /\ Answers' = Answers
    BY <1>8, SameBuffers DEF Await, cacheVars, ioVars, diskVars
  <2>1. HashOf(t) \in Slot
    BY <1>8, Asked DEF Await, IInv
  <2>2. block_sig' \in [Slot -> 0 .. 1]
    BY <1>8, <2>1, <1>0 DEF Await, TypeInv
  <2> QED
    BY <1>8, <1>0, <2>0, <2>2 DEF Await, TypeInv, cacheVars, diskVars
<1>9. ASSUME NEW t \in Thread, Reply(t) PROVE TypeInv'
  <2>0. Buffers' = Buffers /\ Requests' = Requests /\ Answers' = Answers
    BY <1>9, SameBuffers DEF Reply
  <2>1. pc' \in [Thread -> Pc] /\ disk_lim' \in Nat
    BY <1>9, <1>0 DEF Reply, TypeInv
  <2>2. reply' \in [Slot -> Answers \cup {NoReply}]
    BY <1>9, <1>0 DEF Reply, TypeInv
  <2>3. buffer' \in [Buffers -> [num : Block, data : Value \cup {Junk}, state : {"CLEAN", "DIRTY", Junk}]]
    <3>1. CASE buffer' = buffer
      BY <3>1, <1>0 DEF TypeInv
    <3>2. CASE buffer' = [buffer EXCEPT ![bufp[t]].state = "CLEAN"]
      BY <3>2, <1>0, ZenonT(30) DEF TypeInv
    <3> QED
      BY <1>9, <3>1, <3>2 DEF Reply
  <2> QED
    BY <1>9, <1>0, <2>0, <2>1, <2>2, <2>3 DEF Reply, TypeInv, diskVars
<1>10. ASSUME NEW t \in Thread, Add(t) PROVE TypeInv'
  <2>0. Buffers' = Buffers /\ Requests' = Requests /\ Answers' = Answers
    BY <1>10, SameBuffers DEF Add, cacheVars, ioVars, diskVars
  <2>1. HashOf(t) \in Slot /\ bufp[t] \in Buffers
    BY <1>10, Asked DEF Add, IInv, CallInv, HasBuffer
  <2>2. <<bufp[t]>> \o hash[HashOf(t)] \in Seq(Buffers)
    BY <2>1, <1>0, ConcatProperties DEF TypeInv
  <2>3. hash' \in [Slot -> Seq(Buffers)]
    BY <1>10, <2>2, <1>0 DEF Add, TypeInv
  <2> QED
    BY <1>10, <1>0, <2>0, <2>3 DEF Add, TypeInv, ioVars, diskVars
<1>11. ASSUME NEW t \in Thread, Pull(t) PROVE TypeInv'
  BY <1>11, <1>0, SameBuffers DEF Pull, TypeInv, cacheVars, ioVars, diskVars
<1>12. ASSUME NEW t \in Thread, NEW v \in Value, Push(t, v) PROVE TypeInv'
  <2>0. Buffers' = Buffers /\ Requests' = Requests /\ Answers' = Answers
    BY <1>12, SameBuffers DEF Push, Fill
  <2>1. pc' \in [Thread -> Pc] /\ writing' \in [Thread -> BOOLEAN]
    BY <1>12, <1>0 DEF Push, TypeInv
  <2>2. bufp[t] \in Buffers /\ blk[t] \in Block
    BY <1>12, Asked DEF Push, IInv, CallInv, HasBuffer
  <2>3. buffer' \in [Buffers -> [num : Block, data : Value \cup {Junk}, state : {"CLEAN", "DIRTY", Junk}]]
    BY <1>12, <2>2, <1>0 DEF Push, Fill, TypeInv
  <2>4. latest' \in [Block -> Value \cup {Junk}]
    BY <1>12, <1>0 DEF Push, Fill, TypeInv
  <2> QED
    BY <1>12, <1>0, <2>0, <2>1, <2>3, <2>4 DEF Push, TypeInv, ioVars, diskVars
<1>13. ASSUME NEW t \in Thread, NEW v \in Value, DelayedPush(t, v) PROVE TypeInv'
  <2>0. Buffers' = Buffers /\ Requests' = Requests /\ Answers' = Answers
    BY <1>13, SameBuffers DEF DelayedPush, Fill
  <2>1. pc' \in [Thread -> Pc] /\ writing' \in [Thread -> BOOLEAN]
    BY <1>13, <1>0 DEF DelayedPush, TypeInv
  <2>2. bufp[t] \in Buffers /\ blk[t] \in Block
    BY <1>13, Asked DEF DelayedPush, IInv, CallInv, HasBuffer
  <2>3. buffer' \in [Buffers -> [num : Block, data : Value \cup {Junk}, state : {"CLEAN", "DIRTY", Junk}]]
    BY <1>13, <2>2, <1>0 DEF DelayedPush, Fill, TypeInv
  <2>4. latest' \in [Block -> Value \cup {Junk}]
    BY <1>13, <1>0 DEF DelayedPush, Fill, TypeInv
  <2> QED
    BY <1>13, <1>0, <2>0, <2>1, <2>3, <2>4 DEF DelayedPush, TypeInv, ioVars, diskVars
<1>14. ASSUME NEW t \in Thread, Release(t) PROVE TypeInv'
  <2>0. Buffers' = Buffers /\ Requests' = Requests /\ Answers' = Answers
    BY <1>14, SameBuffers DEF Release, cacheVars, ioVars, diskVars
  <2>1. bufp[t] \in Buffers
    BY <1>14 DEF Release, IInv, CallInv, HasBuffer
  <2> QED
    BY <1>14, <1>0, <2>0, <2>1 DEF Release, TypeInv, ioVars, diskVars
<1>15. ASSUME NEW t \in Thread, Unlock(t) PROVE TypeInv'
  <2>0. Buffers' = Buffers /\ Requests' = Requests /\ Answers' = Answers
    BY <1>15, SameBuffers DEF Unlock, cacheVars, ioVars, diskVars
  <2>1. bufp[t] \in Buffers /\ buffer[bufp[t]].num = blk[t]
    BY <1>15 DEF Unlock, IInv, CallInv, HasBuffer
  <2>2. HashOf(t) \in Slot /\ block_lock[HashOf(t)] = 0
    BY <1>15, Asked DEF Unlock, IInv, LockInv, Locked
  <2>3. block_lock' \in [Slot -> 0 .. 1]
    BY <1>15, <2>1, <2>2, <1>0 DEF Unlock, HashOf, TypeInv
  <2> QED
    BY <1>15, <1>0, <2>0, <2>3 DEF Unlock, TypeInv, ioVars, diskVars
<1>16. ASSUME NEW i \in 1 .. 2, Serve(i) PROVE TypeInv'
  <2> DEFINE r == requests[i]
  <2>0. i \in 1 .. Len(requests) /\ i \in DOMAIN requests
    BY <1>16, <1>0 DEF Serve, TypeInv
  <2>1. r \in Requests
    BY <2>0, <1>0, ElementOfSeq DEF TypeInv
  <2>2. Buffers' = Buffers /\ Requests' = Requests /\ Answers' = Answers
    BY <1>16, SameBuffers DEF Serve, Transfer, Fail
  <2>3. requests' \in Seq(Requests)
    BY <1>16, <2>0, <1>0, RemoveFacts DEF Serve, TypeInv
  <2>4. interrupt' \in Answers
    <3>1. PICK ok \in BOOLEAN : interrupt' = [num |-> r.num, by |-> r.by, write |-> r.write, ok |-> ok]
      BY <1>16 DEF Serve, Transfer, Fail, Answer
    <3> QED
      BY <2>1, <3>1 DEF Requests, Answers
  <2>5. r.write => buffer[r.buf].data \in Value
    BY <2>0, <2>1 DEF IInv, RequestInv, DataInv, Writing, IoPc, Requests
  <2>6. disk' \in [0 .. DiskSize - 1 -> Value]
    BY <1>16, <2>1, <2>5, <1>0 DEF Serve, Transfer, Fail, TypeInv
  <2>7. buffer' \in [Buffers -> [num : Block, data : Value \cup {Junk}, state : {"CLEAN", "DIRTY", Junk}]]
    <3>1. r.num < DiskSize => disk[r.num] \in Value
      BY <2>1, <1>0, BufferAssumption, SMTT(30) DEF TypeInv, Requests
    <3>2. CASE buffer' = buffer
      BY <3>2, <1>0 DEF TypeInv
    <3>3. CASE r.num < DiskSize /\ buffer' = [buffer EXCEPT ![r.buf].data = disk[r.num]]
      BY <3>1, <3>3, <1>0, ZenonT(30) DEF TypeInv
    <3> QED
      BY <1>16, <3>2, <3>3 DEF Serve, Transfer, Fail
  <2>8. failed' \subseteq Block
    <3>1. failed' = failed \/ failed' = failed \cup {r.num}
      BY <1>16 DEF Serve, Transfer, Fail
    <3> QED
      BY <2>1, <3>1, <1>0 DEF TypeInv, Requests
  <2> QED
    BY <1>16, <1>0, <2>2, <2>3, <2>4, <2>6, <2>7, <2>8 DEF Serve, TypeInv, threadVars
<1>17. ASSUME Handle PROVE TypeInv'
  <2>0. Buffers' = Buffers /\ Requests' = Requests /\ Answers' = Answers
    BY <1>17, SameBuffers DEF Handle, cacheVars, ioVars, diskVars
  <2> DEFINE h == BLOCK_NUM_HASH(interrupt.num)
  <2>1. interrupt \in Answers /\ interrupt # NoReply
    BY <1>17, <1>0 DEF Handle, TypeInv
  <2>2. interrupt.by \in Thread /\ Answered(interrupt.by) /\ h \in Slot
    BY <2>1, HashType DEF Answers, Answered
  <2>3. block_sig[h] # 1
    <3>1. SUFFICES ASSUME block_sig[h] = 1 PROVE FALSE
      OBVIOUS
    <3>2. PICK u \in Thread : At(u, "await") /\ HashOf(u) = h /\ ~Answered(u)
      BY <3>1, <2>2 DEF IInv, RequestInv
    <3>3. At(interrupt.by, "await") /\ HashOf(interrupt.by) = h
      BY <2>2 DEF IInv, RequestInv, Mine, HashOf
    <3> QED
      BY <3>2, <3>3, <2>2, OneHolder DEF IInv, Locked
  <2>4. block_sig' \in [Slot -> 0 .. 1]
    BY <1>17, <2>2, <2>3, <1>0 DEF Handle, TypeInv
  <2>5. reply' \in [Slot -> Answers \cup {NoReply}]
    BY <1>17, <2>1, <1>0 DEF Handle, TypeInv
  <2> QED
    BY <1>17, <1>0, <2>0, <2>4, <2>5 DEF Handle, TypeInv, cacheVars, threadVars
<1>18. CASE UNCHANGED vars
  BY <1>18, <1>0 DEF TypeInv, vars, threadVars, cacheVars, ioVars, diskVars, Buffers, Answers, Requests
<1> QED
  BY <1>1, <1>2, <1>3, <1>4, <1>5, <1>6, <1>7, <1>8, <1>9, <1>10, <1>11, <1>12, <1>13, <1>14, <1>15, <1>16, <1>17, <1>18 DEF Next, Step, Continue, GiveBack
-----------------------------------------------------------------------------
\* No step takes a buffer away or gives it another number.
LEMMA NumsKept == ASSUME IInv, [Next]_vars PROVE \A b \in Buffers : b \in Buffers' /\ buffer'[b].num = buffer[b].num
<1> USE DEF Goto, At, Pc
<1>0. TypeInv /\ TypeInv'
  BY TypeStep DEF IInv
<1>1. ASSUME NEW t \in Thread, NEW n \in Block, Bread(t, n) PROVE \A b \in Buffers : b \in Buffers' /\ buffer'[b].num = buffer[b].num
  BY <1>1 DEF Bread, cacheVars, Buffers
<1>2. ASSUME NEW t \in Thread, LockBlock(t) PROVE \A b \in Buffers : b \in Buffers' /\ buffer'[b].num = buffer[b].num
  BY <1>2 DEF LockBlock, cacheVars, Buffers
<1>3. ASSUME NEW t \in Thread, FindHit(t) PROVE \A b \in Buffers : b \in Buffers' /\ buffer'[b].num = buffer[b].num
  BY <1>3 DEF FindHit, cacheVars, Buffers
<1>4. ASSUME NEW t \in Thread, FindMiss(t) PROVE \A b \in Buffers : b \in Buffers' /\ buffer'[b].num = buffer[b].num
  BY <1>4, MissFacts DEF FindMiss, Buffers
<1>5. ASSUME NEW t \in Thread, Limit(t) PROVE \A b \in Buffers : b \in Buffers' /\ buffer'[b].num = buffer[b].num
  BY <1>5 DEF Limit, cacheVars, Buffers
<1>6. ASSUME NEW t \in Thread, LockDisk(t) PROVE \A b \in Buffers : b \in Buffers' /\ buffer'[b].num = buffer[b].num
  BY <1>6 DEF LockDisk, cacheVars, Buffers
<1>7. ASSUME NEW t \in Thread, Enqueue(t) PROVE \A b \in Buffers : b \in Buffers' /\ buffer'[b].num = buffer[b].num
  BY <1>7 DEF Enqueue, cacheVars, Buffers
<1>8. ASSUME NEW t \in Thread, Await(t) PROVE \A b \in Buffers : b \in Buffers' /\ buffer'[b].num = buffer[b].num
  BY <1>8 DEF Await, cacheVars, Buffers
<1>9. ASSUME NEW t \in Thread, Reply(t) PROVE \A b \in Buffers : b \in Buffers' /\ buffer'[b].num = buffer[b].num
  <2>1. CASE buffer' = buffer
    BY <2>1 DEF Buffers
  <2>2. CASE buffer' = [buffer EXCEPT ![bufp[t]].state = "CLEAN"]
    BY <2>2, <1>0 DEF TypeInv, Buffers
  <2> QED
    BY <1>9, <2>1, <2>2 DEF Reply
<1>10. ASSUME NEW t \in Thread, Add(t) PROVE \A b \in Buffers : b \in Buffers' /\ buffer'[b].num = buffer[b].num
  BY <1>10 DEF Add, cacheVars, Buffers
<1>11. ASSUME NEW t \in Thread, Pull(t) PROVE \A b \in Buffers : b \in Buffers' /\ buffer'[b].num = buffer[b].num
  BY <1>11 DEF Pull, cacheVars, Buffers
<1>12. ASSUME NEW t \in Thread, NEW v \in Value, Push(t, v) PROVE \A b \in Buffers : b \in Buffers' /\ buffer'[b].num = buffer[b].num
  BY <1>12, <1>0 DEF Push, Fill, TypeInv, Buffers
<1>13. ASSUME NEW t \in Thread, NEW v \in Value, DelayedPush(t, v) PROVE \A b \in Buffers : b \in Buffers' /\ buffer'[b].num = buffer[b].num
  BY <1>13, <1>0 DEF DelayedPush, Fill, TypeInv, Buffers
<1>14. ASSUME NEW t \in Thread, Release(t) PROVE \A b \in Buffers : b \in Buffers' /\ buffer'[b].num = buffer[b].num
  BY <1>14 DEF Release, cacheVars, Buffers
<1>15. ASSUME NEW t \in Thread, Unlock(t) PROVE \A b \in Buffers : b \in Buffers' /\ buffer'[b].num = buffer[b].num
  BY <1>15 DEF Unlock, cacheVars, Buffers
<1>16. ASSUME NEW i \in 1 .. 2, Serve(i) PROVE \A b \in Buffers : b \in Buffers' /\ buffer'[b].num = buffer[b].num
  <2>1. CASE buffer' = buffer
    BY <2>1 DEF Buffers
  <2>2. CASE buffer' = [buffer EXCEPT ![requests[i].buf].data = disk[requests[i].num]]
    BY <2>2, <1>0 DEF TypeInv, Buffers
  <2> QED
    BY <1>16, <2>1, <2>2 DEF Serve, Transfer, Fail
<1>17. ASSUME Handle PROVE \A b \in Buffers : b \in Buffers' /\ buffer'[b].num = buffer[b].num
  BY <1>17 DEF Handle, cacheVars, Buffers
<1>18. CASE UNCHANGED vars
  BY <1>18 DEF vars, cacheVars, Buffers
<1> QED
  BY <1>1, <1>2, <1>3, <1>4, <1>5, <1>6, <1>7, <1>8, <1>9, <1>10, <1>11, <1>12, <1>13, <1>14, <1>15, <1>16, <1>17, <1>18 DEF Next, Step, Continue, GiveBack

(***************************************************************************)
(* Where a thread is says what it has.                                     *)
(***************************************************************************)
LEMMA CallStep == ASSUME IInv, [Next]_vars PROVE CallInv'
<1> USE DEF Goto, At, Pc, IoPc
<1>0. TypeInv /\ TypeInv'
  BY TypeStep DEF IInv
<1>1. ASSUME NEW t \in Thread, NEW n \in Block, Bread(t, n) PROVE CallInv'
  <2>1. n # NULL
    BY BufferAssumption DEF NULL
  <2> QED
    BY <1>1, <2>1, <1>0, NumsKept DEF Bread, IInv, CallInv, TypeInv, HasBuffer
<1>2. ASSUME NEW t \in Thread, LockBlock(t) PROVE CallInv'
  BY <1>2, <1>0, NumsKept DEF LockBlock, IInv, CallInv, TypeInv, HasBuffer
<1>3. ASSUME NEW t \in Thread, FindHit(t) PROVE CallInv'
  <2>1. First(blk[t]) \in Buffers /\ buffer[First(blk[t])].num = blk[t]
    BY <1>3, FirstFacts DEF FindHit
  <2> QED
    BY <1>3, <2>1, <1>0, NumsKept DEF FindHit, IInv, CallInv, TypeInv, HasBuffer
<1>4. ASSUME NEW t \in Thread, FindMiss(t) PROVE CallInv'
  <2>1. NewBuffer(blk[t]) \in Buffers' /\ buffer'[NewBuffer(blk[t])].num = blk[t]
    BY <1>4 DEF FindMiss, Buffers
  <2> QED
    BY <1>4, <2>1, <1>0, NumsKept DEF FindMiss, IInv, CallInv, TypeInv, HasBuffer
<1>5. ASSUME NEW t \in Thread, Limit(t) PROVE CallInv'
  BY <1>5, <1>0, NumsKept DEF Limit, IInv, CallInv, TypeInv, HasBuffer
<1>6. ASSUME NEW t \in Thread, LockDisk(t) PROVE CallInv'
  <2>1. pc'[t] \in {"hung", "enqueue"} /\ \A u \in Thread : u # t => pc'[u] = pc[u]
    BY <1>6, <1>0 DEF LockDisk, TypeInv
  <2> QED
    BY <1>6, <2>1, <1>0, NumsKept DEF LockDisk, IInv, CallInv, HasBuffer
<1>7. ASSUME NEW t \in Thread, Enqueue(t) PROVE CallInv'
  BY <1>7, <1>0, NumsKept DEF Enqueue, IInv, CallInv, TypeInv, HasBuffer
<1>8. ASSUME NEW t \in Thread, Await(t) PROVE CallInv'
  BY <1>8, <1>0, NumsKept DEF Await, IInv, CallInv, TypeInv, HasBuffer
<1>9. ASSUME NEW t \in Thread, Reply(t) PROVE CallInv'
  BY <1>9, <1>0, NumsKept DEF Reply, IInv, CallInv, TypeInv, HasBuffer
<1>10. ASSUME NEW t \in Thread, Add(t) PROVE CallInv'
  BY <1>10, <1>0, NumsKept DEF Add, IInv, CallInv, TypeInv, HasBuffer
<1>11. ASSUME NEW t \in Thread, Pull(t) PROVE CallInv'
  BY <1>11, <1>0, NumsKept DEF Pull, IInv, CallInv, TypeInv, HasBuffer
<1>12. ASSUME NEW t \in Thread, NEW v \in Value, Push(t, v) PROVE CallInv'
  BY <1>12, <1>0, NumsKept DEF Push, IInv, CallInv, TypeInv, HasBuffer
<1>13. ASSUME NEW t \in Thread, NEW v \in Value, DelayedPush(t, v) PROVE CallInv'
  BY <1>13, <1>0, NumsKept DEF DelayedPush, IInv, CallInv, TypeInv, HasBuffer
<1>14. ASSUME NEW t \in Thread, Release(t) PROVE CallInv'
  BY <1>14, <1>0, NumsKept DEF Release, IInv, CallInv, TypeInv, HasBuffer
<1>15. ASSUME NEW t \in Thread, Unlock(t) PROVE CallInv'
  BY <1>15, <1>0, NumsKept DEF Unlock, IInv, CallInv, TypeInv, HasBuffer
<1>16. ASSUME NEW i \in 1 .. 2, Serve(i) PROVE CallInv'
  BY <1>16, <1>0, NumsKept DEF Serve, threadVars, IInv, CallInv, TypeInv, HasBuffer
<1>17. ASSUME Handle PROVE CallInv'
  BY <1>17, <1>0, NumsKept DEF Handle, threadVars, IInv, CallInv, TypeInv, HasBuffer
<1>18. CASE UNCHANGED vars
  BY <1>18, <1>0, NumsKept DEF vars, threadVars, IInv, CallInv, TypeInv, HasBuffer
<1> QED
  BY <1>1, <1>2, <1>3, <1>4, <1>5, <1>6, <1>7, <1>8, <1>9, <1>10, <1>11, <1>12, <1>13, <1>14, <1>15, <1>16, <1>17, <1>18 DEF Next, Step, Continue, GiveBack

\* The unit of block_lock moves only in bread's P and in brelse's V.
LEMMA SameLocks ==
    ASSUME LockInv, blk' = blk, block_lock' = block_lock,
           \A t \in Thread : Locked(t)' <=> Locked(t)
    PROVE  LockInv'
  BY DEF LockInv, HashOf

(***************************************************************************)
(* The unit of a block_lock is in one place.                               *)
(***************************************************************************)
LEMMA LockStep == ASSUME IInv, [Next]_vars PROVE LockInv'
<1> USE DEF Goto, At, Pc
<1>0. TypeInv /\ TypeInv'
  BY TypeStep DEF IInv
<1>1. ASSUME NEW t \in Thread, NEW n \in Block, Bread(t, n) PROVE LockInv'
  <2>1. \A u \in Thread : Locked(u)' => u # t /\ Locked(u) /\ HashOf(u)' = HashOf(u)
    BY <1>1, <1>0 DEF Bread, Locked, HashOf, TypeInv
  <2> QED
    BY <1>1, <2>1 DEF Bread, cacheVars, IInv, LockInv
<1>2. ASSUME NEW t \in Thread, LockBlock(t) PROVE LockInv'
  <2>1. HashOf(t) \in Slot /\ block_lock[HashOf(t)] \in 0 .. 1
    BY <1>2, <1>0, Asked DEF LockBlock, IInv, TypeInv
  <2>2. \A u \in Thread : Locked(u)' <=> u = t \/ Locked(u)
    BY <1>2, <1>0 DEF LockBlock, Locked, TypeInv
  <2>3. \A u \in Thread : HashOf(u)' = HashOf(u)
    BY <1>2 DEF LockBlock, HashOf
  <2>4. \A u \in Thread : Locked(u) => HashOf(u) # HashOf(t)
    BY <1>2, <2>1 DEF LockBlock, IInv, LockInv
  <2>5. block_lock'[HashOf(t)] = 0 /\ \A h \in Slot : h # HashOf(t) => block_lock'[h] = block_lock[h]
    BY <1>2, <2>1, <1>0 DEF LockBlock, TypeInv
  <2>6. \A u \in Thread : Locked(u) => HashOf(u) \in Slot
    BY Asked DEF IInv, Locked
  <2> QED
    BY <2>2, <2>3, <2>4, <2>5, <2>6 DEF IInv, LockInv
<1>3. ASSUME NEW t \in Thread, FindHit(t) PROVE LockInv'
  BY <1>3, <1>0, SameLocks DEF FindHit, Locked, cacheVars, IInv, TypeInv
<1>4. ASSUME NEW t \in Thread, FindMiss(t) PROVE LockInv'
  BY <1>4, <1>0, SameLocks DEF FindMiss, Locked, cacheVars, IInv, TypeInv
<1>5. ASSUME NEW t \in Thread, Limit(t) PROVE LockInv'
  BY <1>5, <1>0, SameLocks DEF Limit, Locked, cacheVars, IInv, TypeInv
<1>6. ASSUME NEW t \in Thread, LockDisk(t) PROVE LockInv'
  <2>1. \A u \in Thread : Locked(u)' <=> Locked(u)
    BY <1>6, <1>0 DEF LockDisk, Locked, TypeInv
  <2> QED
    BY <1>6, <2>1, SameLocks DEF LockDisk, cacheVars, IInv
<1>7. ASSUME NEW t \in Thread, Enqueue(t) PROVE LockInv'
  BY <1>7, <1>0, SameLocks DEF Enqueue, Locked, cacheVars, IInv, TypeInv
<1>8. ASSUME NEW t \in Thread, Await(t) PROVE LockInv'
  BY <1>8, <1>0, SameLocks DEF Await, Locked, cacheVars, IInv, TypeInv
<1>9. ASSUME NEW t \in Thread, Reply(t) PROVE LockInv'
  BY <1>9, <1>0, SameLocks DEF Reply, Locked, cacheVars, IInv, TypeInv
<1>10. ASSUME NEW t \in Thread, Add(t) PROVE LockInv'
  BY <1>10, <1>0, SameLocks DEF Add, Locked, cacheVars, IInv, TypeInv
<1>11. ASSUME NEW t \in Thread, Pull(t) PROVE LockInv'
  BY <1>11, <1>0, SameLocks DEF Pull, Locked, cacheVars, IInv, TypeInv
<1>12. ASSUME NEW t \in Thread, NEW v \in Value, Push(t, v) PROVE LockInv'
  BY <1>12, <1>0, SameLocks DEF Push, Locked, cacheVars, IInv, TypeInv
<1>13. ASSUME NEW t \in Thread, NEW v \in Value, DelayedPush(t, v) PROVE LockInv'
  BY <1>13, <1>0, SameLocks DEF DelayedPush, Locked, cacheVars, IInv, TypeInv
<1>14. ASSUME NEW t \in Thread, Release(t) PROVE LockInv'
  BY <1>14, <1>0, SameLocks DEF Release, Locked, cacheVars, IInv, TypeInv
<1>15. ASSUME NEW t \in Thread, Unlock(t) PROVE LockInv'
  <2>1. BLOCK_NUM_HASH(buffer[bufp[t]].num) = HashOf(t) /\ HashOf(t) \in Slot
    BY <1>15, Asked DEF Unlock, IInv, CallInv, HasBuffer, HashOf
  <2>2. \A u \in Thread : Locked(u)' => u # t /\ Locked(u) /\ HashOf(u)' = HashOf(u)
    BY <1>15, <1>0 DEF Unlock, Locked, HashOf, TypeInv
  <2>3. \A u \in Thread : Locked(u) => HashOf(u) \in Slot
    BY Asked DEF IInv, Locked
  <2>4. Locked(t)
    BY <1>15 DEF Unlock, Locked
  <2>5. \A u \in Thread : Locked(u) /\ u # t => block_lock'[HashOf(u)] = 0
    BY <1>15, <2>1, <2>3, <2>4, <1>0 DEF Unlock, IInv, LockInv, TypeInv
  <2> QED
    BY <2>2, <2>5 DEF IInv, LockInv
<1>16. ASSUME NEW i \in 1 .. 2, Serve(i) PROVE LockInv'
  BY <1>16, <1>0, SameLocks DEF Serve, Locked, threadVars, IInv
<1>17. ASSUME Handle PROVE LockInv'
  BY <1>17, <1>0, SameLocks DEF Handle, Locked, threadVars, cacheVars, IInv
<1>18. CASE UNCHANGED vars
  BY <1>18, <1>0, SameLocks DEF vars, Locked, threadVars, cacheVars, IInv
<1> QED
  BY <1>1, <1>2, <1>3, <1>4, <1>5, <1>6, <1>7, <1>8, <1>9, <1>10, <1>11, <1>12, <1>13, <1>14, <1>15, <1>16, <1>17, <1>18 DEF Next, Step, Continue, GiveBack

\* Two threads never have the same buffer, not even between Release and Unlock.
LEMMA OwnBuffer ==
    ASSUME TypeInv, CallInv, LockInv, NEW t \in Thread, NEW u \in Thread, t # u, HasBuffer(t), HasBuffer(u)
    PROVE  bufp[t] # bufp[u]
  BY OneHolder DEF CallInv, HasBuffer, Locked

(***************************************************************************)
(* The LRU list has the buffers that nobody has.                           *)
(***************************************************************************)
LEMMA LruStep == ASSUME IInv, [Next]_vars PROVE LruInv'
<1> USE DEF Goto, At, Pc
<1>0. TypeInv /\ TypeInv'
  BY TypeStep DEF IInv
<1>1. ASSUME NEW t \in Thread, NEW n \in Block, Bread(t, n) PROVE LruInv'
  BY <1>1, <1>0 DEF Bread, Fill, cacheVars, Buffers, Holding, IInv, LruInv, TypeInv
<1>2. ASSUME NEW t \in Thread, LockBlock(t) PROVE LruInv'
  BY <1>2, <1>0 DEF LockBlock, Fill, cacheVars, Buffers, Holding, IInv, LruInv, TypeInv
<1>3. ASSUME NEW t \in Thread, FindHit(t) PROVE LruInv'
  BY <1>3, <1>0 DEF FindHit, Fill, cacheVars, Buffers, Holding, IInv, LruInv, TypeInv
<1>4. ASSUME NEW t \in Thread, FindMiss(t) PROVE LruInv'
  <2>1. Buffers' = Buffers \cup {NewBuffer(blk[t])} /\ NewBuffer(blk[t]) \notin Buffers
    BY <1>4, MissFacts DEF FindMiss, Buffers
  <2>2. bufp'[t] = NewBuffer(blk[t]) /\ \A u \in Thread : u # t => bufp'[u] = bufp[u]
    BY <1>4, <1>0 DEF FindMiss, TypeInv
  <2>3. Holding(t)' /\ ~Holding(t) /\ \A u \in Thread : u # t => (Holding(u)' <=> Holding(u))
    BY <1>4, <1>0 DEF FindMiss, Holding, TypeInv
  <2>4. \A u \in Thread : Holding(u) => bufp[u] \in Buffers
    BY DEF IInv, CallInv, Holding, HasBuffer
  <2>5. lru' = lru /\ lru \subseteq Buffers
    BY <1>4, <1>0 DEF FindMiss, TypeInv
  <2> QED
    BY <2>1, <2>2, <2>3, <2>4, <2>5 DEF IInv, LruInv
<1>5. ASSUME NEW t \in Thread, Limit(t) PROVE LruInv'
  BY <1>5, <1>0 DEF Limit, Fill, cacheVars, Buffers, Holding, IInv, LruInv, TypeInv
<1>6. ASSUME NEW t \in Thread, LockDisk(t) PROVE LruInv'
  <2>1. Buffers' = Buffers /\ lru' = lru /\ bufp' = bufp
    BY <1>6, <1>0 DEF LockDisk, Buffers, cacheVars
  <2>2. \A u \in Thread : Holding(u)' <=> Holding(u)
    BY <1>6, <1>0 DEF LockDisk, Holding, TypeInv
  <2> QED
    BY <2>1, <2>2 DEF IInv, LruInv
<1>7. ASSUME NEW t \in Thread, Enqueue(t) PROVE LruInv'
  BY <1>7, <1>0 DEF Enqueue, Fill, cacheVars, Buffers, Holding, IInv, LruInv, TypeInv
<1>8. ASSUME NEW t \in Thread, Await(t) PROVE LruInv'
  BY <1>8, <1>0 DEF Await, Fill, cacheVars, Buffers, Holding, IInv, LruInv, TypeInv
<1>9. ASSUME NEW t \in Thread, Reply(t) PROVE LruInv'
  <2>1. Buffers' = Buffers /\ lru' = lru /\ bufp' = bufp
    BY <1>9, <1>0 DEF Reply, Buffers
  <2>2. \A u \in Thread : Holding(u)' <=> Holding(u)
    BY <1>9, <1>0 DEF Reply, Holding, TypeInv
  <2> QED
    BY <2>1, <2>2 DEF IInv, LruInv
<1>10. ASSUME NEW t \in Thread, Add(t) PROVE LruInv'
  BY <1>10, <1>0 DEF Add, Fill, cacheVars, Buffers, Holding, IInv, LruInv, TypeInv
<1>11. ASSUME NEW t \in Thread, Pull(t) PROVE LruInv'
  BY <1>11, <1>0 DEF Pull, Fill, cacheVars, Buffers, Holding, IInv, LruInv, TypeInv
<1>12. ASSUME NEW t \in Thread, NEW v \in Value, Push(t, v) PROVE LruInv'
  BY <1>12, <1>0 DEF Push, Fill, cacheVars, Buffers, Holding, IInv, LruInv, TypeInv
<1>13. ASSUME NEW t \in Thread, NEW v \in Value, DelayedPush(t, v) PROVE LruInv'
  BY <1>13, <1>0 DEF DelayedPush, Fill, cacheVars, Buffers, Holding, IInv, LruInv, TypeInv
<1>14. ASSUME NEW t \in Thread, Release(t) PROVE LruInv'
  <2>1. bufp' = bufp /\ Buffers' = Buffers /\ lru' = lru \cup {bufp[t]} /\ bufp[t] \in Buffers
    BY <1>14 DEF Release, Buffers, IInv, CallInv, HasBuffer
  <2>2. Holding(t) /\ ~Holding(t)' /\ \A u \in Thread : u # t => (Holding(u)' <=> Holding(u))
    BY <1>14, <1>0 DEF Release, Holding, TypeInv
  <2>3. \A u \in Thread : u # t /\ Holding(u) => bufp[u] # bufp[t]
    BY <2>2, OwnBuffer DEF IInv, Holding, HasBuffer
  <2> QED
    BY <2>1, <2>2, <2>3 DEF IInv, LruInv
<1>15. ASSUME NEW t \in Thread, Unlock(t) PROVE LruInv'
  BY <1>15, <1>0 DEF Unlock, Fill, cacheVars, Buffers, Holding, IInv, LruInv, TypeInv
<1>16. ASSUME NEW i \in 1 .. 2, Serve(i) PROVE LruInv'
  BY <1>16, <1>0, SameBuffers DEF Serve, Transfer, Fail, threadVars, Holding, IInv, LruInv
<1>17. ASSUME Handle PROVE LruInv'
  BY <1>17, <1>0, SameBuffers DEF Handle, threadVars, cacheVars, Holding, IInv, LruInv
<1>18. CASE UNCHANGED vars
  BY <1>18, <1>0, SameBuffers DEF vars, threadVars, cacheVars, Holding, IInv, LruInv
<1> QED
  BY <1>1, <1>2, <1>3, <1>4, <1>5, <1>6, <1>7, <1>8, <1>9, <1>10, <1>11, <1>12, <1>13, <1>14, <1>15, <1>16, <1>17, <1>18 DEF Next, Step, Continue, GiveBack

\* What must not change for the hash lists and their readers to stay as they are.
LEMMA SameHash ==
    ASSUME IInv, [Next]_vars, hash' = hash, Buffers' = Buffers,
           \A t \in Thread : Reading(t)' <=> Reading(t),
           \A t \in Thread : Reading(t) => bufp'[t] = bufp[t]
    PROVE  BufferInv'
<1>1. \A b \in Buffers : buffer'[b].num = buffer[b].num
  BY NumsKept
<1>2. \A b : InHash(b)' <=> InHash(b)
  BY DEF InHash
<1>3. \A h \in Slot : \A i \in DOMAIN hash[h] : hash[h][i] \in Buffers
  BY ElementOfSeq DEF IInv, TypeInv
<1> QED
  BY <1>1, <1>2, <1>3 DEF IInv, BufferInv

(***************************************************************************)
(* A block has one buffer, in its hash list or with the one that reads it. *)
(***************************************************************************)
LEMMA BufferStep == ASSUME IInv, [Next]_vars PROVE BufferInv'
<1> USE DEF Goto, At, Pc, IoPc
<1>0. TypeInv /\ TypeInv'
  BY TypeStep DEF IInv
<1>1. ASSUME NEW t \in Thread, NEW n \in Block, Bread(t, n) PROVE BufferInv'
  <2>1. hash' = hash /\ Buffers' = Buffers /\ bufp' = bufp
    BY <1>1 DEF Bread, Fill, cacheVars, Buffers
  <2>2. \A u \in Thread : Reading(u)' <=> Reading(u)
    BY <1>1, <1>0 DEF Bread, Reading, TypeInv
  <2> QED
    BY <2>1, <2>2, SameHash
<1>2. ASSUME NEW t \in Thread, LockBlock(t) PROVE BufferInv'
  <2>1. hash' = hash /\ Buffers' = Buffers /\ bufp' = bufp
    BY <1>2 DEF LockBlock, Fill, cacheVars, Buffers
  <2>2. \A u \in Thread : Reading(u)' <=> Reading(u)
    BY <1>2, <1>0 DEF LockBlock, Reading, TypeInv
  <2> QED
    BY <2>1, <2>2, SameHash
<1>3. ASSUME NEW t \in Thread, FindHit(t) PROVE BufferInv'
  <2>1. hash' = hash /\ Buffers' = Buffers
    BY <1>3 DEF FindHit, Buffers
  <2>2. ~Reading(t)' /\ ~Reading(t)
        /\ \A u \in Thread : u # t => (Reading(u)' <=> Reading(u)) /\ bufp'[u] = bufp[u]
    BY <1>3, <1>0 DEF FindHit, Reading, TypeInv
  <2> QED
    BY <2>1, <2>2, SameHash
<1>4. ASSUME NEW t \in Thread, FindMiss(t) PROVE BufferInv'
  <2> DEFINE b == NewBuffer(blk[t])
  <2>1. Buffers' = Buffers \cup {b} /\ b \notin Buffers /\ b[1] = blk[t] /\ buffer'[b].num = blk[t]
    BY <1>4, MissFacts DEF FindMiss, Buffers
  <2>2. \A c \in Buffers : buffer[c].num # blk[t] /\ buffer'[c].num = buffer[c].num
    BY <1>4, MissFacts, NumsKept DEF FindMiss
  <2>3. \A c : InHash(c)' <=> InHash(c)
    BY <1>4 DEF FindMiss, InHash
  <2>4. \A h \in Slot : \A i \in DOMAIN hash[h] : hash[h][i] \in Buffers
    BY ElementOfSeq, <1>0 DEF TypeInv
  <2>5. ~InHash(b)
    BY <2>1, <2>4 DEF InHash
  <2>6. Reading(t)' /\ ~Reading(t) /\ bufp'[t] = b
    BY <1>4, <1>0, ZenonT(30) DEF FindMiss, Reading, TypeInv, IInv, CallInv
  <2>7. \A u \in Thread : u # t => (Reading(u)' <=> Reading(u)) /\ bufp'[u] = bufp[u]
    BY <1>4, <1>0 DEF FindMiss, Reading, TypeInv
  <2>8. hash' = hash
    BY <1>4 DEF FindMiss
  <2> HIDE DEF b
  <2> QED
    BY <2>1, <2>2, <2>3, <2>4, <2>5, <2>6, <2>7, <2>8 DEF IInv, BufferInv
<1>5. ASSUME NEW t \in Thread, Limit(t) PROVE BufferInv'
  <2>1. hash' = hash /\ Buffers' = Buffers /\ bufp' = bufp
    BY <1>5 DEF Limit, Fill, cacheVars, Buffers
  <2>2. \A u \in Thread : Reading(u)' <=> Reading(u)
    BY <1>5, <1>0 DEF Limit, Reading, TypeInv
  <2> QED
    BY <2>1, <2>2, SameHash
<1>6. ASSUME NEW t \in Thread, LockDisk(t) PROVE BufferInv'
  <2>1. hash' = hash /\ Buffers' = Buffers /\ bufp' = bufp
    BY <1>6 DEF LockDisk, Fill, cacheVars, Buffers
  <2>2. \A u \in Thread : Reading(u)' <=> Reading(u)
    BY <1>6, <1>0 DEF LockDisk, Reading, TypeInv
  <2> QED
    BY <2>1, <2>2, SameHash
<1>7. ASSUME NEW t \in Thread, Enqueue(t) PROVE BufferInv'
  <2>1. hash' = hash /\ Buffers' = Buffers /\ bufp' = bufp
    BY <1>7 DEF Enqueue, Fill, cacheVars, Buffers
  <2>2. \A u \in Thread : Reading(u)' <=> Reading(u)
    BY <1>7, <1>0 DEF Enqueue, Reading, TypeInv
  <2> QED
    BY <2>1, <2>2, SameHash
<1>8. ASSUME NEW t \in Thread, Await(t) PROVE BufferInv'
  <2>1. hash' = hash /\ Buffers' = Buffers /\ bufp' = bufp
    BY <1>8 DEF Await, Fill, cacheVars, Buffers
  <2>2. \A u \in Thread : Reading(u)' <=> Reading(u)
    BY <1>8, <1>0 DEF Await, Reading, TypeInv
  <2> QED
    BY <2>1, <2>2, SameHash
<1>9. ASSUME NEW t \in Thread, Reply(t) PROVE BufferInv'
  <2>1. hash' = hash /\ Buffers' = Buffers /\ bufp' = bufp
    BY <1>9 DEF Reply, Fill, cacheVars, Buffers
  <2>2. \A u \in Thread : Reading(u)' <=> Reading(u)
    BY <1>9, <1>0 DEF Reply, Reading, TypeInv
  <2> QED
    BY <2>1, <2>2, SameHash
<1>10. ASSUME NEW t \in Thread, Add(t) PROVE BufferInv'
  <2>0. PICK b, g : b = bufp[t] /\ g = HashOf(t)
    OBVIOUS
  <2>1. b \in Buffers /\ buffer[b].num = blk[t] /\ g \in Slot /\ Reading(t)
    BY <1>10, <2>0, Asked DEF Add, IInv, CallInv, HasBuffer, Reading
  <2>2. ~InHash(b)
    BY <2>0, <2>1 DEF IInv, BufferInv
  <2>3. Buffers' = Buffers /\ buffer' = buffer /\ bufp' = bufp
    BY <1>10 DEF Add, Buffers
  <2>4. ~Reading(t)' /\ \A u \in Thread : u # t => (Reading(u)' <=> Reading(u))
    BY <1>10, <1>0 DEF Add, Reading, TypeInv
  <2>5. \A h \in Slot : h # g => hash'[h] = hash[h]
    BY <1>10, <2>0, <1>0 DEF Add, TypeInv
  <2>6. hash[g] \in Seq(Buffers) /\ hash'[g] = <<b>> \o hash[g]
    BY <1>10, <2>0, <2>1, <1>0 DEF Add, TypeInv
  <2>7. /\ DOMAIN hash'[g] = 1 .. Len(hash[g]) + 1
        /\ DOMAIN hash[g] = 1 .. Len(hash[g]) /\ Len(hash[g]) \in Nat
        /\ hash'[g][1] = b
        /\ \A i \in 1 .. Len(hash[g]) : hash'[g][i + 1] = hash[g][i]
    BY <2>1, <2>6
  <2>8. \A i \in DOMAIN hash'[g] : i = 1 \/ (i - 1 \in DOMAIN hash[g] /\ hash'[g][i] = hash[g][i - 1])
    BY <2>7
  <2>9. \A c : InHash(c)' <=> InHash(c) \/ c = b
    <3>1. \A c : InHash(c) => InHash(c)'
      <4>1. SUFFICES ASSUME NEW c, NEW h \in Slot, NEW i \in DOMAIN hash[h], hash[h][i] = c PROVE InHash(c)'
        BY DEF InHash
      <4>2. CASE h = g
        BY <4>1, <4>2, <2>7 DEF InHash
      <4>3. CASE h # g
        BY <4>1, <4>3, <2>5 DEF InHash
      <4> QED
        BY <4>2, <4>3
    <3>2. InHash(b)'
      BY <2>1, <2>7 DEF InHash
    <3>3. \A c : InHash(c)' => InHash(c) \/ c = b
      <4>1. SUFFICES ASSUME NEW c, NEW h \in Slot, NEW i \in DOMAIN hash'[h], hash'[h][i] = c
                     PROVE  InHash(c) \/ c = b
        BY DEF InHash
      <4>2. CASE h = g
        BY <4>1, <4>2, <2>7, <2>8, <2>1 DEF InHash
      <4>3. CASE h # g
        <5>1. i \in DOMAIN hash[h] /\ hash[h][i] = c
          BY <4>1, <4>3, <2>5
        <5> QED
          BY <5>1 DEF InHash
      <4> QED
        BY <4>2, <4>3
    <3> QED
      BY <3>1, <3>2, <3>3
  <2>10. \A c \in Buffers : InHash(c)' \/ \E u \in Thread : Reading(u)' /\ bufp'[u] = c
    BY <2>0, <2>3, <2>4, <2>9 DEF IInv, BufferInv
  <2>11. \A u \in Thread : Reading(u)' => ~InHash(bufp[u])'
    <3>1. SUFFICES ASSUME NEW u \in Thread, Reading(u)' PROVE ~InHash(bufp[u]) /\ bufp[u] # b
      BY <2>3, <2>9
    <3>2. u # t /\ Reading(u)
      BY <3>1, <2>4
    <3> QED
      BY <3>2, <2>1, <2>0, OwnBuffer DEF IInv, BufferInv, Reading, HasBuffer
  <2>12. \A h \in Slot : \A i \in DOMAIN hash'[h] : BLOCK_NUM_HASH(buffer[hash'[h][i]].num) = h
    <3>1. \A h \in Slot : \A i \in DOMAIN hash[h] : BLOCK_NUM_HASH(buffer[hash[h][i]].num) = h
      BY DEF IInv, BufferInv
    <3>2. BLOCK_NUM_HASH(buffer[b].num) = g
      BY <2>0, <2>1 DEF HashOf
    <3>3. \A i \in DOMAIN hash'[g] : hash'[g][i] = b \/ (i - 1 \in DOMAIN hash[g] /\ hash'[g][i] = hash[g][i - 1])
      BY <2>7, <2>8
    <3>4. \A i \in DOMAIN hash'[g] : BLOCK_NUM_HASH(buffer[hash'[g][i]].num) = g
      BY <2>1, <3>1, <3>2, <3>3
    <3>5. \A h \in Slot : h # g => \A i \in DOMAIN hash'[h] : BLOCK_NUM_HASH(buffer[hash'[h][i]].num) = h
      BY <2>5, <3>1
    <3> QED
      BY <3>4, <3>5
  <2>13. \A h \in Slot : \A i, j \in DOMAIN hash'[h] : i # j => hash'[h][i] # hash'[h][j]
    <3>1. \A i \in DOMAIN hash[g] : hash[g][i] # b
      BY <2>1, <2>2 DEF InHash
    <3>2. SUFFICES ASSUME NEW h \in Slot, NEW i \in DOMAIN hash'[h], NEW j \in DOMAIN hash'[h], i # j
                   PROVE  hash'[h][i] # hash'[h][j]
      OBVIOUS
    <3>3. CASE h # g
      BY <3>2, <3>3, <2>5 DEF IInv, BufferInv
    <3>4. CASE h = g
      <4>1. \A k, l \in DOMAIN hash[g] : k # l => hash[g][k] # hash[g][l]
        BY <2>1 DEF IInv, BufferInv
      <4>2. i \in Nat /\ j \in Nat
        BY <3>4, <2>7
      <4>3. CASE i = 1 \/ j = 1
        BY <3>1, <3>2, <3>4, <4>3, <2>7, <2>8
      <4>4. CASE i # 1 /\ j # 1
        <5>1. i - 1 \in DOMAIN hash[g] /\ j - 1 \in DOMAIN hash[g] /\ i - 1 # j - 1
          BY <3>2, <3>4, <4>2, <4>4, <2>8
        <5> QED
          BY <3>2, <3>4, <4>1, <4>4, <5>1, <2>8
      <4> QED
        BY <4>3, <4>4
    <3> QED
      BY <3>3, <3>4
  <2> QED
    BY <2>3, <2>10, <2>11, <2>12, <2>13 DEF IInv, BufferInv, BLOCK_NUM_HASH
<1>11. ASSUME NEW t \in Thread, Pull(t) PROVE BufferInv'
  <2>1. hash' = hash /\ Buffers' = Buffers /\ bufp' = bufp
    BY <1>11 DEF Pull, Fill, cacheVars, Buffers
  <2>2. \A u \in Thread : Reading(u)' <=> Reading(u)
    BY <1>11, <1>0 DEF Pull, Reading, TypeInv
  <2> QED
    BY <2>1, <2>2, SameHash
<1>12. ASSUME NEW t \in Thread, NEW v \in Value, Push(t, v) PROVE BufferInv'
  <2>1. hash' = hash /\ Buffers' = Buffers /\ bufp' = bufp
    BY <1>12 DEF Push, Fill, cacheVars, Buffers
  <2>2. \A u \in Thread : Reading(u)' <=> Reading(u)
    BY <1>12, <1>0 DEF Push, Reading, TypeInv
  <2> QED
    BY <2>1, <2>2, SameHash
<1>13. ASSUME NEW t \in Thread, NEW v \in Value, DelayedPush(t, v) PROVE BufferInv'
  <2>1. hash' = hash /\ Buffers' = Buffers /\ bufp' = bufp
    BY <1>13 DEF DelayedPush, Fill, cacheVars, Buffers
  <2>2. \A u \in Thread : Reading(u)' <=> Reading(u)
    BY <1>13, <1>0 DEF DelayedPush, Reading, TypeInv
  <2> QED
    BY <2>1, <2>2, SameHash
<1>14. ASSUME NEW t \in Thread, Release(t) PROVE BufferInv'
  <2>1. hash' = hash /\ Buffers' = Buffers /\ bufp' = bufp
    BY <1>14 DEF Release, Fill, cacheVars, Buffers
  <2>2. \A u \in Thread : Reading(u)' <=> Reading(u)
    BY <1>14, <1>0 DEF Release, Reading, TypeInv
  <2> QED
    BY <2>1, <2>2, SameHash
<1>15. ASSUME NEW t \in Thread, Unlock(t) PROVE BufferInv'
  <2>1. hash' = hash /\ Buffers' = Buffers
    BY <1>15 DEF Unlock, Buffers
  <2>2. ~Reading(t)' /\ ~Reading(t)
        /\ \A u \in Thread : u # t => (Reading(u)' <=> Reading(u)) /\ bufp'[u] = bufp[u]
    BY <1>15, <1>0 DEF Unlock, Reading, TypeInv
  <2> QED
    BY <2>1, <2>2, SameHash
<1>16. ASSUME NEW i \in 1 .. 2, Serve(i) PROVE BufferInv'
  BY <1>16, SameBuffers, SameHash DEF Serve, Transfer, Fail, threadVars, Reading
<1>17. ASSUME Handle PROVE BufferInv'
  BY <1>17, SameBuffers, SameHash DEF Handle, threadVars, cacheVars, Reading
<1>18. CASE UNCHANGED vars
  BY <1>18, SameBuffers, SameHash DEF vars, threadVars, cacheVars, Reading
<1> QED
  BY <1>1, <1>2, <1>3, <1>4, <1>5, <1>6, <1>7, <1>8, <1>9, <1>10, <1>11, <1>12, <1>13, <1>14, <1>15, <1>16, <1>17, <1>18 DEF Next, Step, Continue, GiveBack

(***************************************************************************)
(* What disk_poll does: the request i is gone, whoever sent it, no other   *)
(* is, and the answer to it is under way.                                  *)
(***************************************************************************)
LEMMA ServeFacts ==
    ASSUME IInv, NEW i \in 1 .. 2, Serve(i)
    PROVE  /\ i \in DOMAIN requests /\ requests[i] \in Requests
           /\ interrupt = NoReply /\ interrupt' # NoReply
           /\ interrupt'.num = requests[i].num /\ interrupt'.by = requests[i].by
           /\ interrupt'.write = requests[i].write
           /\ \A j \in DOMAIN requests' :
                 requests'[j] = (IF j < i THEN requests[j] ELSE requests[j + 1])
           /\ DOMAIN requests = 1 .. Len(requests) /\ Len(requests) \in Nat
           /\ DOMAIN requests' = 1 .. Len(requests) - 1
           /\ Len(requests') = Len(requests) - 1
           /\ \A t \in Thread : Requested(t)' <=> Requested(t) /\ t # requests[i].by
<1>1. i \in DOMAIN requests /\ i \in 1 .. Len(requests) /\ requests \in Seq(Requests)
  BY DEF Serve, IInv, TypeInv
<1>2. requests[i] \in Requests
  BY <1>1, ElementOfSeq
<1>3. interrupt = NoReply
  BY DEF Serve
<1>4. PICK ok \in BOOLEAN :
          interrupt' = [num |-> requests[i].num, by |-> requests[i].by, write |-> requests[i].write, ok |-> ok]
  BY DEF Serve, Transfer, Fail, Answer
<1>5. requests[i].num # NULL
  BY <1>2, BufferAssumption DEF Requests, NULL
<1>6. interrupt' # NoReply
  BY <1>4, <1>5 DEF NoReply
<1>7. requests' = RemoveAt(requests, i)
  BY DEF Serve
<1>8. /\ requests' \in Seq(Requests)
      /\ Len(requests') = Len(requests) - 1
      /\ \A j \in 1 .. Len(requests) - 1 : requests'[j] = (IF j < i THEN requests[j] ELSE requests[j + 1])
  BY <1>1, <1>7, RemoveFacts
<1>9. DOMAIN requests' = 1 .. Len(requests) - 1 /\ DOMAIN requests = 1 .. Len(requests) /\ Len(requests) \in Nat
  BY <1>1, <1>8
<1>10. \A t \in Thread : Requested(t)' => Requested(t) /\ t # requests[i].by
  <2>1. SUFFICES ASSUME NEW j \in DOMAIN requests'
                 PROVE  \E k \in DOMAIN requests : k # i /\ requests'[j] = requests[k]
    BY <1>1 DEF Requested, IInv, RequestInv
  <2>2. CASE j < i
    BY <2>2, <1>8, <1>9
  <2>3. CASE ~(j < i)
    BY <2>3, <1>1, <1>8, <1>9, SMTT(30)
  <2> QED
    BY <2>2, <2>3
<1>11. \A t \in Thread : Requested(t) /\ t # requests[i].by => Requested(t)'
  <2>1. SUFFICES ASSUME NEW k \in DOMAIN requests, k # i
                 PROVE  \E j \in DOMAIN requests' : requests'[j] = requests[k]
    BY DEF Requested
  <2>2. CASE k < i
    BY <2>2, <1>1, <1>8, <1>9
  <2>3. CASE k > i
    <3>1. k - 1 \in DOMAIN requests' /\ requests'[k - 1] = requests[k]
      BY <2>3, <1>1, <1>8, <1>9
    <3> QED
      BY <3>1
  <2> QED
    BY <2>1, <2>2, <2>3, <1>1, <1>9
<1> QED
  BY <1>1, <1>2, <1>3, <1>4, <1>6, <1>8, <1>9, <1>10, <1>11

\* What must not change for requests, answers and replies to stay where they are.
LEMMA SameRequests ==
    ASSUME IInv, requests' = requests, interrupt' = interrupt, block_sig' = block_sig, reply' = reply,
           \A t \in Thread : /\ At(t, "await")' <=> At(t, "await")
                             /\ At(t, "reply")' <=> At(t, "reply")
                             /\ At(t, "await") \/ At(t, "reply") =>
                                   blk'[t] = blk[t] /\ bufp'[t] = bufp[t] /\ writing'[t] = writing[t]
    PROVE  RequestInv'
<1>1. \A i \in DOMAIN requests : requests[i] \in Requests
  BY ElementOfSeq DEF IInv, TypeInv
<1>2. \A i \in DOMAIN requests :
          LET r == requests[i]
          IN  pc'[r.by] = "await" /\ r.num = blk'[r.by] /\ r.buf = bufp'[r.by] /\ r.write = writing'[r.by]
  BY <1>1 DEF IInv, RequestInv, Requests, At
<1>3. \A t \in Thread : (Requested(t)' <=> Requested(t)) /\ (Answered(t)' <=> Answered(t))
  BY DEF Requested, Answered
<1>4. \A t \in Thread : Answered(t)' => At(t, "await")' /\ Mine(t, interrupt)' /\ ~Requested(t)'
  BY <1>3 DEF IInv, RequestInv, Mine
<1>5. \A h \in Slot : block_sig[h] = 1 =>
          \E t \in Thread : /\ At(t, "await")' /\ HashOf(t)' = h /\ Mine(t, reply[h])'
                            /\ ~Requested(t)' /\ ~Answered(t)'
  <2>1. SUFFICES ASSUME NEW h \in Slot, block_sig[h] = 1
                 PROVE  \E t \in Thread : /\ At(t, "await")' /\ HashOf(t)' = h /\ Mine(t, reply[h])'
                                          /\ ~Requested(t)' /\ ~Answered(t)'
    OBVIOUS
  <2>2. PICK t \in Thread : At(t, "await") /\ HashOf(t) = h /\ Mine(t, reply[h])
                            /\ ~Requested(t) /\ ~Answered(t)
    BY <2>1 DEF IInv, RequestInv
  <2> QED
    BY <2>2, <1>3 DEF Mine, HashOf
<1>6. \A t \in Thread : At(t, "reply")' => Mine(t, reply[HashOf(t)])'
  BY DEF IInv, RequestInv, Mine, HashOf
<1> QED
  BY <1>2, <1>4, <1>5, <1>6 DEF IInv, RequestInv

(***************************************************************************)
(* A thread that waits has its request, the answer, or the unit.           *)
(***************************************************************************)
LEMMA RequestStep == ASSUME IInv, [Next]_vars PROVE RequestInv'
<1> USE DEF Goto, At, Pc
<1>0. TypeInv /\ TypeInv'
  BY TypeStep DEF IInv
<1>1. ASSUME NEW t \in Thread, NEW n \in Block, Bread(t, n) PROVE RequestInv'
  <2>1. requests' = requests /\ interrupt' = interrupt /\ block_sig' = block_sig /\ reply' = reply
    BY <1>1 DEF Bread, ioVars, diskVars
  <2>2. \A u \in Thread : u # t => pc'[u] = pc[u] /\ blk'[u] = blk[u] /\ bufp'[u] = bufp[u] /\ writing'[u] = writing[u]
    BY <1>1, <1>0 DEF Bread, TypeInv
  <2>3. pc[t] \notin {"await", "reply"} /\ pc'[t] \notin {"await", "reply"}
    BY <1>1, <1>0 DEF Bread, TypeInv
  <2> QED
    BY <2>1, <2>2, <2>3, SameRequests
<1>2. ASSUME NEW t \in Thread, LockBlock(t) PROVE RequestInv'
  <2>1. requests' = requests /\ interrupt' = interrupt /\ block_sig' = block_sig /\ reply' = reply
    BY <1>2 DEF LockBlock, ioVars, diskVars
  <2>2. \A u \in Thread : u # t => pc'[u] = pc[u] /\ blk'[u] = blk[u] /\ bufp'[u] = bufp[u] /\ writing'[u] = writing[u]
    BY <1>2, <1>0 DEF LockBlock, TypeInv
  <2>3. pc[t] \notin {"await", "reply"} /\ pc'[t] \notin {"await", "reply"}
    BY <1>2, <1>0 DEF LockBlock, TypeInv
  <2> QED
    BY <2>1, <2>2, <2>3, SameRequests
<1>3. ASSUME NEW t \in Thread, FindHit(t) PROVE RequestInv'
  <2>1. requests' = requests /\ interrupt' = interrupt /\ block_sig' = block_sig /\ reply' = reply
    BY <1>3 DEF FindHit, ioVars, diskVars
  <2>2. \A u \in Thread : u # t => pc'[u] = pc[u] /\ blk'[u] = blk[u] /\ bufp'[u] = bufp[u] /\ writing'[u] = writing[u]
    BY <1>3, <1>0 DEF FindHit, TypeInv
  <2>3. pc[t] \notin {"await", "reply"} /\ pc'[t] \notin {"await", "reply"}
    BY <1>3, <1>0 DEF FindHit, TypeInv
  <2> QED
    BY <2>1, <2>2, <2>3, SameRequests
<1>4. ASSUME NEW t \in Thread, FindMiss(t) PROVE RequestInv'
  <2>1. requests' = requests /\ interrupt' = interrupt /\ block_sig' = block_sig /\ reply' = reply
    BY <1>4 DEF FindMiss, ioVars, diskVars
  <2>2. \A u \in Thread : u # t => pc'[u] = pc[u] /\ blk'[u] = blk[u] /\ bufp'[u] = bufp[u] /\ writing'[u] = writing[u]
    BY <1>4, <1>0 DEF FindMiss, TypeInv
  <2>3. pc[t] \notin {"await", "reply"} /\ pc'[t] \notin {"await", "reply"}
    BY <1>4, <1>0 DEF FindMiss, TypeInv
  <2> QED
    BY <2>1, <2>2, <2>3, SameRequests
<1>5. ASSUME NEW t \in Thread, Limit(t) PROVE RequestInv'
  <2>1. requests' = requests /\ interrupt' = interrupt /\ block_sig' = block_sig /\ reply' = reply
    BY <1>5 DEF Limit, ioVars, diskVars
  <2>2. \A u \in Thread : u # t => pc'[u] = pc[u] /\ blk'[u] = blk[u] /\ bufp'[u] = bufp[u] /\ writing'[u] = writing[u]
    BY <1>5, <1>0 DEF Limit, TypeInv
  <2>3. pc[t] \notin {"await", "reply"} /\ pc'[t] \notin {"await", "reply"}
    BY <1>5, <1>0 DEF Limit, TypeInv
  <2> QED
    BY <2>1, <2>2, <2>3, SameRequests
<1>6. ASSUME NEW t \in Thread, LockDisk(t) PROVE RequestInv'
  <2>1. requests' = requests /\ interrupt' = interrupt /\ block_sig' = block_sig /\ reply' = reply
    BY <1>6 DEF LockDisk, ioVars, diskVars
  <2>2. \A u \in Thread : u # t => pc'[u] = pc[u] /\ blk'[u] = blk[u] /\ bufp'[u] = bufp[u] /\ writing'[u] = writing[u]
    BY <1>6, <1>0 DEF LockDisk, TypeInv
  <2>3. pc[t] \notin {"await", "reply"} /\ pc'[t] \notin {"await", "reply"}
    BY <1>6, <1>0 DEF LockDisk, TypeInv
  <2> QED
    BY <2>1, <2>2, <2>3, SameRequests
<1>7. ASSUME NEW t \in Thread, Enqueue(t) PROVE RequestInv'
  <2>1. PICK r : r = [num |-> blk[t], by |-> t, buf |-> bufp[t], write |-> writing[t]]
    OBVIOUS
  <2>2. /\ requests' = Append(requests, r) /\ UNCHANGED <<blk, bufp, writing, interrupt, block_sig, reply>>
        /\ pc[t] = "enqueue" /\ pc'[t] = "await" /\ \A u \in Thread : u # t => pc'[u] = pc[u]
    BY <1>7, <2>1, <1>0 DEF Enqueue, TypeInv
  <2>3. /\ requests \in Seq(Requests) /\ Len(requests) \in Nat /\ DOMAIN requests = 1 .. Len(requests)
        /\ \A i \in DOMAIN requests : requests[i] \in Requests
    BY <1>0, ElementOfSeq DEF TypeInv
  <2>4. /\ DOMAIN requests' = 1 .. Len(requests) + 1
        /\ requests'[Len(requests) + 1] = r
        /\ \A i \in 1 .. Len(requests) : requests'[i] = requests[i]
    BY <2>2, <2>3
  <2>5. ~Requested(t) /\ ~Answered(t)
    BY <2>2 DEF IInv, RequestInv, Requested, At
  <2>6. \A u \in Thread : u # t => (Requested(u)' <=> Requested(u))
    BY <2>1, <2>3, <2>4 DEF Requested
  <2>7. \A u \in Thread : Answered(u)' <=> Answered(u)
    BY <2>2 DEF Answered
  <2>8. \A i \in DOMAIN requests' :
          LET q == requests'[i]
          IN  pc'[q.by] = "await" /\ q.num = blk'[q.by] /\ q.buf = bufp'[q.by] /\ q.write = writing'[q.by]
    <3>1. SUFFICES ASSUME NEW i \in DOMAIN requests'
                   PROVE  LET q == requests'[i]
                          IN  pc'[q.by] = "await" /\ q.num = blk'[q.by] /\ q.buf = bufp'[q.by] /\ q.write = writing'[q.by]
      OBVIOUS
    <3>2. CASE i = Len(requests) + 1
      BY <3>2, <2>1, <2>2, <2>4
    <3>3. CASE i \in 1 .. Len(requests)
      BY <3>3, <2>2, <2>3, <2>4 DEF IInv, RequestInv, Requests
    <3> QED
      BY <3>2, <3>3, <2>3, <2>4
  <2>9. \A i, j \in DOMAIN requests' : i # j => requests'[i].by # requests'[j].by
    <3>1. \A i \in DOMAIN requests : requests[i].by # t
      BY <2>5 DEF Requested
    <3>2. \A i, j \in DOMAIN requests : i # j => requests[i].by # requests[j].by
      BY DEF IInv, RequestInv
    <3> QED
      BY <3>1, <3>2, <2>1, <2>3, <2>4
  <2>10. \A u \in Thread : Answered(u)' => At(u, "await")' /\ Mine(u, interrupt)' /\ ~Requested(u)'
    BY <2>2, <2>5, <2>6, <2>7 DEF IInv, RequestInv, Mine
  <2>11. \A h \in Slot : block_sig[h] = 1 =>
            \E u \in Thread : At(u, "await")' /\ HashOf(u)' = h /\ Mine(u, reply[h])' /\ ~Requested(u)' /\ ~Answered(u)'
    <3>1. SUFFICES ASSUME NEW h \in Slot, block_sig[h] = 1
                   PROVE  \E u \in Thread : At(u, "await")' /\ HashOf(u)' = h /\ Mine(u, reply[h])'
                                            /\ ~Requested(u)' /\ ~Answered(u)'
      OBVIOUS
    <3>2. PICK u \in Thread : At(u, "await") /\ HashOf(u) = h /\ Mine(u, reply[h]) /\ ~Requested(u) /\ ~Answered(u)
      BY <3>1 DEF IInv, RequestInv
    <3> QED
      BY <3>2, <2>2, <2>6, <2>7 DEF Mine, HashOf
  <2>12. \A u \in Thread : At(u, "reply")' => Mine(u, reply[HashOf(u)])'
    BY <2>2 DEF IInv, RequestInv, Mine, HashOf
  <2> QED
    BY <2>2, <2>8, <2>9, <2>10, <2>11, <2>12 DEF RequestInv
<1>8. ASSUME NEW t \in Thread, Await(t) PROVE RequestInv'
  <2>1. PICK g \in Slot : g = HashOf(t)
    BY <1>8, Asked DEF Await, IInv
  <2>2. /\ UNCHANGED <<blk, bufp, writing, requests, interrupt, reply>>
        /\ pc[t] = "await" /\ pc'[t] = "reply" /\ \A u \in Thread : u # t => pc'[u] = pc[u]
    BY <1>8, <1>0 DEF Await, diskVars, TypeInv
  <2>3. block_sig[g] = 1 /\ block_sig'[g] = 0 /\ \A h \in Slot : h # g => block_sig'[h] = block_sig[h]
    BY <1>8, <2>1, <1>0 DEF Await, TypeInv
  <2>4. Mine(t, reply[g]) /\ ~Requested(t) /\ ~Answered(t)
    <3>1. PICK u \in Thread : At(u, "await") /\ HashOf(u) = g /\ Mine(u, reply[g]) /\ ~Requested(u) /\ ~Answered(u)
      BY <2>3 DEF IInv, RequestInv
    <3>2. u = t
      BY <3>1, <2>1, <2>2, OneHolder DEF IInv, Locked
    <3> QED
      BY <3>1, <3>2
  <2>5. \A u \in Thread : (Requested(u)' <=> Requested(u)) /\ (Answered(u)' <=> Answered(u))
    BY <2>2 DEF Requested, Answered
  <2>6. \A i \in DOMAIN requests :
          LET q == requests[i]
          IN  pc'[q.by] = "await" /\ q.num = blk[q.by] /\ q.buf = bufp[q.by] /\ q.write = writing[q.by]
    <3>1. \A i \in DOMAIN requests : requests[i].by # t /\ requests[i] \in Requests
      BY <2>4, <1>0, ElementOfSeq DEF Requested, TypeInv
    <3> QED
      BY <3>1, <2>2 DEF IInv, RequestInv, Requests
  <2>7. \A u \in Thread : Answered(u)' => At(u, "await")' /\ Mine(u, interrupt)' /\ ~Requested(u)'
    BY <2>2, <2>4, <2>5 DEF IInv, RequestInv, Mine
  <2>8. \A h \in Slot : block_sig'[h] = 1 =>
            \E u \in Thread : At(u, "await")' /\ HashOf(u)' = h /\ Mine(u, reply[h])' /\ ~Requested(u)' /\ ~Answered(u)'
    <3>1. SUFFICES ASSUME NEW h \in Slot, h # g, block_sig[h] = 1
                   PROVE  \E u \in Thread : At(u, "await")' /\ HashOf(u)' = h /\ Mine(u, reply[h])'
                                            /\ ~Requested(u)' /\ ~Answered(u)'
      BY <2>3
    <3>2. PICK u \in Thread : At(u, "await") /\ HashOf(u) = h /\ Mine(u, reply[h]) /\ ~Requested(u) /\ ~Answered(u)
      BY <3>1 DEF IInv, RequestInv
    <3>3. u # t
      BY <3>1, <3>2, <2>1
    <3> QED
      BY <3>2, <3>3, <2>2, <2>5 DEF Mine, HashOf
  <2>9. \A u \in Thread : At(u, "reply")' => Mine(u, reply[HashOf(u)])'
    BY <2>1, <2>2, <2>4 DEF IInv, RequestInv, Mine, HashOf
  <2> QED
    BY <2>2, <2>6, <2>7, <2>8, <2>9 DEF IInv, RequestInv
<1>9. ASSUME NEW t \in Thread, Reply(t) PROVE RequestInv'
  <2>1. PICK g \in Slot : g = HashOf(t)
    BY <1>9, Asked DEF Reply, IInv
  <2>2. /\ UNCHANGED <<blk, bufp, writing, requests, interrupt, block_sig>>
        /\ pc[t] = "reply" /\ pc'[t] \in {"release", "add"} /\ \A u \in Thread : u # t => pc'[u] = pc[u]
    BY <1>9, <1>0 DEF Reply, diskVars, TypeInv
  <2>3. \A h \in Slot : h # g => reply'[h] = reply[h]
    BY <1>9, <2>1, <1>0 DEF Reply, TypeInv
  <2>4. \A u \in Thread : u # t /\ Locked(u) => HashOf(u) # g /\ HashOf(u) \in Slot
    BY <2>1, <2>2, OneHolder, Asked DEF IInv, Locked
  <2>5. \A u \in Thread : (Requested(u)' <=> Requested(u)) /\ (Answered(u)' <=> Answered(u))
    BY <2>2 DEF Requested, Answered
  <2>6. \A i \in DOMAIN requests :
          LET q == requests[i]
          IN  pc'[q.by] = "await" /\ q.num = blk[q.by] /\ q.buf = bufp[q.by] /\ q.write = writing[q.by]
    <3>1. \A i \in DOMAIN requests : requests[i] \in Requests
      BY <1>0, ElementOfSeq DEF TypeInv
    <3> QED
      BY <3>1, <2>2 DEF IInv, RequestInv, Requests
  <2>7. \A u \in Thread : Answered(u)' => At(u, "await")' /\ Mine(u, interrupt)' /\ ~Requested(u)'
    BY <2>2, <2>5 DEF IInv, RequestInv, Mine
  <2>8. \A h \in Slot : block_sig[h] = 1 =>
            \E u \in Thread : At(u, "await")' /\ HashOf(u)' = h /\ Mine(u, reply[h])' /\ ~Requested(u)' /\ ~Answered(u)'
    <3>1. SUFFICES ASSUME NEW h \in Slot, block_sig[h] = 1
                   PROVE  \E u \in Thread : At(u, "await")' /\ HashOf(u)' = h /\ Mine(u, reply[h])'
                                            /\ ~Requested(u)' /\ ~Answered(u)'
      OBVIOUS
    <3>2. PICK u \in Thread : At(u, "await") /\ HashOf(u) = h /\ Mine(u, reply[h]) /\ ~Requested(u) /\ ~Answered(u)
      BY <3>1 DEF IInv, RequestInv
    <3>3. u # t /\ h # g
      BY <3>2, <2>2, <2>4 DEF Locked
    <3> QED
      BY <3>2, <3>3, <2>2, <2>3, <2>5 DEF Mine, HashOf
  <2>9. \A u \in Thread : At(u, "reply")' => Mine(u, reply[HashOf(u)])'
    BY <2>2, <2>3, <2>4 DEF IInv, RequestInv, Mine, HashOf, Locked
  <2> QED
    BY <2>2, <2>6, <2>7, <2>8, <2>9 DEF IInv, RequestInv
<1>10. ASSUME NEW t \in Thread, Add(t) PROVE RequestInv'
  <2>1. requests' = requests /\ interrupt' = interrupt /\ block_sig' = block_sig /\ reply' = reply
    BY <1>10 DEF Add, ioVars, diskVars
  <2>2. \A u \in Thread : u # t => pc'[u] = pc[u] /\ blk'[u] = blk[u] /\ bufp'[u] = bufp[u] /\ writing'[u] = writing[u]
    BY <1>10, <1>0 DEF Add, TypeInv
  <2>3. pc[t] \notin {"await", "reply"} /\ pc'[t] \notin {"await", "reply"}
    BY <1>10, <1>0 DEF Add, TypeInv
  <2> QED
    BY <2>1, <2>2, <2>3, SameRequests
<1>11. ASSUME NEW t \in Thread, Pull(t) PROVE RequestInv'
  <2>1. requests' = requests /\ interrupt' = interrupt /\ block_sig' = block_sig /\ reply' = reply
    BY <1>11 DEF Pull, ioVars, diskVars
  <2>2. \A u \in Thread : u # t => pc'[u] = pc[u] /\ blk'[u] = blk[u] /\ bufp'[u] = bufp[u] /\ writing'[u] = writing[u]
    BY <1>11, <1>0 DEF Pull, TypeInv
  <2>3. pc[t] \notin {"await", "reply"} /\ pc'[t] \notin {"await", "reply"}
    BY <1>11, <1>0 DEF Pull, TypeInv
  <2> QED
    BY <2>1, <2>2, <2>3, SameRequests
<1>12. ASSUME NEW t \in Thread, NEW v \in Value, Push(t, v) PROVE RequestInv'
  <2>1. requests' = requests /\ interrupt' = interrupt /\ block_sig' = block_sig /\ reply' = reply
    BY <1>12 DEF Push, ioVars, diskVars
  <2>2. \A u \in Thread : u # t => pc'[u] = pc[u] /\ blk'[u] = blk[u] /\ bufp'[u] = bufp[u] /\ writing'[u] = writing[u]
    BY <1>12, <1>0 DEF Push, TypeInv
  <2>3. pc[t] \notin {"await", "reply"} /\ pc'[t] \notin {"await", "reply"}
    BY <1>12, <1>0 DEF Push, TypeInv
  <2> QED
    BY <2>1, <2>2, <2>3, SameRequests
<1>13. ASSUME NEW t \in Thread, NEW v \in Value, DelayedPush(t, v) PROVE RequestInv'
  <2>1. requests' = requests /\ interrupt' = interrupt /\ block_sig' = block_sig /\ reply' = reply
    BY <1>13 DEF DelayedPush, ioVars, diskVars
  <2>2. \A u \in Thread : u # t => pc'[u] = pc[u] /\ blk'[u] = blk[u] /\ bufp'[u] = bufp[u] /\ writing'[u] = writing[u]
    BY <1>13, <1>0 DEF DelayedPush, TypeInv
  <2>3. pc[t] \notin {"await", "reply"} /\ pc'[t] \notin {"await", "reply"}
    BY <1>13, <1>0 DEF DelayedPush, TypeInv
  <2> QED
    BY <2>1, <2>2, <2>3, SameRequests
<1>14. ASSUME NEW t \in Thread, Release(t) PROVE RequestInv'
  <2>1. requests' = requests /\ interrupt' = interrupt /\ block_sig' = block_sig /\ reply' = reply
    BY <1>14 DEF Release, ioVars, diskVars
  <2>2. \A u \in Thread : u # t => pc'[u] = pc[u] /\ blk'[u] = blk[u] /\ bufp'[u] = bufp[u] /\ writing'[u] = writing[u]
    BY <1>14, <1>0 DEF Release, TypeInv
  <2>3. pc[t] \notin {"await", "reply"} /\ pc'[t] \notin {"await", "reply"}
    BY <1>14, <1>0 DEF Release, TypeInv
  <2> QED
    BY <2>1, <2>2, <2>3, SameRequests
<1>15. ASSUME NEW t \in Thread, Unlock(t) PROVE RequestInv'
  <2>1. requests' = requests /\ interrupt' = interrupt /\ block_sig' = block_sig /\ reply' = reply
    BY <1>15 DEF Unlock, ioVars, diskVars
  <2>2. \A u \in Thread : u # t => pc'[u] = pc[u] /\ blk'[u] = blk[u] /\ bufp'[u] = bufp[u] /\ writing'[u] = writing[u]
    BY <1>15, <1>0 DEF Unlock, TypeInv
  <2>3. pc[t] \notin {"await", "reply"} /\ pc'[t] \notin {"await", "reply"}
    BY <1>15, <1>0 DEF Unlock, TypeInv
  <2> QED
    BY <2>1, <2>2, <2>3, SameRequests
<1>16. ASSUME NEW i \in 1 .. 2, Serve(i) PROVE RequestInv'
  <2>1. PICK s \in Thread : s = requests[i].by
    BY <1>16, ServeFacts DEF Requests
  <2>2. UNCHANGED <<pc, blk, bufp, writing, block_sig, reply>>
    BY <1>16 DEF Serve, threadVars
  <2>3. /\ pc[s] = "await" /\ requests[i].num = blk[s] /\ requests[i].write = writing[s]
        /\ Requested(s) /\ \A u \in Thread : ~Answered(u)
    BY <1>16, <2>1, ServeFacts DEF IInv, RequestInv, Requested, Answered
  <2>4. \A u \in Thread : (Requested(u)' <=> Requested(u) /\ u # s) /\ (Answered(u)' <=> u = s)
    BY <1>16, <2>1, ServeFacts DEF Answered
  <2>5. \A j \in DOMAIN requests' : \E k \in DOMAIN requests : requests'[j] = requests[k]
    BY <1>16, ServeFacts
  <2>6. \A i_1 \in DOMAIN requests' :
          LET q == requests'[i_1]
          IN  pc[q.by] = "await" /\ q.num = blk[q.by] /\ q.buf = bufp[q.by] /\ q.write = writing[q.by]
    BY <2>5 DEF IInv, RequestInv
  <2>7. \A j, k \in DOMAIN requests' : j # k => requests'[j].by # requests'[k].by
    <3>1. \A j, k \in DOMAIN requests : j # k => requests[j].by # requests[k].by
      BY DEF IInv, RequestInv
    <3>2. SUFFICES ASSUME NEW j \in DOMAIN requests', NEW k \in DOMAIN requests', j # k
                   PROVE  requests'[j].by # requests'[k].by
      OBVIOUS
    <3>3. PICK m \in DOMAIN requests : requests'[j] = requests[m] /\ m = (IF j < i THEN j ELSE j + 1)
      BY <1>16, ServeFacts
    <3>4. PICK n \in DOMAIN requests : requests'[k] = requests[n] /\ n = (IF k < i THEN k ELSE k + 1)
      BY <1>16, ServeFacts
    <3>5. m # n
      BY <1>16, <3>2, <3>3, <3>4, ServeFacts
    <3> QED
      BY <3>1, <3>3, <3>4, <3>5
  <2>8. \A u \in Thread : Answered(u)' => At(u, "await")' /\ Mine(u, interrupt)' /\ ~Requested(u)'
    BY <1>16, <2>1, <2>2, <2>3, <2>4, ServeFacts DEF Mine
  <2>9. \A h \in Slot : block_sig[h] = 1 =>
            \E u \in Thread : At(u, "await")' /\ HashOf(u)' = h /\ Mine(u, reply[h])' /\ ~Requested(u)' /\ ~Answered(u)'
    <3>1. SUFFICES ASSUME NEW h \in Slot, block_sig[h] = 1
                   PROVE  \E u \in Thread : At(u, "await")' /\ HashOf(u)' = h /\ Mine(u, reply[h])'
                                            /\ ~Requested(u)' /\ ~Answered(u)'
      OBVIOUS
    <3>2. PICK u \in Thread : At(u, "await") /\ HashOf(u) = h /\ Mine(u, reply[h]) /\ ~Requested(u) /\ ~Answered(u)
      BY <3>1 DEF IInv, RequestInv
    <3> QED
      BY <3>2, <2>2, <2>3, <2>4 DEF Mine, HashOf
  <2>10. \A u \in Thread : At(u, "reply")' => Mine(u, reply[HashOf(u)])'
    BY <2>2 DEF IInv, RequestInv, Mine, HashOf
  <2> QED
    BY <2>2, <2>6, <2>7, <2>8, <2>9, <2>10 DEF RequestInv
<1>17. ASSUME Handle PROVE RequestInv'
  <2>1. PICK g : g = BLOCK_NUM_HASH(interrupt.num)
    OBVIOUS
  <2>2. PICK s \in Thread : s = interrupt.by /\ interrupt # NoReply
    BY <1>17, <1>0 DEF Handle, TypeInv, Answers
  <2>3. At(s, "await") /\ Mine(s, interrupt) /\ ~Requested(s) /\ HashOf(s) = g
    BY <2>1, <2>2 DEF IInv, RequestInv, Answered, Mine, HashOf
  <2>4. g \in Slot
    BY <2>3, Asked DEF IInv
  <2>5. UNCHANGED <<pc, blk, bufp, writing, requests>> /\ interrupt' = NoReply
    BY <1>17 DEF Handle, threadVars
  <2>6. reply'[g] = interrupt /\ \A h \in Slot : h # g => block_sig'[h] = block_sig[h] /\ reply'[h] = reply[h]
    BY <1>17, <2>1, <2>4, <1>0 DEF Handle, TypeInv
  <2>7. \A u \in Thread : (Requested(u)' <=> Requested(u)) /\ ~Answered(u)'
    BY <2>5 DEF Requested, Answered
  <2>8. \A h \in Slot : block_sig'[h] = 1 =>
            \E u \in Thread : At(u, "await")' /\ HashOf(u)' = h /\ Mine(u, reply'[h]) /\ ~Requested(u)' /\ ~Answered(u)'
    <3>1. SUFFICES ASSUME NEW h \in Slot, block_sig'[h] = 1
                   PROVE  \E u \in Thread : At(u, "await")' /\ HashOf(u)' = h /\ Mine(u, reply'[h])
                                            /\ ~Requested(u)' /\ ~Answered(u)'
      OBVIOUS
    <3>2. CASE h = g
      BY <3>2, <2>3, <2>5, <2>6, <2>7 DEF HashOf
    <3>3. CASE h # g
      <4>1. PICK u \in Thread : At(u, "await") /\ HashOf(u) = h /\ Mine(u, reply[h]) /\ ~Requested(u)
        BY <3>1, <3>3, <2>6 DEF IInv, RequestInv
      <4> QED
        BY <3>3, <4>1, <2>5, <2>6, <2>7 DEF HashOf
    <3> QED
      BY <3>2, <3>3
  <2>9. \A u \in Thread : At(u, "reply") => Mine(u, reply'[HashOf(u)])
    <3>1. SUFFICES ASSUME NEW u \in Thread, At(u, "reply") PROVE reply'[HashOf(u)] = reply[HashOf(u)]
      BY DEF IInv, RequestInv
    <3>2. u # s
      BY <3>1, <2>3
    <3>3. HashOf(u) # g /\ HashOf(u) \in Slot
      BY <3>1, <3>2, <2>3, OneHolder, Asked DEF IInv, Locked
    <3> QED
      BY <3>3, <2>6
  <2> QED
    BY <2>5, <2>7, <2>8, <2>9 DEF IInv, RequestInv, Mine, HashOf
<1>18. CASE UNCHANGED vars
  BY <1>18, SameRequests DEF vars, threadVars, ioVars, diskVars
<1> QED
  BY <1>1, <1>2, <1>3, <1>4, <1>5, <1>6, <1>7, <1>8, <1>9, <1>10, <1>11, <1>12, <1>13, <1>14, <1>15, <1>16, <1>17, <1>18 DEF Next, Step, Continue, GiveBack

\* What must not change for the counts to stay as they are.
LEMMA SameLimit ==
    ASSUME LimitInv, disk_lim' = disk_lim, requests' = requests,
           \A t \in Thread : pc'[t] \in IoPc \ {"limit"} <=> pc[t] \in IoPc \ {"limit"}
    PROVE  LimitInv'
<1>1. Limited' = Limited /\ Queued' = Queued
  BY DEF Limited, Queued, Requested
<1> QED
  BY <1>1 DEF LimitInv

(***************************************************************************)
(* The units of disk_lim are counted or taken, and every request counts.   *)
(***************************************************************************)
LEMMA LimitStep == ASSUME IInv, [Next]_vars PROVE LimitInv'
<1> USE DEF Goto, At, Pc
<1>0. TypeInv /\ TypeInv'
  BY TypeStep DEF IInv
<1>1. ASSUME NEW t \in Thread, NEW n \in Block, Bread(t, n) PROVE LimitInv'
  <2>1. \A u \in Thread : pc'[u] \in IoPc \ {"limit"} <=> pc[u] \in IoPc \ {"limit"}
    BY <1>1, <1>0 DEF Bread, IoPc, TypeInv
  <2> QED
    BY <1>1, <2>1, SameLimit DEF Bread, ioVars, diskVars, IInv
<1>2. ASSUME NEW t \in Thread, LockBlock(t) PROVE LimitInv'
  <2>1. \A u \in Thread : pc'[u] \in IoPc \ {"limit"} <=> pc[u] \in IoPc \ {"limit"}
    BY <1>2, <1>0 DEF LockBlock, IoPc, TypeInv
  <2> QED
    BY <1>2, <2>1, SameLimit DEF LockBlock, ioVars, diskVars, IInv
<1>3. ASSUME NEW t \in Thread, FindHit(t) PROVE LimitInv'
  <2>1. \A u \in Thread : pc'[u] \in IoPc \ {"limit"} <=> pc[u] \in IoPc \ {"limit"}
    BY <1>3, <1>0 DEF FindHit, IoPc, TypeInv
  <2> QED
    BY <1>3, <2>1, SameLimit DEF FindHit, ioVars, diskVars, IInv
<1>4. ASSUME NEW t \in Thread, FindMiss(t) PROVE LimitInv'
  <2>1. \A u \in Thread : pc'[u] \in IoPc \ {"limit"} <=> pc[u] \in IoPc \ {"limit"}
    BY <1>4, <1>0 DEF FindMiss, IoPc, TypeInv
  <2> QED
    BY <1>4, <2>1, SameLimit DEF FindMiss, ioVars, diskVars, IInv
<1>5. ASSUME NEW t \in Thread, Limit(t) PROVE LimitInv'
  <2>1. Limited' = Limited \cup {t} /\ t \notin Limited
    BY <1>5, <1>0 DEF Limit, Limited, IoPc, TypeInv
  <2>2. Queued' = Queued /\ Len(requests') = Len(requests)
    BY <1>5 DEF Limit, diskVars, Queued, Requested
  <2>3. IsFiniteSet(Limited') /\ Cardinality(Limited') = Cardinality(Limited) + 1
    BY <2>1, FS_AddElement DEF IInv, LimitInv
  <2>4. Cardinality(Limited) \in Nat /\ disk_lim \in Nat /\ disk_lim' = disk_lim - 1
    BY <1>5, <1>0, FS_CardinalityType DEF Limit, IInv, LimitInv, TypeInv
  <2> QED
    BY <2>2, <2>3, <2>4, BufferAssumption DEF IInv, LimitInv
<1>6. ASSUME NEW t \in Thread, LockDisk(t) PROVE LimitInv'
  <2>1. \A u \in Thread : pc'[u] \in IoPc \ {"limit"} <=> pc[u] \in IoPc \ {"limit"}
    <3>1. pc'[t] \in {"hung", "enqueue"} /\ pc[t] = "request" /\ \A u \in Thread : u # t => pc'[u] = pc[u]
      BY <1>6, <1>0 DEF LockDisk, TypeInv
    <3> QED
      BY <3>1 DEF IoPc
  <2> QED
    BY <1>6, <2>1, SameLimit DEF LockDisk, ioVars, diskVars, IInv
<1>7. ASSUME NEW t \in Thread, Enqueue(t) PROVE LimitInv'
  <2>1. Limited' = Limited /\ disk_lim' = disk_lim
    BY <1>7, <1>0 DEF Enqueue, Limited, IoPc, TypeInv
  <2>2. t \notin Queued
    BY <1>7 DEF Enqueue, IInv, RequestInv, Queued, Requested
  <2>3. PICK r : r.by = t /\ requests' = Append(requests, r)
    BY <1>7 DEF Enqueue
  <2>4. /\ DOMAIN requests' = 1 .. Len(requests) + 1
        /\ Len(requests') = Len(requests) + 1
        /\ requests'[Len(requests) + 1] = r
        /\ \A i \in 1 .. Len(requests) : requests'[i] = requests[i]
        /\ DOMAIN requests = 1 .. Len(requests) /\ Len(requests) \in Nat
    BY <2>3, <1>0 DEF TypeInv
  <2>5. Queued' = Queued \cup {t}
    BY <2>3, <2>4 DEF Queued, Requested
  <2>6. IsFiniteSet(Queued)
    <3>1. Queued \subseteq Limited
      BY DEF IInv, RequestInv, Queued, Requested, Limited, IoPc
    <3> QED
      BY <3>1, FS_Subset DEF IInv, LimitInv
  <2>7. Cardinality(Queued') = Cardinality(Queued) + 1
    BY <2>2, <2>5, <2>6, FS_AddElement
  <2> QED
    BY <2>1, <2>4, <2>7 DEF IInv, LimitInv
<1>8. ASSUME NEW t \in Thread, Await(t) PROVE LimitInv'
  <2>1. \A u \in Thread : pc'[u] \in IoPc \ {"limit"} <=> pc[u] \in IoPc \ {"limit"}
    BY <1>8, <1>0 DEF Await, IoPc, TypeInv
  <2> QED
    BY <1>8, <2>1, SameLimit DEF Await, ioVars, diskVars, IInv
<1>9. ASSUME NEW t \in Thread, Reply(t) PROVE LimitInv'
  <2>1. Limited' = Limited \ {t} /\ t \in Limited
    BY <1>9, <1>0 DEF Reply, Limited, IoPc, TypeInv
  <2>2. Queued' = Queued /\ Len(requests') = Len(requests)
    BY <1>9 DEF Reply, diskVars, Queued, Requested
  <2>3. IsFiniteSet(Limited') /\ Cardinality(Limited') = Cardinality(Limited) - 1
    BY <2>1, FS_RemoveElement DEF IInv, LimitInv
  <2>4. Cardinality(Limited) \in Nat /\ disk_lim \in Nat /\ disk_lim' = disk_lim + 1
    BY <1>9, <1>0, FS_CardinalityType DEF Reply, IInv, LimitInv, TypeInv
  <2> QED
    BY <2>2, <2>3, <2>4, BufferAssumption DEF IInv, LimitInv
<1>10. ASSUME NEW t \in Thread, Add(t) PROVE LimitInv'
  <2>1. \A u \in Thread : pc'[u] \in IoPc \ {"limit"} <=> pc[u] \in IoPc \ {"limit"}
    BY <1>10, <1>0 DEF Add, IoPc, TypeInv
  <2> QED
    BY <1>10, <2>1, SameLimit DEF Add, ioVars, diskVars, IInv
<1>11. ASSUME NEW t \in Thread, Pull(t) PROVE LimitInv'
  <2>1. \A u \in Thread : pc'[u] \in IoPc \ {"limit"} <=> pc[u] \in IoPc \ {"limit"}
    BY <1>11, <1>0 DEF Pull, IoPc, TypeInv
  <2> QED
    BY <1>11, <2>1, SameLimit DEF Pull, ioVars, diskVars, IInv
<1>12. ASSUME NEW t \in Thread, NEW v \in Value, Push(t, v) PROVE LimitInv'
  <2>1. \A u \in Thread : pc'[u] \in IoPc \ {"limit"} <=> pc[u] \in IoPc \ {"limit"}
    BY <1>12, <1>0 DEF Push, IoPc, TypeInv
  <2> QED
    BY <1>12, <2>1, SameLimit DEF Push, ioVars, diskVars, IInv
<1>13. ASSUME NEW t \in Thread, NEW v \in Value, DelayedPush(t, v) PROVE LimitInv'
  <2>1. \A u \in Thread : pc'[u] \in IoPc \ {"limit"} <=> pc[u] \in IoPc \ {"limit"}
    BY <1>13, <1>0 DEF DelayedPush, IoPc, TypeInv
  <2> QED
    BY <1>13, <2>1, SameLimit DEF DelayedPush, ioVars, diskVars, IInv
<1>14. ASSUME NEW t \in Thread, Release(t) PROVE LimitInv'
  <2>1. \A u \in Thread : pc'[u] \in IoPc \ {"limit"} <=> pc[u] \in IoPc \ {"limit"}
    BY <1>14, <1>0 DEF Release, IoPc, TypeInv
  <2> QED
    BY <1>14, <2>1, SameLimit DEF Release, ioVars, diskVars, IInv
<1>15. ASSUME NEW t \in Thread, Unlock(t) PROVE LimitInv'
  <2>1. \A u \in Thread : pc'[u] \in IoPc \ {"limit"} <=> pc[u] \in IoPc \ {"limit"}
    BY <1>15, <1>0 DEF Unlock, IoPc, TypeInv
  <2> QED
    BY <1>15, <2>1, SameLimit DEF Unlock, ioVars, diskVars, IInv
<1>16. ASSUME NEW i \in 1 .. 2, Serve(i) PROVE LimitInv'
  <2>1. Limited' = Limited /\ disk_lim' = disk_lim
    BY <1>16 DEF Serve, threadVars, Limited
  <2>2. PICK s \in Thread : s = requests[i].by
    BY <1>16, ServeFacts DEF Requests
  <2>3. Queued' = Queued \ {s} /\ s \in Queued
    BY <1>16, <2>2, ServeFacts DEF Queued, Requested
  <2>4. IsFiniteSet(Queued)
    <3>1. Queued \subseteq Limited
      BY DEF IInv, RequestInv, Queued, Requested, Limited, IoPc
    <3> QED
      BY <3>1, FS_Subset DEF IInv, LimitInv
  <2>5. Cardinality(Queued') = Cardinality(Queued) - 1
    BY <2>3, <2>4, FS_RemoveElement
  <2> QED
    BY <1>16, <2>1, <2>5, ServeFacts DEF IInv, LimitInv
<1>17. ASSUME Handle PROVE LimitInv'
  BY <1>17, SameLimit DEF Handle, threadVars, cacheVars, IInv
<1>18. CASE UNCHANGED vars
  BY <1>18, SameLimit DEF vars, threadVars, ioVars, diskVars, IInv
<1> QED
  BY <1>1, <1>2, <1>3, <1>4, <1>5, <1>6, <1>7, <1>8, <1>9, <1>10, <1>11, <1>12, <1>13, <1>14, <1>15, <1>16, <1>17, <1>18 DEF Next, Step, Continue, GiveBack

(***************************************************************************)
(* Steps that touch neither data nor disk: nobody may gain anything but    *)
(* what it had.                                                            *)
(***************************************************************************)
LEMMA SameData ==
    ASSUME IInv, buffer' = buffer, disk' = disk, latest' = latest, failed' = failed, lru' = lru,
           \A u \in Thread : /\ pc'[u] \in {"held", "release"} => pc[u] \in {"held", "release"}
                             /\ Reading(u)' => Reading(u)
                             /\ Writing(u)' => Writing(u)
                             /\ HasBuffer(u)' => blk'[u] = blk[u] /\ bufp'[u] = bufp[u]
                             /\ Served(u)' => Served(u)
    PROVE  DataInv'
<1>1. \A b : (Fresh(b)' <=> Fresh(b)) /\ (Settled(b)' <=> Settled(b))
  BY DEF Fresh, Settled, Stored
<1>2. \A n : Stored(n)' <=> Stored(n)
  BY DEF Stored
<1>3. Buffers' = Buffers
  BY DEF Buffers
<1>4. \A u \in Thread : pc'[u] \in {"held", "release"} \/ Reading(u)' \/ Writing(u)' => HasBuffer(u)'
  BY DEF Reading, Writing, HasBuffer, IoPc
<1> QED
  BY <1>1, <1>2, <1>3, <1>4 DEF IInv, DataInv

(***************************************************************************)
(* Steps of a thread s that has a buffer, or of the disk for it: what is   *)
(* said of other blocks does not change, so it is enough to look at s.     *)
(***************************************************************************)
OwnData(s, b, n) ==
    /\ b \in lru /\ n \notin failed => Settled(b)
    /\ pc[s] \in {"held", "release"} /\ n \notin failed => Settled(b)
    /\ Reading(s) /\ n \notin failed => Stored(n) /\ (Served(s) => Fresh(b))
    /\ Writing(s) /\ n \notin failed => Fresh(b) /\ (Served(s) => Stored(n))
    /\ Writing(s) => buffer[b].data \in Value

LEMMA OtherData ==
    ASSUME IInv, [Next]_vars, NEW s \in Thread, Holding(s), NEW b, b = bufp[s], NEW n, n = blk[s],
           Buffers' = Buffers, blk' = blk, bufp' = bufp, lru' \subseteq lru \cup {b}, failed \subseteq failed',
           \A c \in Buffers : c # b => buffer'[c] = buffer[c],
           \A m \in 0 .. DiskSize - 1 : m # n => disk'[m] = disk[m],
           \A m \in Block : m # n => latest'[m] = latest[m],
           \A u \in Thread : u # s => pc'[u] = pc[u] /\ writing'[u] = writing[u] /\ (Served(u)' => Served(u)),
           OwnData(s, b, n)'
    PROVE  DataInv'
<1>1. HasBuffer(s) /\ b \in Buffers /\ buffer[b].num = n /\ b \notin lru
  BY DEF Holding, HasBuffer, IInv, CallInv, LruInv
<1>2. \A c \in Buffers : c # b => buffer[c].num # n /\ buffer[c].num \in Block
  BY <1>1 DEF IInv, BufferInv, TypeInv
<1>3. \A m \in Block : m # n => (Stored(m)' <=> Stored(m))
  <2>1. \A m \in Block : m < DiskSize => m \in 0 .. DiskSize - 1
    BY BufferAssumption
  <2> QED
    BY <2>1 DEF Stored
<1>4. \A c \in Buffers : c # b => (Fresh(c)' <=> Fresh(c)) /\ (Settled(c)' <=> Settled(c))
  BY <1>2, <1>3 DEF Fresh, Settled
<1>5. \A u \in Thread : u # s /\ HasBuffer(u) =>
          bufp[u] # b /\ bufp[u] \in Buffers /\ blk[u] # n /\ blk[u] \in Block
  BY <1>1, OwnBuffer, OneHolder, Asked DEF IInv, CallInv, HasBuffer, Locked
<1>6. \A m \in Block \ failed' : (\A c \in Buffers : buffer'[c].num # m) => Stored(m)'
  BY <1>1, <1>3, NumsKept DEF IInv, DataInv
<1>7. \A c \in lru' : buffer'[c].num \notin failed' => Settled(c)'
  <2>1. lru \subseteq Buffers
    BY DEF IInv, TypeInv
  <2>2. SUFFICES ASSUME NEW c \in lru', c # b, buffer'[c].num \notin failed' PROVE Settled(c)'
    BY <1>1, NumsKept DEF OwnData
  <2> QED
    BY <2>1, <2>2, <1>4 DEF IInv, DataInv
<1>8. ASSUME NEW u \in Thread
      PROVE  /\ pc'[u] \in {"held", "release"} /\ blk'[u] \notin failed' => Settled(bufp[u])'
             /\ Reading(u)' /\ blk'[u] \notin failed' => Stored(blk[u])' /\ (Served(u)' => Fresh(bufp[u])')
             /\ Writing(u)' /\ blk'[u] \notin failed' => Fresh(bufp[u])' /\ (Served(u)' => Stored(blk[u])')
             /\ Writing(u)' => buffer'[bufp'[u]].data \in Value
  <2>1. CASE u = s
    BY <2>1 DEF OwnData, Settled, Fresh, Stored
  <2>2. CASE u # s
    <3>1. /\ pc'[u] = pc[u] /\ (Reading(u)' <=> Reading(u)) /\ (Writing(u)' <=> Writing(u))
          /\ (Served(u)' => Served(u))
      BY <2>2 DEF Reading, Writing
    <3>2. pc[u] \in {"held", "release"} \/ Reading(u) \/ Writing(u) => HasBuffer(u)
      BY DEF Reading, Writing, HasBuffer, IoPc
    <3>3. HasBuffer(u) => /\ bufp[u] # b /\ bufp[u] \in Buffers /\ blk[u] # n
                          /\ (Stored(blk[u])' <=> Stored(blk[u]))
                          /\ (Fresh(bufp[u])' <=> Fresh(bufp[u]))
                          /\ (Settled(bufp[u])' <=> Settled(bufp[u]))
      <4>1. SUFFICES ASSUME HasBuffer(u) PROVE /\ bufp[u] # b /\ bufp[u] \in Buffers /\ blk[u] # n
                                               /\ (Stored(blk[u])' <=> Stored(blk[u]))
                                               /\ (Fresh(bufp[u])' <=> Fresh(bufp[u]))
                                               /\ (Settled(bufp[u])' <=> Settled(bufp[u]))
        OBVIOUS
      <4>2. PICK c, m : c = bufp[u] /\ m = blk[u]
        OBVIOUS
      <4>3. c \in Buffers /\ c # b /\ m # n /\ m \in Block
        BY <4>1, <4>2, <1>5, <2>2
      <4>4. (Stored(m)' <=> Stored(m)) /\ (Fresh(c)' <=> Fresh(c)) /\ (Settled(c)' <=> Settled(c))
        BY <4>3, <1>3, <1>4
      <4> QED
        BY <4>2, <4>3, <4>4 DEF Stored, Fresh, Settled
    <3> QED
      BY <3>1, <3>2, <3>3, <2>2 DEF IInv, DataInv
  <2> QED
    BY <2>1, <2>2
<1> QED
  BY <1>6, <1>7, <1>8 DEF DataInv

(***************************************************************************)
(* What was last written stays in the buffer or on the disk.               *)
(***************************************************************************)
LEMMA DataStep == ASSUME IInv, [Next]_vars PROVE DataInv'
<1> USE DEF Goto, At, Pc, IoPc
<1>0. TypeInv /\ TypeInv'
  BY TypeStep DEF IInv
<1>1. ASSUME NEW t \in Thread, NEW n \in Block, Bread(t, n) PROVE DataInv'
  <2>1. UNCHANGED <<buffer, disk, latest, failed, lru, requests>>
    BY <1>1 DEF Bread, cacheVars, ioVars, diskVars
  <2>2. \A u \in Thread : u # t => pc'[u] = pc[u] /\ writing'[u] = writing[u] /\ blk'[u] = blk[u] /\ bufp'[u] = bufp[u]
    BY <1>1, <1>0 DEF Bread, TypeInv
  <2>3. \A u \in Thread : Requested(u)' <=> Requested(u)
    BY <2>1 DEF Requested
  <2>4. /\ pc'[t] \in {"held", "release"} => pc[t] \in {"held", "release"}
        /\ (Reading(t)' => Reading(t)) /\ (Writing(t)' => Writing(t))
        /\ (HasBuffer(t)' => blk'[t] = blk[t] /\ bufp'[t] = bufp[t]) /\ (Served(t)' => Served(t))
    BY <1>1, <1>0 DEF Bread, TypeInv, Reading, Writing, HasBuffer, Served
  <2> QED
    BY <2>1, <2>2, <2>3, <2>4, SameData DEF Reading, Writing, HasBuffer, Served
<1>2. ASSUME NEW t \in Thread, LockBlock(t) PROVE DataInv'
  <2>1. UNCHANGED <<buffer, disk, latest, failed, lru, requests>>
    BY <1>2 DEF LockBlock, cacheVars, ioVars, diskVars
  <2>2. \A u \in Thread : u # t => pc'[u] = pc[u] /\ writing'[u] = writing[u] /\ blk'[u] = blk[u] /\ bufp'[u] = bufp[u]
    BY <1>2, <1>0 DEF LockBlock, TypeInv
  <2>3. \A u \in Thread : Requested(u)' <=> Requested(u)
    BY <2>1 DEF Requested
  <2>4. /\ pc'[t] \in {"held", "release"} => pc[t] \in {"held", "release"}
        /\ (Reading(t)' => Reading(t)) /\ (Writing(t)' => Writing(t))
        /\ (HasBuffer(t)' => blk'[t] = blk[t] /\ bufp'[t] = bufp[t]) /\ (Served(t)' => Served(t))
    BY <1>2, <1>0 DEF LockBlock, TypeInv, Reading, Writing, HasBuffer, Served
  <2> QED
    BY <2>1, <2>2, <2>3, <2>4, SameData DEF Reading, Writing, HasBuffer, Served
<1>3. ASSUME NEW t \in Thread, FindHit(t) PROVE DataInv'
  <2>0. PICK b, n : b = First(blk[t]) /\ n = blk[t]
    OBVIOUS
  <2>1. b \in Buffers /\ buffer[b].num = n /\ pc[t] = "find" /\ n \in Block
    BY <1>3, <2>0, FirstFacts, Asked DEF FindHit, IInv
  <2>2. b \in lru
    <3>1. SUFFICES ASSUME NEW u \in Thread, Holding(u), bufp[u] = b PROVE FALSE
      BY <2>1 DEF IInv, LruInv
    <3>2. blk[u] = n /\ Locked(u) /\ Locked(t) /\ u # t
      BY <3>1, <2>1 DEF Holding, Locked, IInv, CallInv, HasBuffer
    <3> QED
      BY <3>2, <2>0, OneHolder DEF IInv
  <2>3. /\ UNCHANGED <<buffer, disk, latest, failed, requests, blk, writing>> /\ lru' = lru \ {b}
        /\ bufp'[t] = b /\ pc'[t] = "held"
        /\ \A u \in Thread : u # t => pc'[u] = pc[u] /\ bufp'[u] = bufp[u]
    BY <1>3, <2>0, <1>0 DEF FindHit, ioVars, diskVars, TypeInv
  <2>4. \A u \in Thread : Requested(u)' <=> Requested(u)
    BY <2>3 DEF Requested
  <2>5. \A c : (Fresh(c)' <=> Fresh(c)) /\ (Settled(c)' <=> Settled(c)) /\ (Stored(c)' <=> Stored(c))
    BY <2>3 DEF Fresh, Settled, Stored
  <2>6. n \notin failed => Settled(b)
    BY <2>1, <2>2 DEF IInv, DataInv
  <2>7. ~Reading(t)' /\ ~Writing(t)'
    BY <2>3 DEF Reading, Writing
  <2>8. Buffers' = Buffers
    BY <2>3 DEF Buffers
  <2>9. \A u \in Thread : u # t => /\ Reading(u)' <=> Reading(u)
                                   /\ Writing(u)' <=> Writing(u)
                                   /\ Served(u)' <=> Served(u)
    BY <2>3, <2>4 DEF Reading, Writing, Served
  <2>10. \A u \in Thread : pc'[u] \in {"held", "release"} /\ blk'[u] \notin failed' => Settled(bufp'[u])
    BY <2>0, <2>3, <2>6 DEF IInv, DataInv
  <2>11. \A u \in Thread : Reading(u)' /\ blk[u] \notin failed => Stored(blk[u]) /\ (Served(u)' => Fresh(bufp'[u]))
    BY <2>3, <2>7, <2>9 DEF IInv, DataInv
  <2>12. \A u \in Thread : Writing(u)' /\ blk[u] \notin failed => Fresh(bufp'[u]) /\ (Served(u)' => Stored(blk[u]))
    BY <2>3, <2>7, <2>9 DEF IInv, DataInv
  <2>13. \A u \in Thread : Writing(u)' => buffer[bufp'[u]].data \in Value
    BY <2>3, <2>7, <2>9 DEF IInv, DataInv
  <2> QED
    BY <2>3, <2>8, <2>10, <2>11, <2>12, <2>13 DEF IInv, DataInv, Settled, Fresh, Stored
<1>4. ASSUME NEW t \in Thread, FindMiss(t) PROVE DataInv'
  <2>0. PICK b, n : b = NewBuffer(blk[t]) /\ n = blk[t]
    OBVIOUS
  <2>1. /\ Buffers' = Buffers \cup {b} /\ b \notin Buffers /\ n \in Block /\ pc[t] = "find"
        /\ \A c \in Buffers : buffer'[c] = buffer[c] /\ buffer[c].num # n
    BY <1>4, <2>0, MissFacts, Asked DEF FindMiss, Buffers, IInv
  <2>2. /\ UNCHANGED <<disk, latest, failed, requests, blk, writing, lru>>
        /\ bufp'[t] = b /\ pc'[t] = "limit"
        /\ \A u \in Thread : u # t => pc'[u] = pc[u] /\ bufp'[u] = bufp[u]
    BY <1>4, <2>0, <1>0 DEF FindMiss, ioVars, diskVars, TypeInv
  <2>3. \A u \in Thread : Requested(u)' <=> Requested(u)
    BY <2>2 DEF Requested
  <2>4. \A m : Stored(m)' <=> Stored(m)
    BY <2>2 DEF Stored
  <2>5. \A c \in Buffers : (Fresh(c)' <=> Fresh(c)) /\ (Settled(c)' <=> Settled(c))
    BY <2>1, <2>2 DEF Fresh, Settled, Stored
  <2>6. n \notin failed => Stored(n)
    BY <2>1 DEF IInv, DataInv
  <2>7. ~Writing(t)' /\ ~Served(t)'
    BY <2>1, <2>2 DEF Writing, Served, IInv, CallInv
  <2>8. \A u \in Thread : u # t => /\ Reading(u)' <=> Reading(u)
                                   /\ Writing(u)' <=> Writing(u)
                                   /\ Served(u)' <=> Served(u)
    BY <2>2, <2>3 DEF Reading, Writing, Served
  <2>9. \A u \in Thread : HasBuffer(u) => bufp[u] \in Buffers
    BY DEF IInv, CallInv
  <2>10. \A m \in Block \ failed' : (\A c \in Buffers' : buffer'[c].num # m) => Stored(m)'
    BY <2>1, <2>2, <2>4 DEF IInv, DataInv
  <2>11. \A c \in lru' : buffer'[c].num \notin failed' => Settled(c)'
    BY <2>1, <2>2, <2>5, <1>0 DEF IInv, DataInv, TypeInv
  <2>12. ASSUME NEW u \in Thread
         PROVE  /\ pc'[u] \in {"held", "release"} /\ blk'[u] \notin failed' => Settled(bufp[u])'
                /\ Reading(u)' /\ blk'[u] \notin failed' => Stored(blk[u])' /\ (Served(u)' => Fresh(bufp[u])')
                /\ Writing(u)' /\ blk'[u] \notin failed' => Fresh(bufp[u])' /\ (Served(u)' => Stored(blk[u])')
                /\ Writing(u)' => buffer'[bufp'[u]].data \in Value
    <3>1. CASE u = t
      BY <3>1, <2>0, <2>2, <2>6, <2>7 DEF Stored
    <3>2. CASE u # t
      <4>1. PICK c : c = bufp[u]
        OBVIOUS
      <4>2. HasBuffer(u) => buffer'[c] = buffer[c] /\ (Fresh(c)' <=> Fresh(c)) /\ (Settled(c)' <=> Settled(c))
        BY <4>1, <2>1, <2>5, <2>9
      <4>3. pc[u] \in {"held", "release"} \/ Reading(u) \/ Writing(u) => HasBuffer(u)
        BY DEF Reading, Writing, HasBuffer, IoPc
      <4>4. HasBuffer(u) => /\ buffer'[bufp'[u]] = buffer[bufp[u]]
                            /\ Fresh(bufp[u])' <=> Fresh(bufp[u])
                            /\ Settled(bufp[u])' <=> Settled(bufp[u])
        BY <4>1, <4>2, <3>2, <2>2 DEF Fresh, Settled, Stored
      <4>5. Stored(blk[u])' <=> Stored(blk[u])
        BY <2>2 DEF Stored
      <4> QED
        BY <3>2, <4>3, <4>4, <4>5, <2>2, <2>8 DEF IInv, DataInv
    <3> QED
      BY <3>1, <3>2
  <2> QED
    BY <2>10, <2>11, <2>12 DEF DataInv
<1>5. ASSUME NEW t \in Thread, Limit(t) PROVE DataInv'
  <2>1. UNCHANGED <<buffer, disk, latest, failed, lru, requests>>
    BY <1>5 DEF Limit, cacheVars, ioVars, diskVars
  <2>2. \A u \in Thread : u # t => pc'[u] = pc[u] /\ writing'[u] = writing[u] /\ blk'[u] = blk[u] /\ bufp'[u] = bufp[u]
    BY <1>5, <1>0 DEF Limit, TypeInv
  <2>3. \A u \in Thread : Requested(u)' <=> Requested(u)
    BY <2>1 DEF Requested
  <2>4. /\ pc'[t] \in {"held", "release"} => pc[t] \in {"held", "release"}
        /\ (Reading(t)' => Reading(t)) /\ (Writing(t)' => Writing(t))
        /\ (HasBuffer(t)' => blk'[t] = blk[t] /\ bufp'[t] = bufp[t]) /\ (Served(t)' => Served(t))
    BY <1>5, <1>0 DEF Limit, TypeInv, Reading, Writing, HasBuffer, Served
  <2> QED
    BY <2>1, <2>2, <2>3, <2>4, SameData DEF Reading, Writing, HasBuffer, Served
<1>6. ASSUME NEW t \in Thread, LockDisk(t) PROVE DataInv'
  <2>1. UNCHANGED <<buffer, disk, latest, failed, lru, requests, writing, blk, bufp>>
    BY <1>6 DEF LockDisk, cacheVars, ioVars, diskVars
  <2>2. pc[t] = "request" /\ pc'[t] \in {"hung", "enqueue"} /\ \A u \in Thread : u # t => pc'[u] = pc[u]
    BY <1>6, <1>0 DEF LockDisk, TypeInv
  <2>3. \A u \in Thread : Requested(u)' <=> Requested(u)
    BY <2>1 DEF Requested
  <2>4. \A u \in Thread : /\ pc'[u] \in {"held", "release"} => pc[u] \in {"held", "release"}
                          /\ Reading(u)' => Reading(u)
                          /\ Writing(u)' => Writing(u)
                          /\ Served(u)' => Served(u)
    BY <2>1, <2>2, <2>3 DEF Reading, Writing, Served
  <2> QED
    BY <2>1, <2>4, SameData
<1>7. ASSUME NEW t \in Thread, Enqueue(t) PROVE DataInv'
  <2>1. UNCHANGED <<buffer, disk, latest, failed, lru, writing, blk, bufp>>
    BY <1>7 DEF Enqueue, cacheVars
  <2>2. pc[t] = "enqueue" /\ pc'[t] = "await" /\ \A u \in Thread : u # t => pc'[u] = pc[u]
    BY <1>7, <1>0 DEF Enqueue, TypeInv
  <2>3. PICK r : r.by = t /\ requests' = Append(requests, r)
    BY <1>7 DEF Enqueue
  <2>4. /\ DOMAIN requests' = 1 .. Len(requests) + 1
        /\ requests'[Len(requests) + 1] = r
        /\ \A i \in 1 .. Len(requests) : requests'[i] = requests[i]
        /\ DOMAIN requests = 1 .. Len(requests) /\ Len(requests) \in Nat
    BY <2>3, <1>0 DEF TypeInv
  <2>5. Requested(t)' /\ \A u \in Thread : Requested(u) => Requested(u)'
    BY <2>3, <2>4 DEF Requested
  <2>6. \A u \in Thread : /\ pc'[u] \in {"held", "release"} => pc[u] \in {"held", "release"}
                          /\ Reading(u)' => Reading(u)
                          /\ Writing(u)' => Writing(u)
                          /\ Served(u)' => Served(u)
    BY <2>1, <2>2, <2>5 DEF Reading, Writing, Served
  <2> QED
    BY <2>1, <2>6, SameData
<1>8. ASSUME NEW t \in Thread, Await(t) PROVE DataInv'
  <2>1. UNCHANGED <<buffer, disk, latest, failed, lru, requests, writing, blk, bufp>>
    BY <1>8 DEF Await, cacheVars, diskVars
  <2>2. pc[t] = "await" /\ pc'[t] = "reply" /\ \A u \in Thread : u # t => pc'[u] = pc[u]
    BY <1>8, <1>0 DEF Await, TypeInv
  <2>3. \A u \in Thread : Requested(u)' <=> Requested(u)
    BY <2>1 DEF Requested
  <2>4. ~Requested(t)
    <3>1. HashOf(t) \in Slot /\ block_sig[HashOf(t)] = 1
      BY <1>8, <1>0, Asked DEF Await, IInv, TypeInv
    <3>2. PICK u \in Thread : At(u, "await") /\ HashOf(u) = HashOf(t) /\ ~Requested(u)
      BY <3>1 DEF IInv, RequestInv
    <3> QED
      BY <3>2, <2>2, OneHolder DEF IInv, Locked
  <2>5. \A u \in Thread : /\ pc'[u] \in {"held", "release"} => pc[u] \in {"held", "release"}
                          /\ Reading(u)' => Reading(u)
                          /\ Writing(u)' => Writing(u)
                          /\ Served(u)' => Served(u)
    BY <2>1, <2>2, <2>3, <2>4 DEF Reading, Writing, Served
  <2> QED
    BY <2>1, <2>5, SameData
<1>9. ASSUME NEW t \in Thread, Reply(t) PROVE DataInv'
  <2>0. PICK b, n : b = bufp[t] /\ n = blk[t]
    OBVIOUS
  <2>1. /\ Holding(t) /\ b \in Buffers /\ buffer[b].num = n /\ n \in Block
        /\ pc[t] = "reply" /\ pc'[t] = (IF writing[t] THEN "release" ELSE "add")
    BY <1>9, <2>0, <1>0, Asked DEF Reply, Holding, HasBuffer, IInv, CallInv, TypeInv
  <2>2. UNCHANGED <<blk, bufp, writing, lru, disk, latest, failed, requests>>
    BY <1>9 DEF Reply, diskVars
  <2>3. /\ Buffers' = Buffers /\ buffer'[b].num = n /\ buffer'[b].data = buffer[b].data
        /\ \A c \in Buffers : c # b => buffer'[c] = buffer[c]
    <3>1. CASE buffer' = buffer
      BY <3>1, <2>1 DEF Buffers
    <3>2. CASE buffer' = [buffer EXCEPT ![b].state = "CLEAN"]
      BY <3>2, <2>1, <1>0, ZenonT(30) DEF TypeInv, Buffers
    <3> QED
      BY <1>9, <2>0, <3>1, <3>2 DEF Reply
  <2>4. \A u \in Thread : u # t => pc'[u] = pc[u] /\ (Served(u)' => Served(u))
    BY <1>9, <2>2, <1>0 DEF Reply, Served, Requested, TypeInv
  <2>5. b \notin lru
    BY <2>0, <2>1 DEF IInv, LruInv
  <2>6. writing[t] /\ n \notin failed => Fresh(b) /\ Stored(n)
    BY <2>0, <2>1 DEF IInv, DataInv, Writing, Served
  <2>7. ~writing[t] /\ n \notin failed => Fresh(b) /\ Stored(n)
    BY <2>0, <2>1 DEF IInv, DataInv, Reading, Served
  <2>8. writing[t] \in BOOLEAN
    BY <1>0 DEF TypeInv
  <2>9. OwnData(t, b, n)'
    BY <2>1, <2>2, <2>3, <2>5, <2>6, <2>7, <2>8 DEF OwnData, Settled, Fresh, Stored, Reading, Writing, Served
  <2>10. \A c \in Buffers : c # b => buffer'[c] = buffer[c]
    BY <2>3
  <2> QED
    BY <2>0, <2>1, <2>2, <2>3, <2>4, <2>9, <2>10, OtherData
<1>10. ASSUME NEW t \in Thread, Add(t) PROVE DataInv'
  <2>0. PICK b, n : b = bufp[t] /\ n = blk[t]
    OBVIOUS
  <2>1. /\ Holding(t) /\ b \in Buffers /\ buffer[b].num = n /\ n \in Block
        /\ pc[t] = "add" /\ pc'[t] = "held" /\ ~writing[t]
    BY <1>10, <2>0, <1>0, Asked DEF Add, Holding, HasBuffer, IInv, CallInv, TypeInv
  <2>2. UNCHANGED <<blk, bufp, writing, lru, disk, latest, failed, requests, buffer>> /\ Buffers' = Buffers
    BY <1>10 DEF Add, ioVars, diskVars, Buffers
  <2>3. \A u \in Thread : u # t => pc'[u] = pc[u] /\ (Served(u)' => Served(u))
    BY <1>10, <2>2, <1>0 DEF Add, Served, Requested, TypeInv
  <2>4. b \notin lru
    BY <2>0, <2>1 DEF IInv, LruInv
  <2>5. n \notin failed => Fresh(b) /\ Stored(n)
    BY <2>0, <2>1 DEF IInv, DataInv, Reading, Served
  <2>6. OwnData(t, b, n)'
    BY <2>1, <2>2, <2>4, <2>5 DEF OwnData, Settled, Fresh, Stored, Reading, Writing
  <2> QED
    BY <2>0, <2>1, <2>2, <2>3, <2>6, OtherData
<1>11. ASSUME NEW t \in Thread, Pull(t) PROVE DataInv'
  <2>1. UNCHANGED <<buffer, disk, latest, failed, lru, requests>>
    BY <1>11 DEF Pull, cacheVars, ioVars, diskVars
  <2>2. \A u \in Thread : u # t => pc'[u] = pc[u] /\ writing'[u] = writing[u] /\ blk'[u] = blk[u] /\ bufp'[u] = bufp[u]
    BY <1>11, <1>0 DEF Pull, TypeInv
  <2>3. \A u \in Thread : Requested(u)' <=> Requested(u)
    BY <2>1 DEF Requested
  <2>4. /\ pc'[t] \in {"held", "release"} => pc[t] \in {"held", "release"}
        /\ (Reading(t)' => Reading(t)) /\ (Writing(t)' => Writing(t))
        /\ (HasBuffer(t)' => blk'[t] = blk[t] /\ bufp'[t] = bufp[t]) /\ (Served(t)' => Served(t))
    BY <1>11, <1>0 DEF Pull, TypeInv, Reading, Writing, HasBuffer, Served
  <2> QED
    BY <2>1, <2>2, <2>3, <2>4, SameData DEF Reading, Writing, HasBuffer, Served
<1>12. ASSUME NEW t \in Thread, NEW v \in Value, Push(t, v) PROVE DataInv'
  <2>0. PICK b, n : b = bufp[t] /\ n = blk[t]
    OBVIOUS
  <2>1. Holding(t) /\ HasBuffer(t) /\ b \in Buffers /\ buffer[b].num = n /\ n \in Block /\ pc[t] = "held"
    BY <1>12, <2>0, Asked DEF Push, Holding, HasBuffer, IInv, CallInv
  <2>2. /\ UNCHANGED <<blk, bufp, lru, disk, failed, requests>> /\ Buffers' = Buffers
        /\ \A c \in Buffers : c # b => buffer'[c] = buffer[c]
        /\ buffer'[b].num = n /\ buffer'[b].data = v
        /\ latest'[n] = v /\ \A m \in Block : m # n => latest'[m] = latest[m]
    BY <1>12, <2>0, <2>1, <1>0 DEF Push, Fill, ioVars, diskVars, TypeInv, Buffers
  <2>3. \A u \in Thread : Requested(u)' <=> Requested(u)
    BY <2>2 DEF Requested
  <2>4. \A u \in Thread : u # t => pc'[u] = pc[u] /\ writing'[u] = writing[u] /\ (Served(u)' => Served(u))
    BY <1>12, <2>3, <1>0 DEF Push, Served, TypeInv
  <2>5. n \notin failed => n < DiskSize
    BY <2>0, <2>1 DEF IInv, DataInv, Settled, Fresh
  <2>6. b \notin lru
    BY <2>0, <2>1 DEF IInv, LruInv
  <2>7. pc'[t] = "limit" /\ writing'[t]
    BY <1>12, <1>0 DEF Push, TypeInv
  <2>8. OwnData(t, b, n)'
    BY <2>2, <2>5, <2>6, <2>7 DEF OwnData, Settled, Fresh, Stored, Reading, Writing, Served
  <2>9. \A c \in Buffers : c # b => buffer'[c] = buffer[c]
    BY <2>2
  <2> QED
    BY <2>0, <2>1, <2>2, <2>4, <2>8, <2>9, OtherData
<1>13. ASSUME NEW t \in Thread, NEW v \in Value, DelayedPush(t, v) PROVE DataInv'
  <2>0. PICK b, n : b = bufp[t] /\ n = blk[t]
    OBVIOUS
  <2>1. Holding(t) /\ HasBuffer(t) /\ b \in Buffers /\ buffer[b].num = n /\ n \in Block /\ pc[t] = "held"
    BY <1>13, <2>0, Asked DEF DelayedPush, Holding, HasBuffer, IInv, CallInv
  <2>2. /\ UNCHANGED <<blk, bufp, lru, disk, failed, requests>> /\ Buffers' = Buffers
        /\ \A c \in Buffers : c # b => buffer'[c] = buffer[c]
        /\ buffer'[b].num = n /\ buffer'[b].data = v
        /\ latest'[n] = v /\ \A m \in Block : m # n => latest'[m] = latest[m]
    BY <1>13, <2>0, <2>1, <1>0 DEF DelayedPush, Fill, ioVars, diskVars, TypeInv, Buffers
  <2>3. \A u \in Thread : Requested(u)' <=> Requested(u)
    BY <2>2 DEF Requested
  <2>4. \A u \in Thread : u # t => pc'[u] = pc[u] /\ writing'[u] = writing[u] /\ (Served(u)' => Served(u))
    BY <1>13, <2>3, <1>0 DEF DelayedPush, Served, TypeInv
  <2>5. n \notin failed => n < DiskSize
    BY <2>0, <2>1 DEF IInv, DataInv, Settled, Fresh
  <2>6. b \notin lru
    BY <2>0, <2>1 DEF IInv, LruInv
  <2>7. pc'[t] = "release" /\ buffer'[b].state = "DIRTY"
    BY <1>13, <2>0, <2>1, <1>0 DEF DelayedPush, Fill, TypeInv
  <2>8. OwnData(t, b, n)'
    BY <2>2, <2>5, <2>6, <2>7 DEF OwnData, Settled, Fresh, Stored, Reading, Writing, Served
  <2>9. \A c \in Buffers : c # b => buffer'[c] = buffer[c]
    BY <2>2
  <2> QED
    BY <2>0, <2>1, <2>2, <2>4, <2>8, <2>9, OtherData
<1>14. ASSUME NEW t \in Thread, Release(t) PROVE DataInv'
  <2>0. PICK b, n : b = bufp[t] /\ n = blk[t]
    OBVIOUS
  <2>1. /\ Holding(t) /\ b \in Buffers /\ buffer[b].num = n /\ n \in Block
        /\ pc[t] = "release" /\ pc'[t] = "unlock"
    BY <1>14, <2>0, <1>0, Asked DEF Release, Holding, HasBuffer, IInv, CallInv, TypeInv
  <2>2. UNCHANGED <<blk, bufp, writing, disk, latest, failed, requests, buffer>> /\ Buffers' = Buffers
        /\ lru' = lru \cup {b}
    BY <1>14, <2>0 DEF Release, ioVars, diskVars, Buffers
  <2>3. \A u \in Thread : u # t => pc'[u] = pc[u] /\ (Served(u)' => Served(u))
    BY <1>14, <2>2, <1>0 DEF Release, Served, Requested, TypeInv
  <2>4. n \notin failed => Settled(b)
    BY <2>0, <2>1 DEF IInv, DataInv
  <2>5. Settled(b)' <=> Settled(b)
    BY <2>2 DEF Settled, Fresh, Stored
  <2>6. ~Reading(t)' /\ ~Writing(t)'
    BY <2>1 DEF Reading, Writing
  <2>7. OwnData(t, b, n)'
    BY <2>1, <2>2, <2>4, <2>5, <2>6 DEF OwnData
  <2> QED
    BY <2>0, <2>1, <2>2, <2>3, <2>7, OtherData
<1>15. ASSUME NEW t \in Thread, Unlock(t) PROVE DataInv'
  <2>1. UNCHANGED <<buffer, disk, latest, failed, lru, requests>>
    BY <1>15 DEF Unlock, cacheVars, ioVars, diskVars
  <2>2. \A u \in Thread : u # t => pc'[u] = pc[u] /\ writing'[u] = writing[u] /\ blk'[u] = blk[u] /\ bufp'[u] = bufp[u]
    BY <1>15, <1>0 DEF Unlock, TypeInv
  <2>3. \A u \in Thread : Requested(u)' <=> Requested(u)
    BY <2>1 DEF Requested
  <2>4. /\ pc'[t] \in {"held", "release"} => pc[t] \in {"held", "release"}
        /\ (Reading(t)' => Reading(t)) /\ (Writing(t)' => Writing(t))
        /\ (HasBuffer(t)' => blk'[t] = blk[t] /\ bufp'[t] = bufp[t]) /\ (Served(t)' => Served(t))
    BY <1>15, <1>0 DEF Unlock, TypeInv, Reading, Writing, HasBuffer, Served
  <2> QED
    BY <2>1, <2>2, <2>3, <2>4, SameData DEF Reading, Writing, HasBuffer, Served
<1>16. ASSUME NEW i \in 1 .. 2, Serve(i) PROVE DataInv'
  <2>0. PICK s \in Thread : s = requests[i].by
    BY <1>16, ServeFacts DEF Requests
  <2>1. PICK b, n : b = bufp[s] /\ n = blk[s]
    OBVIOUS
  <2>2. /\ requests[i].num = n /\ requests[i].buf = b /\ requests[i].write = writing[s]
        /\ pc[s] = "await" /\ i \in DOMAIN requests /\ Requested(s)
    BY <1>16, <2>0, <2>1, ServeFacts DEF IInv, RequestInv, Requested
  <2>3. Holding(s) /\ b \in Buffers /\ buffer[b].num = n /\ n \in Block /\ b \notin lru
    BY <2>1, <2>2, Asked DEF Holding, HasBuffer, IInv, CallInv, LruInv
  <2>4. UNCHANGED <<pc, blk, bufp, writing, lru, latest>>
    BY <1>16 DEF Serve, threadVars
  <2>5. \A u \in Thread : Requested(u)' <=> Requested(u) /\ u # s
    BY <1>16, <2>0, ServeFacts
  <2>6. \A u \in Thread : u # s => pc'[u] = pc[u] /\ writing'[u] = writing[u] /\ (Served(u)' => Served(u))
    BY <2>4, <2>5 DEF Served
  <2>7. writing[s] \in BOOLEAN /\ (Reading(s)' <=> ~writing[s]) /\ (Writing(s)' <=> writing[s])
    BY <2>2, <2>4, <1>0 DEF Reading, Writing, TypeInv
  <2>8. Reading(s) \/ Writing(s) => (n \notin failed => (writing[s] => Fresh(b)) /\ (~writing[s] => Stored(n)))
    BY <2>1 DEF IInv, DataInv, Reading, Writing
  <2>9. writing[s] => buffer[b].data \in Value
    BY <2>1, <2>2 DEF IInv, DataInv, Writing
  <2>10. Reading(s) \/ Writing(s)
    BY <2>2, <2>7 DEF Reading, Writing
  <2>11. CASE Transfer(requests[i]) /\ writing[s]
    <3>1. n < DiskSize /\ disk' = [disk EXCEPT ![n] = buffer[b].data] /\ buffer' = buffer /\ failed' = failed
      BY <2>2, <2>11 DEF Transfer
    <3>2. n \in 0 .. DiskSize - 1 /\ disk'[n] = buffer[b].data /\ \A m \in 0 .. DiskSize - 1 : m # n => disk'[m] = disk[m]
      BY <3>1, <2>3, <1>0, BufferAssumption DEF TypeInv
    <3>3. OwnData(s, b, n)'
      BY <2>2, <2>3, <2>4, <2>7, <2>8, <2>9, <2>10, <2>11, <3>1, <3>2 DEF OwnData, Fresh, Stored
    <3>4. Buffers' = Buffers
      BY <3>1 DEF Buffers
    <3> QED
      BY <2>1, <2>3, <2>4, <2>6, <3>1, <3>2, <3>3, <3>4, OtherData
  <2>12. CASE Transfer(requests[i]) /\ ~writing[s]
    <3>1. n < DiskSize /\ buffer' = [buffer EXCEPT ![b].data = disk[n]] /\ disk' = disk /\ failed' = failed
      BY <2>2, <2>12 DEF Transfer
    <3>2. /\ Buffers' = Buffers /\ buffer'[b].data = disk[n] /\ buffer'[b].num = n
          /\ \A c \in Buffers : c # b => buffer'[c] = buffer[c]
      BY <3>1, <2>3, <1>0 DEF TypeInv, Buffers
    <3>3. OwnData(s, b, n)'
      BY <2>2, <2>3, <2>4, <2>7, <2>8, <2>10, <2>12, <3>1, <3>2 DEF OwnData, Fresh, Stored
    <3>4. \A c \in Buffers : c # b => buffer'[c] = buffer[c]
      BY <3>2
    <3> QED
      BY <2>1, <2>3, <2>4, <2>6, <3>1, <3>2, <3>3, <3>4, OtherData
  <2>13. CASE Fail(requests[i])
    <3>1. failed' = failed \cup {n} /\ buffer' = buffer /\ disk' = disk
      BY <2>2, <2>13 DEF Fail
    <3>2. OwnData(s, b, n)'
      BY <2>2, <2>3, <2>4, <2>7, <2>9, <3>1 DEF OwnData
    <3>3. Buffers' = Buffers
      BY <3>1 DEF Buffers
    <3> QED
      BY <2>1, <2>3, <2>4, <2>6, <3>1, <3>2, <3>3, OtherData
  <2> QED
    BY <1>16, <2>7, <2>11, <2>12, <2>13 DEF Serve
<1>17. ASSUME Handle PROVE DataInv'
  <2>1. UNCHANGED <<pc, blk, bufp, writing, buffer, disk, latest, failed, lru, requests>>
    BY <1>17 DEF Handle, threadVars, cacheVars
  <2> QED
    BY <2>1, SameData DEF Reading, Writing, Served, Requested
<1>18. CASE UNCHANGED vars
  <2>1. UNCHANGED <<pc, blk, bufp, writing, buffer, disk, latest, failed, lru, requests>>
    BY <1>18 DEF vars, threadVars, cacheVars, ioVars, diskVars
  <2> QED
    BY <2>1, SameData DEF Reading, Writing, Served, Requested
<1> QED
  BY <1>1, <1>2, <1>3, <1>4, <1>5, <1>6, <1>7, <1>8, <1>9, <1>10, <1>11, <1>12, <1>13, <1>14, <1>15, <1>16, <1>17, <1>18 DEF Next, Step, Continue, GiveBack
-----------------------------------------------------------------------------
\* Every initial state has the invariant.
LEMMA InitInv == Init => IInv
<1> SUFFICES ASSUME Init PROVE IInv
  OBVIOUS
<1> USE BufferAssumption DEF Init
<1>1. Buffers = {} /\ ~(\E t \in Thread : pc[t] # "idle")
  BY DEF Buffers
<1>2. (CHOOSE v \in Value : TRUE) \in Value
  OBVIOUS
<1>3. disk \in [0 .. DiskSize - 1 -> Value] /\ \A n \in Block : n < DiskSize => latest[n] = disk[n] /\ disk[n] \in Value
  BY <1>2
<1>4. TypeInv
  <2>1. latest \in [Block -> Value \cup {Junk}]
    BY <1>3
  <2>2. hash \in [Slot -> Seq(Buffers)] /\ requests \in Seq(Requests)
    OBVIOUS
  <2>3. buffer \in [Buffers -> [num : Block, data : Value \cup {Junk}, state : {"CLEAN", "DIRTY", Junk}]]
    BY <1>1 DEF Buffers
  <2> QED
    BY <1>1, <1>3, <2>1, <2>2, <2>3 DEF TypeInv, Pc, NoReply
<1>5. CallInv
  BY DEF CallInv, HasBuffer, IoPc
<1>6. LockInv
  BY DEF LockInv, Locked
<1>7. BufferInv
  BY <1>1 DEF BufferInv, Reading, IoPc
<1>8. LruInv
  BY <1>1 DEF LruInv
<1>9. RequestInv
  BY DEF RequestInv, Answered, At
<1>10. LimitInv
  <2>1. Limited = {} /\ Queued = {}
    BY DEF Limited, Queued, Requested, IoPc
  <2> QED
    BY <2>1, FS_EmptySet DEF LimitInv
<1>11. DataInv
  BY <1>1, <1>3 DEF DataInv, Stored, Reading, Writing, IoPc
<1> QED
  BY <1>4, <1>5, <1>6, <1>7, <1>8, <1>9, <1>10, <1>11 DEF IInv

(***************************************************************************)
(* The invariant holds in every state that the system reaches.             *)
(***************************************************************************)
LEMMA Invariance == Spec => []IInv
<1>1. IInv /\ [Next]_vars => IInv'
  BY TypeStep, CallStep, LockStep, BufferStep, LruStep, RequestStep, LimitStep, DataStep DEF IInv
<1> QED
  BY InitInv, <1>1, PTL DEF Spec
-----------------------------------------------------------------------------
(***************************************************************************)
(* The types, and the bounds of the semaphores: a lock and a signal have   *)
(* one unit at most, and at most MaxPending requests are queued, so that   *)
(* disk_send_request never finds the queue full.                           *)
(***************************************************************************)
THEOREM TypeCorrect == Spec => []TypeOK
<1>1. ASSUME IInv PROVE TypeOK
  <2>1. Queued \subseteq Limited
    <3>1. \A i \in DOMAIN requests : pc[requests[i].by] = "await"
      BY <1>1 DEF IInv, RequestInv
    <3> QED
      BY <3>1 DEF Queued, Requested, Limited, IoPc
  <2>2. /\ IsFiniteSet(Limited) /\ disk_lim + Cardinality(Limited) = MaxPending
        /\ Len(requests) = Cardinality(Queued) /\ disk_lim \in Nat
    BY <1>1 DEF IInv, LimitInv, TypeInv
  <2>3. Cardinality(Queued) <= Cardinality(Limited) /\ Cardinality(Queued) \in Nat /\ Cardinality(Limited) \in Nat
    BY <2>1, <2>2, FS_Subset, FS_CardinalityType
  <2>4. disk_lim \in 0 .. MaxPending /\ Len(requests) <= MaxPending
    BY <2>2, <2>3, BufferAssumption
  <2>5. \A t \in Thread : Holding(t) => bufp[t] \in Buffers
    BY <1>1 DEF IInv, CallInv, Holding, HasBuffer
  <2> QED
    BY <1>1, <2>4, <2>5 DEF IInv, TypeInv, TypeOK, Pc
<1> QED
  BY <1>1, Invariance, PTL

(***************************************************************************)
(* A block has one buffer, in its own hash list; a buffer has one holder,  *)
(* and the LRU list has exactly those without: although bread looks the    *)
(* block up, reads it and adds it to the hash list in three steps, between *)
(* which other threads miss, hit and release.                              *)
(***************************************************************************)
THEOREM OneBufferPerBlock == Spec => []CacheConsistent
<1>1. ASSUME IInv PROVE CacheConsistent
  <2>1. \A b, c \in Buffers : b # c => buffer[b].num # buffer[c].num
    BY <1>1 DEF IInv, BufferInv
  <2>2. \A h \in Slot : IsInjective(hash[h]) /\ \A b \in ToSet(hash[h]) : BLOCK_NUM_HASH(buffer[b].num) = h
    BY <1>1 DEF IInv, BufferInv, IsInjective, ToSet
  <2>3. \A t, u \in Thread : t # u /\ Holding(t) /\ Holding(u) => bufp[t] # bufp[u]
    <3> SUFFICES ASSUME NEW t \in Thread, NEW u \in Thread, Holding(t), Holding(u), bufp[t] = bufp[u]
                 PROVE  t = u
      OBVIOUS
    <3>1. blk[t] = blk[u] /\ Locked(t) /\ Locked(u)
      BY <1>1 DEF IInv, CallInv, Holding, HasBuffer, Locked
    <3> QED
      BY <1>1, <3>1, OneHolder DEF IInv
  <2>4. lru = Buffers \ {bufp[t] : t \in {u \in Thread : Holding(u)}}
    BY <1>1 DEF IInv, LruInv, TypeInv
  <2> QED
    BY <2>1, <2>2, <2>3, <2>4 DEF CacheConsistent
<1> QED
  BY <1>1, Invariance, PTL

(***************************************************************************)
(* Who has a block sees what was last written to it, by whatever path: a   *)
(* delayed write that is still in memory, or the disk.                     *)
(***************************************************************************)
THEOREM ReadsLatest == Spec => []HolderSeesLatest
<1>1. ASSUME IInv PROVE HolderSeesLatest
  BY <1>1 DEF IInv, CallInv, DataInv, Settled, Fresh, HolderSeesLatest, HasBuffer, At
<1> QED
  BY <1>1, Invariance, PTL

(***************************************************************************)
(* Of a buffer that is on the LRU list and not dirty, the disk has what    *)
(* was last written to the block: nothing is lost with the buffer.         *)
(***************************************************************************)
THEOREM CleanIsStored == Spec => []CleanMeansStored
<1>1. ASSUME IInv PROVE CleanMeansStored
  BY <1>1 DEF IInv, DataInv, Settled, Fresh, Stored, CleanMeansStored
<1> QED
  BY <1>1, Invariance, PTL

(***************************************************************************)
(* The reply in the slot of a hash value is the one to the request of the  *)
(* thread that looks at it, in whatever order the disk serves the requests *)
(* and however many blocks share the slot.                                 *)
(***************************************************************************)
THEOREM OwnReply == Spec => []ReplyIsMine
<1>1. ASSUME IInv PROVE ReplyIsMine
  BY <1>1 DEF IInv, RequestInv, Mine, ReplyIsMine
<1> QED
  BY <1>1, Invariance, PTL
=============================================================================
