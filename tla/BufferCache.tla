----------------------------- MODULE BufferCache -----------------------------
(***************************************************************************)
(* minifile_cache.c on top of disk.c: threads take blocks with bread, and  *)
(* give them back with brelse, bwrite or bdwrite; the disk's own thread    *)
(* serves the queue of requests, may swap the first two or fail any, and   *)
(* answers with an interrupt.                                              *)
(*                                                                         *)
(* Buffers are never reused: get_buf_block takes one from the LRU list     *)
(* only if num_blocks is large, and nothing ever changes num_blocks from   *)
(* 0; so the order of the LRU list is left out, and malloc does not fail.  *)
(* What is done between P and V of cache_lock is one step, as nothing else *)
(* touches the hash lists and the LRU list; P and V are atomic (Synch has  *)
(* their instructions); a thread has one block at a time.                  *)
(***************************************************************************)
EXTENDS Integers, Sequences, FiniteSets, SequencesExt

CONSTANTS Thread,
          Block,        \* block numbers that threads ask for
          Unreliable,   \* those whose requests the disk may fail
          DiskSize,     \* layout.size
          HashValue,    \* BUFFER_CACHE_HASH_VALUE
          MaxPending,   \* MAX_PENDING_DISK_REQUESTS
          Value,        \* what a block can contain
          Junk          \* what malloc returned

ASSUME BufferAssumption ==
    /\ DiskSize \in Nat /\ HashValue \in Nat \ {0} /\ MaxPending \in Nat \ {0}
    /\ Block \subseteq Nat /\ Unreliable \subseteq Block
    /\ Value # {} /\ Junk \notin Value

Slot == 0 .. HashValue - 1
BLOCK_NUM_HASH(n) == n % HashValue

VARIABLES
    pc,          \* where a thread is
    blk,         \* the block of its present call
    bufp,        \* the buffer it got
    writing,     \* its request to the disk is a write
    buffer,      \* the buffers that were allocated: [num, data, state]
    hash,        \* hash[h]: the buffers of a hash list
    lru,         \* the LRU list, without its order
    block_lock,  \* block_lock[h], block_sig[h], disk_lim: counts of semaphores
    block_sig,
    disk_lim,
    reply,       \* reply[h], until it is looked at: it is set again before the next look
    requests,    \* disk->queue
    interrupt,   \* the answer that send_interrupt is trying to deliver: one at most
    disk,        \* what is on the disk
    latest,      \* what was last written to a block, in memory or on the disk
    failed       \* the blocks of which a request has failed

threadVars == <<pc, blk, bufp, writing>>
cacheVars == <<buffer, hash, lru, block_lock>>
diskVars == <<requests, interrupt, disk, failed>>
ioVars == <<block_sig, disk_lim, reply, diskVars>>
vars == <<threadVars, cacheVars, ioVars, latest>>

NULL == -1
NoBuffer == << >>
NoReply == [num |-> NULL]

Init == /\ pc = [t \in Thread |-> "idle"]
        /\ blk = [t \in Thread |-> NULL] /\ bufp = [t \in Thread |-> NoBuffer]
        /\ writing = [t \in Thread |-> FALSE]
        /\ buffer = << >>
        /\ hash = [h \in Slot |-> << >>]
        /\ lru = {}
        /\ block_lock = [h \in Slot |-> 1]
        /\ block_sig = [h \in Slot |-> 0]
        /\ disk_lim = MaxPending
        /\ reply = [h \in Slot |-> NoReply]
        /\ requests = << >>
        /\ interrupt = NoReply
        /\ disk = [n \in 0 .. DiskSize - 1 |-> CHOOSE v \in Value : TRUE]
        /\ latest = [n \in Block |-> IF n < DiskSize THEN disk[n] ELSE Junk]
        /\ failed = {}

At(t, from) == pc[t] = from
Goto(t, from, to) == At(t, from) /\ pc' = [pc EXCEPT ![t] = to]
HashOf(t) == BLOCK_NUM_HASH(blk[t])
-----------------------------------------------------------------------------
\* bread, of a block that the test on layout.size lets through: one too many.
Bread(t, n) ==
    /\ Goto(t, "idle", "lock")
    /\ n <= DiskSize
    /\ blk' = [blk EXCEPT ![t] = n]
    /\ UNCHANGED <<bufp, writing, cacheVars, ioVars, latest>>

\* Mutant of LockBlock: the lock is looked at and not taken.
LockBlockNotTaken(t) ==
    /\ Goto(t, "lock", "find")
    /\ block_lock[HashOf(t)] > 0
    /\ UNCHANGED <<blk, bufp, writing, cacheVars, ioVars, latest>>

LockBlock(t) ==
    /\ Goto(t, "lock", "find")
    /\ block_lock[HashOf(t)] > 0
    /\ block_lock' = [block_lock EXCEPT ![HashOf(t)] = @ - 1]
    /\ UNCHANGED <<blk, bufp, writing, buffer, hash, lru, ioVars, latest>>

\* Mutant of Found: the whole list, whatever the numbers.
FoundAny(n) == DOMAIN hash[BLOCK_NUM_HASH(n)]

\* hash_find: where the list has this number; the first is returned.
Found(n) == {i \in DOMAIN hash[BLOCK_NUM_HASH(n)] : buffer[hash[BLOCK_NUM_HASH(n)][i]].num = n}
First(n) == hash[BLOCK_NUM_HASH(n)][CHOOSE i \in Found(n) : \A j \in Found(n) : i <= j]

\* Mutant of FindHit: the buffer stays on the LRU list.
FindHitStaysInLru(t) ==
    /\ Found(blk[t]) # {}
    /\ Goto(t, "find", "held")
    /\ bufp' = [bufp EXCEPT ![t] = First(blk[t])]
    /\ UNCHANGED <<blk, writing, cacheVars, ioVars, latest>>

\* A hit: the buffer is taken out of the LRU list.
FindHit(t) ==
    /\ Found(blk[t]) # {}
    /\ Goto(t, "find", "held")
    /\ bufp' = [bufp EXCEPT ![t] = First(blk[t])]
    /\ lru' = lru \ {bufp'[t]}
    /\ UNCHANGED <<blk, writing, buffer, hash, block_lock, ioVars, latest>>

\* A miss: get_buf_block, with cache_lock given back.
Buffers == DOMAIN buffer
NewBuffer(n) == <<n, Cardinality({b \in Buffers : b[1] = n})>>

\* Mutant of FindMiss: it gives back block_lock instead of cache_lock.
FindMissUnlocks(t) ==
    LET b == NewBuffer(blk[t])
    IN  /\ Found(blk[t]) = {}
        /\ Goto(t, "find", "limit")
        /\ buffer' = [c \in Buffers \cup {b} |->
                        IF c = b THEN [num |-> blk[t], data |-> Junk, state |-> Junk] ELSE buffer[c]]
        /\ bufp' = [bufp EXCEPT ![t] = b]
        /\ block_lock' = [block_lock EXCEPT ![HashOf(t)] = @ + 1]
        /\ UNCHANGED <<blk, writing, hash, lru, ioVars, latest>>

FindMiss(t) ==
    LET b == NewBuffer(blk[t])
    IN  /\ Found(blk[t]) = {}
        /\ Goto(t, "find", "limit")
        /\ buffer' = [c \in Buffers \cup {b} |->
                        IF c = b THEN [num |-> blk[t], data |-> Junk, state |-> Junk] ELSE buffer[c]]
        /\ bufp' = [bufp EXCEPT ![t] = b]
        /\ UNCHANGED <<blk, writing, hash, lru, block_lock, ioVars, latest>>
-----------------------------------------------------------------------------
(***************************************************************************)
(* blocking_read and blocking_write.  disk_send_request is in the area     *)
(* where threads are preempted: one may be switched out as it holds        *)
(* disk_mutex, which is of the one kernel thread that runs them all.       *)
(***************************************************************************)
Limit(t) ==
    /\ Goto(t, "limit", "request")
    /\ disk_lim > 0
    /\ disk_lim' = disk_lim - 1
    /\ UNCHANGED <<blk, bufp, writing, cacheVars, block_sig, reply, diskVars, latest>>

MutexHeld == \E t \in Thread : At(t, "enqueue")

LockDisk(t) ==
    /\ Goto(t, "request", IF MutexHeld THEN "hung" ELSE "enqueue")
    /\ UNCHANGED <<blk, bufp, writing, cacheVars, ioVars, latest>>

Enqueue(t) ==
    /\ Goto(t, "enqueue", "await")
    /\ requests' = Append(requests, [num |-> blk[t], by |-> t, buf |-> bufp[t], write |-> writing[t]])
    /\ UNCHANGED <<blk, bufp, writing, cacheVars, block_sig, disk_lim, reply, interrupt, disk, failed, latest>>

Await(t) ==
    /\ Goto(t, "await", "reply")
    /\ block_sig[HashOf(t)] > 0
    /\ block_sig' = [block_sig EXCEPT ![HashOf(t)] = @ - 1]
    /\ UNCHANGED <<blk, bufp, writing, cacheVars, disk_lim, reply, diskVars, latest>>

\* Mutant of Reply: an early return on failure, before the V of disk_lim.
ReplyReturnsEarly(t) ==
    LET ok == reply[HashOf(t)].ok
    IN  /\ Goto(t, "reply", IF writing[t] THEN "release" ELSE "add")
        /\ disk_lim' = IF ok THEN disk_lim + 1 ELSE disk_lim
        /\ buffer' = IF ok THEN [buffer EXCEPT ![bufp[t]].state = "CLEAN"] ELSE buffer
        /\ reply' = [reply EXCEPT ![HashOf(t)] = NoReply]
        /\ UNCHANGED <<blk, bufp, writing, hash, lru, block_lock, block_sig, diskVars, latest>>

\* The end: bread goes on to hash_add, bwrite to brelse, whatever the reply says.
Reply(t) ==
    /\ Goto(t, "reply", IF writing[t] THEN "release" ELSE "add")
    /\ disk_lim' = disk_lim + 1
    /\ buffer' = IF reply[HashOf(t)].ok THEN [buffer EXCEPT ![bufp[t]].state = "CLEAN"] ELSE buffer
    /\ reply' = [reply EXCEPT ![HashOf(t)] = NoReply]
    /\ UNCHANGED <<blk, bufp, writing, hash, lru, block_lock, block_sig, diskVars, latest>>

Hung == \E t \in Thread : At(t, "hung")
-----------------------------------------------------------------------------
(***************************************************************************)
(* disk_poll serves the first request, or the second if reordering swaps   *)
(* them.                                                                   *)
(***************************************************************************)
Answer(r, ok) == interrupt' = [num |-> r.num, by |-> r.by, write |-> r.write, ok |-> ok]

Transfer(r) ==
    /\ r.num < DiskSize
    /\ Answer(r, TRUE)
    /\ IF r.write
       THEN disk' = [disk EXCEPT ![r.num] = buffer[r.buf].data] /\ UNCHANGED buffer
       ELSE buffer' = [buffer EXCEPT ![r.buf].data = disk[r.num]] /\ UNCHANGED disk
    /\ UNCHANGED failed

Fail(r) ==
    /\ r.num >= DiskSize \/ r.num \in Unreliable
    /\ Answer(r, FALSE)
    /\ failed' = failed \cup {r.num}
    /\ UNCHANGED <<buffer, disk>>

Serve(i) ==
    /\ interrupt = NoReply /\ ~MutexHeld
    /\ i <= Len(requests)
    /\ Transfer(requests[i]) \/ Fail(requests[i])
    /\ requests' = RemoveAt(requests, i)
    /\ UNCHANGED <<threadVars, hash, lru, block_lock, block_sig, disk_lim, reply, latest>>

\* disk_handler.
Handle ==
    LET h == BLOCK_NUM_HASH(interrupt.num)
    IN  /\ interrupt # NoReply /\ ~Hung
        /\ reply' = [reply EXCEPT ![h] = interrupt]
        /\ block_sig' = [block_sig EXCEPT ![h] = @ + 1]
        /\ interrupt' = NoReply
        /\ UNCHANGED <<threadVars, cacheVars, disk_lim, requests, disk, failed, latest>>
-----------------------------------------------------------------------------
\* hash_add, and bread returns.
Add(t) ==
    /\ Goto(t, "add", "held")
    /\ hash' = [hash EXCEPT ![HashOf(t)] = <<bufp[t]>> \o @]
    /\ UNCHANGED <<blk, bufp, writing, buffer, lru, block_lock, ioVars, latest>>

\* bpull, or any other use that only reads: brelse.
Pull(t) ==
    /\ Goto(t, "held", "release")
    /\ UNCHANGED <<blk, bufp, writing, cacheVars, ioVars, latest>>

Fill(t, v, state) ==
    /\ buffer' = [buffer EXCEPT ![bufp[t]] = [num |-> @.num, data |-> v, state |-> state]]
    /\ latest' = [latest EXCEPT ![blk[t]] = v]

\* bpush: the block is filled, and bwrite writes it.
Push(t, v) ==
    /\ Goto(t, "held", "limit")
    /\ writing' = [writing EXCEPT ![t] = TRUE]
    /\ Fill(t, v, buffer[bufp[t]].state)
    /\ UNCHANGED <<blk, bufp, hash, lru, block_lock, ioVars>>

\* Mutant of DelayedPush: the block is not marked.
DelayedPushUnmarked(t, v) ==
    /\ Goto(t, "held", "release")
    /\ Fill(t, v, buffer[bufp[t]].state)
    /\ UNCHANGED <<blk, bufp, writing, hash, lru, block_lock, ioVars>>

\* bapush: the block is filled, and bawrite, which is bdwrite, marks it.
DelayedPush(t, v) ==
    /\ Goto(t, "held", "release")
    /\ Fill(t, v, "DIRTY")
    /\ UNCHANGED <<blk, bufp, writing, hash, lru, block_lock, ioVars>>

\* brelse: onto the LRU list, and then the lock.
Release(t) ==
    /\ Goto(t, "release", "unlock")
    /\ lru' = lru \cup {bufp[t]}
    /\ UNCHANGED <<blk, bufp, writing, buffer, hash, block_lock, ioVars, latest>>

Unlock(t) ==
    /\ Goto(t, "unlock", "idle")
    /\ block_lock' = [block_lock EXCEPT ![BLOCK_NUM_HASH(buffer[bufp[t]].num)] = @ + 1]
    /\ blk' = [blk EXCEPT ![t] = NULL]
    /\ bufp' = [bufp EXCEPT ![t] = NoBuffer]
    /\ writing' = [writing EXCEPT ![t] = FALSE]
    /\ UNCHANGED <<buffer, hash, lru, ioVars, latest>>

Continue(t) ==
    \/ LockBlock(t) \/ FindHit(t) \/ FindMiss(t)
    \/ Limit(t) \/ LockDisk(t) \/ Enqueue(t) \/ Await(t) \/ Reply(t)
    \/ Add(t) \/ Release(t) \/ Unlock(t)

GiveBack(t) == Pull(t) \/ \E v \in Value : Push(t, v) \/ DelayedPush(t, v)

\* A thread that waits for disk_mutex in the C library is not preempted: all wait.
Step(t) == ~Hung /\ (Continue(t) \/ GiveBack(t))

Next == \/ \E t \in Thread : Step(t) \/ (~Hung /\ \E n \in Block : Bread(t, n))
        \/ \E i \in 1 .. 2 : Serve(i)
        \/ Handle

(***************************************************************************)
(* Threads that are ready run in the end (Scheduler!NoStarvation) and wait *)
(* queues are FIFO (Synch); a caller gives back what it has; the disk goes *)
(* on with its queue (it may prefer the second request, but not for ever), *)
(* and an interrupt is sent until it is taken.                             *)
(***************************************************************************)
Spec == /\ Init /\ [][Next]_vars
        /\ \A t \in Thread : SF_vars(Step(t))
        /\ SF_vars(Serve(1)) /\ WF_vars(Handle)
-----------------------------------------------------------------------------
Holding(t) == pc[t] \notin {"idle", "lock", "find", "unlock"}

TypeOK ==
    /\ pc \in [Thread -> {"idle", "lock", "find", "limit", "request", "enqueue", "hung", "await",
                          "reply", "add", "held", "release", "unlock"}]
    /\ blk \in [Thread -> Block \cup {NULL}] /\ writing \in [Thread -> BOOLEAN]
    /\ \A t \in Thread : Holding(t) => bufp[t] \in Buffers
    /\ \A b \in Buffers : buffer[b] \in [num : Block, data : Value \cup {Junk}, state : {"CLEAN", "DIRTY", Junk}]
    /\ block_lock \in [Slot -> 0 .. 1] /\ block_sig \in [Slot -> 0 .. 1]
    /\ disk_lim \in 0 .. MaxPending /\ Len(requests) <= MaxPending
    /\ disk \in [0 .. DiskSize - 1 -> Value]
    /\ failed \subseteq Block

(***************************************************************************)
(* However misses, hits and releases interleave, a block has one buffer at *)
(* most, in the hash list of its number; a buffer that a thread has is had *)
(* by no other, and the LRU list has exactly those that nobody has.        *)
(***************************************************************************)
CacheConsistent ==
    /\ \A b, c \in Buffers : b # c => buffer[b].num # buffer[c].num
    /\ \A h \in Slot : IsInjective(hash[h]) /\ \A b \in ToSet(hash[h]) : BLOCK_NUM_HASH(buffer[b].num) = h
    /\ \A t, u \in Thread : t # u /\ Holding(t) /\ Holding(u) => bufp[t] # bufp[u]
    /\ lru = Buffers \ {bufp[t] : t \in {u \in Thread : Holding(u)}}

(***************************************************************************)
(* A thread that has a block sees what was last written to it, in memory   *)
(* or on the disk, whoever wrote it, unless the disk failed.               *)
(***************************************************************************)
HolderSeesLatest ==
    \A t \in Thread : At(t, "held") /\ blk[t] \notin failed =>
        buffer[bufp[t]].num = blk[t] /\ buffer[bufp[t]].data = latest[blk[t]]

\* A block that nobody has and that is not dirty is on the disk, unless the disk failed.
CleanMeansStored ==
    \A b \in lru : LET n == buffer[b].num
                   IN  n \notin failed /\ buffer[b].state # "DIRTY" => disk[n] = latest[n]

(***************************************************************************)
(* The reply that a thread looks at is the one to its own request: no late *)
(* or reordered answer to another request with the same hash.              *)
(***************************************************************************)
ReplyIsMine ==
    \A t \in Thread : At(t, "reply") =>
        LET r == reply[HashOf(t)]
        IN  r # NoReply /\ r.num = blk[t] /\ r.by = t /\ r.write = writing[t]

\* bread returns, and so do the calls that give the block back, unless the system hangs.
CallsReturn == \A t \in Thread : ~At(t, "idle") ~> (At(t, "idle") \/ Hung)
=============================================================================
