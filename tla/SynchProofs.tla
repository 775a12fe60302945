----------------------------- MODULE SynchProofs -----------------------------
(***************************************************************************)
(* Proofs about Synch, for any threads, semaphores and counts.             *)
(***************************************************************************)
EXTENDS Synch, SequenceTheorems, TLAPS

(***************************************************************************)
(* The inductive invariant.  LockInv: the test-and-set lock of a semaphore *)
(* has one owner, the thread between its test-and-set and its clear.       *)
(***************************************************************************)
LockInv ==
    /\ \A t \in Thread : pc[t] \in Locked => lock[sem[t]]
    /\ \A t, u \in Thread :
          t # u /\ pc[t] \in Locked /\ pc[u] \in Locked => sem[t] # sem[u]
    /\ \A s \in Sem : lock[s] => \E t \in Thread : At(t, s, Locked)

(***************************************************************************)
(* PlaceInv: a thread is in one place, and only a thread that waits may be *)
(* in none.  MaskInv: interrupts are disabled exactly while the running    *)
(* thread is in a call that asked for it.                                  *)
(***************************************************************************)
PlaceInv ==
    /\ context \notin ready
    /\ \A t \in Thread : t \in ready \/ context = t \/ pc[t] = "wait"

Calling == {"p_tas", "v_tas"} \cup Locked

MaskInv ==
    /\ ~enabled => context \in Thread /\ pc[context] \in Calling /\ sem[context] \in Masked
    /\ \A t \in Thread : pc[t] \in Calling /\ sem[t] \in Masked => context = t /\ ~enabled

(***************************************************************************)
(* QueueInv: a node that is still linked to a wait queue belongs to a      *)
(* thread that is switched out, or about to be.                            *)
(***************************************************************************)
InQueue(t, s) == \E i \in 1 .. Len(wait[s]) : wait[s][i] = t

QueueInv ==
    \A t \in Thread, s \in Sem :
        InQueue(t, s) /\ owner[t] = s => sem[t] = s /\ (Blocked(t) \/ pc[t] = "p_stop")

(***************************************************************************)
(* TokenInv: the one unit of a lock is in its count, or with one thread:   *)
(* a holder, a thread on its way out of P, or one giving it back.          *)
(***************************************************************************)
Token(t, m) == \/ m \in holds[t]
               \/ At(t, m, {"p_clear", "v_tas", "v_inc", "v_deq"})
               \/ At(t, m, {"wait"}) /\ ~Blocked(t)

TokenInv ==
    /\ \A m \in Mutex : \A t, u \in Thread : t # u => ~(Token(t, m) /\ Token(u, m))
    /\ \A m \in Mutex : count[m] <= 1
    /\ \A m \in Mutex : count[m] = 1 => \A t \in Thread : ~Token(t, m)
    /\ \A t \in Thread : pc[t] # "run" /\ sem[t] \in Mutex => sem[t] \notin holds[t]

(***************************************************************************)
(* CountInv: of a semaphore used with interrupts disabled, every node in   *)
(* the wait queue is the queue's own and there once, and there are as many *)
(* as the count says, but for the step between the count and the queue.    *)
(***************************************************************************)
NoRepeats(s) == \A i, j \in 1 .. Len(wait[s]) : i # j => wait[s][i] # wait[s][j]

Waiting(s) == IF count[s] < 0 THEN -count[s] ELSE 0

CountOf(s) ==
    /\ \A t \in Thread : InQueue(t, s) => owner[t] = s
    /\ NoRepeats(s)
    /\ \A t \in Thread : At(t, s, {"p_append"}) => count[s] < 0 /\ Len(wait[s]) = -count[s] - 1
    /\ \A t \in Thread : At(t, s, {"v_deq"}) => count[s] <= 0 /\ Len(wait[s]) = 1 - count[s]
    /\ (\A t \in Thread : ~At(t, s, {"p_append", "v_deq"})) => Len(wait[s]) = Waiting(s)

CountInv == \A s \in Masked : CountOf(s)

IInv == TypeOK /\ LockInv /\ PlaceInv /\ MaskInv /\ QueueInv /\ TokenInv /\ CountInv
-----------------------------------------------------------------------------
\* A step that leaves the wait queues alone leaves their members alone.
LEMMA SameQueues ==
    ASSUME wait' = wait
    PROVE  /\ \A t, s : InQueue(t, s)' <=> InQueue(t, s)
           /\ \A s : NoRepeats(s)' <=> NoRepeats(s)
  BY DEF InQueue, NoRepeats

(***************************************************************************)
(* What queue_append does to a wait queue: one more member, at the end.    *)
(***************************************************************************)
LEMMA AppendFacts ==
    ASSUME TypeOK, NEW t \in Thread, NEW s \in Sem,
           wait' = [wait EXCEPT ![s] = Append(@, t)]
    PROVE  /\ wait' \in [Sem -> Seq(Thread)]
           /\ Len(wait'[s]) = Len(wait[s]) + 1
           /\ \A r \in Sem : r # s => wait'[r] = wait[r]
           /\ \A u \in Thread, r \in Sem :
                 InQueue(u, r)' => InQueue(u, r) \/ (u = t /\ r = s)
           /\ NoRepeats(s) /\ ~InQueue(t, s) => NoRepeats(s)'
<1>1. wait[s] \in Seq(Thread) /\ wait \in [Sem -> Seq(Thread)]
  BY DEF TypeOK
<1>2. wait'[s] = Append(wait[s], t) /\ \A r \in Sem : r # s => wait'[r] = wait[r]
  BY <1>1
<1>3. /\ Append(wait[s], t) \in Seq(Thread)
      /\ Len(Append(wait[s], t)) = Len(wait[s]) + 1
      /\ \A i \in 1 .. Len(wait[s]) : Append(wait[s], t)[i] = wait[s][i]
      /\ Append(wait[s], t)[Len(wait[s]) + 1] = t
      /\ Len(wait[s]) \in Nat
  BY <1>1
<1>4. wait' \in [Sem -> Seq(Thread)]
  BY <1>1, <1>3
<1>5. \A u \in Thread, r \in Sem : InQueue(u, r)' => InQueue(u, r) \/ (u = t /\ r = s)
  BY <1>2, <1>3 DEF InQueue
<1>6. NoRepeats(s) /\ ~InQueue(t, s) => NoRepeats(s)'
  <2>1. SUFFICES ASSUME NoRepeats(s), ~InQueue(t, s),
                        NEW i \in 1 .. Len(wait[s]) + 1, NEW j \in 1 .. Len(wait[s]) + 1, i # j
                 PROVE  Append(wait[s], t)[i] # Append(wait[s], t)[j]
    BY <1>2, <1>3 DEF NoRepeats
  <2>2. CASE i \in 1 .. Len(wait[s]) /\ j \in 1 .. Len(wait[s])
    BY <2>1, <2>2, <1>3 DEF NoRepeats
  <2>3. CASE i = Len(wait[s]) + 1 /\ j \in 1 .. Len(wait[s])
    BY <2>1, <2>3, <1>3 DEF InQueue
  <2>4. CASE j = Len(wait[s]) + 1 /\ i \in 1 .. Len(wait[s])
    BY <2>1, <2>4, <1>3 DEF InQueue
  <2> QED
    BY <2>1, <2>2, <2>3, <2>4, <1>3
<1> QED
  BY <1>2, <1>3, <1>4, <1>5, <1>6

(***************************************************************************)
(* What the last lines of semaphore_V do: nothing, or the head t is made   *)
(* ready and the others are still in the queue, t among them only if it    *)
(* was there twice.                                                        *)
(***************************************************************************)
Woken(t, s) ==
    /\ t \in Thread /\ InQueue(t, s) /\ owner[t] = s
    /\ ready' = ready \cup {t}
    /\ owner' = [owner EXCEPT ![t] = "ready"]
    /\ wait' \in [Sem -> Seq(Thread)]
    /\ Len(wait'[s]) = Len(wait[s]) - 1
    /\ \A r \in Sem : r # s => wait'[r] = wait[r]
    /\ \A u \in Thread, r \in Sem : InQueue(u, r)' => InQueue(u, r)
    /\ NoRepeats(s) => NoRepeats(s)' /\ ~InQueue(t, s)'

LEMMA WakeFacts ==
    ASSUME TypeOK, NEW s \in Sem, WakeHead(s)
    PROVE  \/ \E t \in Thread : Woken(t, s)
           \/ ~Dequeues(s) /\ UNCHANGED <<wait, ready, owner>>
<1>1. wait[s] \in Seq(Thread) /\ wait \in [Sem -> Seq(Thread)]
  BY DEF TypeOK
<1>2. CASE ~Dequeues(s)
  BY <1>2 DEF WakeHead
<1>3. CASE Dequeues(s)
  <2>0. PICK t \in Thread : t = Head(wait[s])
    BY <1>1, <1>3 DEF Dequeues
  <2>1. /\ wait[s] # << >> /\ owner[t] = s
        /\ wait' = [wait EXCEPT ![s] = Tail(@)]
        /\ ready' = ready \cup {t}
        /\ owner' = [owner EXCEPT ![t] = "ready"]
    BY <1>3, <2>0 DEF WakeHead, Dequeues
  <2>2. /\ t \in Thread /\ t = wait[s][1]
        /\ Len(wait[s]) \in Nat /\ Len(wait[s]) >= 1
        /\ Tail(wait[s]) \in Seq(Thread)
        /\ Len(Tail(wait[s])) = Len(wait[s]) - 1
        /\ \A i \in 1 .. Len(Tail(wait[s])) : Tail(wait[s])[i] = wait[s][i + 1]
    BY <1>1, <2>0, <2>1
  <2>3. wait'[s] = Tail(wait[s]) /\ \A r \in Sem : r # s => wait'[r] = wait[r]
    BY <1>1, <2>1
  <2>4. InQueue(t, s)
    BY <2>2 DEF InQueue
  <2>5. wait' \in [Sem -> Seq(Thread)]
    BY <1>1, <2>1, <2>2
  <2>6. \A u \in Thread, r \in Sem : InQueue(u, r)' => InQueue(u, r)
    <3>1. SUFFICES ASSUME NEW u \in Thread, InQueue(u, s)' PROVE InQueue(u, s)
      BY <2>3 DEF InQueue
    <3>2. PICK i \in 1 .. Len(Tail(wait[s])) : Tail(wait[s])[i] = u
      BY <3>1, <2>3 DEF InQueue
    <3>3. i + 1 \in 1 .. Len(wait[s]) /\ wait[s][i + 1] = u
      BY <3>2, <2>2
    <3> QED
      BY <3>3 DEF InQueue
  <2>7. ASSUME NoRepeats(s) PROVE NoRepeats(s)' /\ ~InQueue(t, s)'
    <3>1. \A i \in 1 .. Len(wait'[s]) : i + 1 \in 1 .. Len(wait[s]) /\ wait'[s][i] = wait[s][i + 1]
      BY <2>2, <2>3
    <3>2. 1 \in 1 .. Len(wait[s])
      BY <2>2
    <3>3. \A i \in 1 .. Len(wait'[s]) : wait'[s][i] # t
      BY <3>1, <3>2, <2>2, <2>7 DEF NoRepeats
    <3>4. NoRepeats(s)'
      BY <3>1, <2>7 DEF NoRepeats
    <3> QED
      BY <3>3, <3>4 DEF InQueue
  <2>8. Woken(t, s)
    BY <2>1, <2>2, <2>3, <2>4, <2>5, <2>6, <2>7 DEF Woken
  <2> QED
    BY <2>2, <2>8
<1> QED
  BY <1>2, <1>3

\* Where interrupts are disabled, a wait queue that is not empty gives up its head.
LEMMA MaskedDequeues ==
    ASSUME TypeOK, NEW s \in Sem, CountOf(s), Len(wait[s]) > 0
    PROVE  Dequeues(s)
<1>1. wait[s] \in Seq(Thread)
  BY DEF TypeOK
<1>2. wait[s] # << >> /\ Head(wait[s]) \in Thread /\ Head(wait[s]) = wait[s][1] /\ 1 \in 1 .. Len(wait[s])
  BY <1>1
<1>3. InQueue(Head(wait[s]), s)
  BY <1>2 DEF InQueue
<1> QED
  BY <1>2, <1>3 DEF CountOf, Dequeues

LEMMA TypeStep ==
    ASSUME TypeOK, [Next]_vars
    PROVE  TypeOK'
<1> USE SynchAssumption DEF TypeOK, Pc, Locked
<1>1. ASSUME NEW t \in Thread, NEW s \in Sem, CallP(t, s) PROVE TypeOK'
  BY <1>1 DEF CallP, Goto, threadVars, schedVars, semVars
<1>2. ASSUME NEW t \in Thread, NEW s \in Sem, CallV(t, s) PROVE TypeOK'
  BY <1>2 DEF CallV, Goto, threadVars, schedVars, semVars
<1>3. ASSUME NEW t \in Thread, PTas(t) PROVE TypeOK'
  BY <1>3 DEF PTas, TestAndSet, Goto, threadVars, schedVars, semVars
<1>4. ASSUME NEW t \in Thread, PDecrement(t) PROVE TypeOK'
  BY <1>4 DEF PDecrement, Goto, threadVars, schedVars, semVars
<1>5. ASSUME NEW t \in Thread, PAppend(t) PROVE TypeOK'
  BY <1>5, AppendFacts DEF PAppend, Goto, threadVars, schedVars, semVars
<1>6. ASSUME NEW t \in Thread, PStop(t) PROVE TypeOK'
  BY <1>6 DEF PStop, Goto, Schedule, threadVars, schedVars, semVars
<1>7. ASSUME NEW t \in Thread, PWoken(t) PROVE TypeOK'
  BY <1>7 DEF PWoken, Return, Goto, Obtain, threadVars, schedVars, semVars
<1>8. ASSUME NEW t \in Thread, PClear(t) PROVE TypeOK'
  BY <1>8 DEF PClear, Return, Goto, Obtain, threadVars, schedVars, semVars
<1>9. ASSUME NEW t \in Thread, VTas(t) PROVE TypeOK'
  BY <1>9 DEF VTas, TestAndSet, Goto, threadVars, schedVars, semVars
<1>10. ASSUME NEW t \in Thread, VIncrement(t) PROVE TypeOK'
  BY <1>10 DEF VIncrement, Goto, threadVars, schedVars, semVars
<1>11. ASSUME NEW t \in Thread, VDequeue(t) PROVE TypeOK'
  <2>1. PICK s \in Sem : s = sem[t]
    BY <1>11
  <2>2. /\ context = t /\ pc[t] = "v_deq" /\ pc' = [pc EXCEPT ![t] = "v_clear"]
        /\ UNCHANGED <<sem, holds, context, enabled, count, lock>>
    BY <1>11 DEF VDequeue, Goto
  <2>3. \/ UNCHANGED <<wait, ready, owner>>
        \/ \E u \in Thread : Woken(u, s)
    BY <1>11, <2>1, WakeFacts DEF VDequeue
  <2>4. CASE UNCHANGED <<wait, ready, owner>>
    BY <2>1, <2>2, <2>4
  <2>5. ASSUME NEW u \in Thread, Woken(u, s) PROVE TypeOK'
    <3>1. /\ owner[u] = s /\ owner' = [owner EXCEPT ![u] = "ready"]
          /\ ready' = ready \cup {u} /\ wait' \in [Sem -> Seq(Thread)]
          /\ InQueue(u, s)
      BY <2>5 DEF Woken
    <3> QED
      BY <2>1, <2>2, <3>1
  <2> QED
    BY <2>3, <2>4, <2>5
<1>12. ASSUME NEW t \in Thread, VClear(t) PROVE TypeOK'
  BY <1>12 DEF VClear, Return, Goto, threadVars, schedVars, semVars
<1>13. ASSUME NEW s \in HandlerSem, HandlerV(s) PROVE TypeOK'
  <2>1. /\ s \in Sem /\ s \notin Mutex /\ enabled /\ ~lock[s]
        /\ count' = [count EXCEPT ![s] = @ + 1]
        /\ UNCHANGED <<pc, sem, holds, context, enabled, lock>>
    BY <1>13 DEF HandlerV, threadVars
  <2>2. \/ UNCHANGED <<wait, ready, owner>>
        \/ \E u \in Thread : Woken(u, s)
    BY <1>13, <2>1, WakeFacts DEF HandlerV
  <2>3. CASE UNCHANGED <<wait, ready, owner>>
    BY <2>1, <2>3
  <2>4. ASSUME NEW u \in Thread, Woken(u, s) PROVE TypeOK'
    <3>1. /\ owner[u] = s /\ owner' = [owner EXCEPT ![u] = "ready"]
          /\ ready' = ready \cup {u} /\ wait' \in [Sem -> Seq(Thread)]
          /\ InQueue(u, s)
      BY <2>4 DEF Woken
    <3>2. count' \in [Sem -> Int]
      BY <2>1
    <3>3. owner' \in [Thread -> Sem \cup {"ready"}] /\ ready' \subseteq Thread
      BY <3>1
    <3> QED
      BY <2>1, <3>1, <3>2, <3>3
  <2> QED
    BY <2>2, <2>3, <2>4
<1>14. CASE Yield
  BY <1>14 DEF Yield, Schedule, threadVars, schedVars, semVars
<1>15. CASE UNCHANGED vars
  BY <1>15 DEF vars, threadVars, schedVars, semVars
<1> QED
  BY <1>1, <1>2, <1>3, <1>4, <1>5, <1>6, <1>7, <1>8, <1>9, <1>10, <1>11, <1>12, <1>13, <1>14, <1>15 DEF Next, Step

LEMMA LockStep ==
    ASSUME TypeOK, LockInv, [Next]_vars
    PROVE  LockInv'
<1> USE SynchAssumption DEF TypeOK, LockInv, Pc, Locked, At
<1>1. ASSUME NEW t \in Thread, NEW s \in Sem, CallP(t, s) PROVE LockInv'
  <2>1. \A u \in Thread : u # t => pc'[u] = pc[u] /\ sem'[u] = sem[u]
    BY <1>1 DEF CallP, Goto
  <2>2. pc[t] \notin Locked /\ pc'[t] \notin Locked /\ lock' = lock
    BY <1>1 DEF CallP, Goto, semVars
  <2> HIDE DEF Locked, Pc, TypeOK
  <2>3. \A u \in Thread : pc'[u] \in Locked => u # t /\ pc[u] \in Locked /\ sem'[u] = sem[u]
    BY <2>1, <2>2
  <2>4. \A r \in Sem : lock'[r] => \E u \in Thread : pc'[u] \in Locked /\ sem'[u] = r
    <3>1. SUFFICES ASSUME NEW r \in Sem, lock[r] PROVE \E u \in Thread : pc'[u] \in Locked /\ sem'[u] = r
      BY <2>2
    <3>2. PICK u \in Thread : pc[u] \in Locked /\ sem[u] = r
      BY <3>1
    <3> QED
      BY <3>2, <2>1, <2>2
  <2> QED
    BY <2>2, <2>3, <2>4
<1>2. ASSUME NEW t \in Thread, NEW s \in Sem, CallV(t, s) PROVE LockInv'
  <2>1. \A u \in Thread : u # t => pc'[u] = pc[u] /\ sem'[u] = sem[u]
    BY <1>2 DEF CallV, Goto
  <2>2. pc[t] \notin Locked /\ pc'[t] \notin Locked /\ lock' = lock
    BY <1>2 DEF CallV, Goto, semVars
  <2> HIDE DEF Locked, Pc, TypeOK
  <2>3. \A u \in Thread : pc'[u] \in Locked => u # t /\ pc[u] \in Locked /\ sem'[u] = sem[u]
    BY <2>1, <2>2
  <2>4. \A r \in Sem : lock'[r] => \E u \in Thread : pc'[u] \in Locked /\ sem'[u] = r
    <3>1. SUFFICES ASSUME NEW r \in Sem, lock[r] PROVE \E u \in Thread : pc'[u] \in Locked /\ sem'[u] = r
      BY <2>2
    <3>2. PICK u \in Thread : pc[u] \in Locked /\ sem[u] = r
      BY <3>1
    <3> QED
      BY <3>2, <2>1, <2>2
  <2> QED
    BY <2>2, <2>3, <2>4
<1>3. ASSUME NEW t \in Thread, PTas(t) PROVE LockInv'
  BY <1>3 DEF PTas, TestAndSet, Goto, threadVars, schedVars, semVars
<1>4. ASSUME NEW t \in Thread, PDecrement(t) PROVE LockInv'
  BY <1>4 DEF PDecrement, Goto, threadVars, schedVars, semVars
<1>5. ASSUME NEW t \in Thread, PAppend(t) PROVE LockInv'
  BY <1>5, AppendFacts DEF PAppend, Goto, threadVars, schedVars, semVars
<1>6. ASSUME NEW t \in Thread, PStop(t) PROVE LockInv'
  BY <1>6 DEF PStop, Goto, Schedule, threadVars, schedVars, semVars
<1>7. ASSUME NEW t \in Thread, PWoken(t) PROVE LockInv'
  <2>1. \A u \in Thread : u # t => pc'[u] = pc[u] /\ sem'[u] = sem[u]
    BY <1>7 DEF PWoken, Return, Goto
  <2>2. pc[t] \notin Locked /\ pc'[t] \notin Locked /\ lock' = lock
    BY <1>7 DEF PWoken, Return, Goto, semVars
  <2> HIDE DEF Locked, Pc, TypeOK
  <2>3. \A u \in Thread : pc'[u] \in Locked => u # t /\ pc[u] \in Locked /\ sem'[u] = sem[u]
    BY <2>1, <2>2
  <2>4. \A r \in Sem : lock'[r] => \E u \in Thread : pc'[u] \in Locked /\ sem'[u] = r
    <3>1. SUFFICES ASSUME NEW r \in Sem, lock[r] PROVE \E u \in Thread : pc'[u] \in Locked /\ sem'[u] = r
      BY <2>2
    <3>2. PICK u \in Thread : pc[u] \in Locked /\ sem[u] = r
      BY <3>1
    <3> QED
      BY <3>2, <2>1, <2>2
  <2> QED
    BY <2>2, <2>3, <2>4
<1>8. ASSUME NEW t \in Thread, PClear(t) PROVE LockInv'
  BY <1>8 DEF PClear, Return, Goto, Obtain, threadVars, schedVars, semVars
<1>9. ASSUME NEW t \in Thread, VTas(t) PROVE LockInv'
  BY <1>9 DEF VTas, TestAndSet, Goto, threadVars, schedVars, semVars
<1>10. ASSUME NEW t \in Thread, VIncrement(t) PROVE LockInv'
  BY <1>10 DEF VIncrement, Goto, threadVars, schedVars, semVars
<1>11. ASSUME NEW t \in Thread, VDequeue(t) PROVE LockInv'
  BY <1>11 DEF VDequeue, Goto
<1>12. ASSUME NEW t \in Thread, VClear(t) PROVE LockInv'
  BY <1>12 DEF VClear, Return, Goto, threadVars, schedVars, semVars
<1>13. ASSUME NEW s \in HandlerSem, HandlerV(s) PROVE LockInv'
  <2>1. UNCHANGED <<pc, sem, lock>>
    BY <1>13 DEF HandlerV, threadVars
  <2> QED
    BY <2>1
<1>14. CASE Yield
  BY <1>14 DEF Yield, Schedule, threadVars, schedVars, semVars
<1>15. CASE UNCHANGED vars
  BY <1>15 DEF vars, threadVars, schedVars, semVars
<1> QED
  BY <1>1, <1>2, <1>3, <1>4, <1>5, <1>6, <1>7, <1>8, <1>9, <1>10, <1>11, <1>12, <1>13, <1>14, <1>15 DEF Next, Step

LEMMA PlaceStep ==
    ASSUME TypeOK, LockInv, PlaceInv, QueueInv, [Next]_vars
    PROVE  PlaceInv'
<1> USE SynchAssumption DEF TypeOK, LockInv, PlaceInv, QueueInv, Blocked, Pc, Locked
<1>1. ASSUME NEW t \in Thread, NEW s \in Sem, CallP(t, s) PROVE PlaceInv'
  BY <1>1 DEF CallP, Goto, threadVars, schedVars, semVars
<1>2. ASSUME NEW t \in Thread, NEW s \in Sem, CallV(t, s) PROVE PlaceInv'
  BY <1>2 DEF CallV, Goto, threadVars, schedVars, semVars
<1>3. ASSUME NEW t \in Thread, PTas(t) PROVE PlaceInv'
  BY <1>3 DEF PTas, TestAndSet, Goto, threadVars, schedVars, semVars
<1>4. ASSUME NEW t \in Thread, PDecrement(t) PROVE PlaceInv'
  BY <1>4 DEF PDecrement, Goto, threadVars, schedVars, semVars
<1>5. ASSUME NEW t \in Thread, PAppend(t) PROVE PlaceInv'
  BY <1>5, AppendFacts DEF PAppend, Goto, threadVars, schedVars, semVars
<1>6. ASSUME NEW t \in Thread, PStop(t) PROVE PlaceInv'
  BY <1>6 DEF PStop, Goto, Schedule, threadVars, schedVars, semVars
<1>7. ASSUME NEW t \in Thread, PWoken(t) PROVE PlaceInv'
  BY <1>7 DEF PWoken, Return, Goto, Obtain, threadVars, schedVars, semVars
<1>8. ASSUME NEW t \in Thread, PClear(t) PROVE PlaceInv'
  BY <1>8 DEF PClear, Return, Goto, Obtain, threadVars, schedVars, semVars
<1>9. ASSUME NEW t \in Thread, VTas(t) PROVE PlaceInv'
  BY <1>9 DEF VTas, TestAndSet, Goto, threadVars, schedVars, semVars
<1>10. ASSUME NEW t \in Thread, VIncrement(t) PROVE PlaceInv'
  BY <1>10 DEF VIncrement, Goto, threadVars, schedVars, semVars
<1>11. ASSUME NEW t \in Thread, VDequeue(t) PROVE PlaceInv'
  <2>1. PICK s \in Sem : s = sem[t]
    BY <1>11
  <2>2. /\ context = t /\ pc[t] = "v_deq" /\ pc' = [pc EXCEPT ![t] = "v_clear"]
        /\ UNCHANGED <<sem, holds, context, enabled, count, lock>>
    BY <1>11 DEF VDequeue, Goto
  <2>3. \/ UNCHANGED <<wait, ready, owner>>
        \/ \E u \in Thread : Woken(u, s)
    BY <1>11, <2>1, WakeFacts DEF VDequeue
  <2>4. CASE UNCHANGED <<wait, ready, owner>>
    BY <2>1, <2>2, <2>4
  <2>5. ASSUME NEW u \in Thread, Woken(u, s) PROVE PlaceInv'
    <3>1. /\ owner[u] = s /\ owner' = [owner EXCEPT ![u] = "ready"]
          /\ ready' = ready \cup {u} /\ wait' \in [Sem -> Seq(Thread)]
          /\ InQueue(u, s)
      BY <2>5 DEF Woken
    <3>2. sem[u] = s /\ Blocked(u) /\ pc[u] = "wait"
      BY <2>1, <2>2, <3>1
    <3> QED
      BY <2>1, <2>2, <3>1, <3>2
  <2> QED
    BY <2>3, <2>4, <2>5
<1>12. ASSUME NEW t \in Thread, VClear(t) PROVE PlaceInv'
  BY <1>12 DEF VClear, Return, Goto, threadVars, schedVars, semVars
<1>13. ASSUME NEW s \in HandlerSem, HandlerV(s) PROVE PlaceInv'
  <2>1. /\ s \in Sem /\ s \notin Mutex /\ enabled /\ ~lock[s]
        /\ count' = [count EXCEPT ![s] = @ + 1]
        /\ UNCHANGED <<pc, sem, holds, context, enabled, lock>>
    BY <1>13 DEF HandlerV, threadVars
  <2>2. \/ UNCHANGED <<wait, ready, owner>>
        \/ \E u \in Thread : Woken(u, s)
    BY <1>13, <2>1, WakeFacts DEF HandlerV
  <2>3. CASE UNCHANGED <<wait, ready, owner>>
    BY <2>1, <2>3
  <2>4. ASSUME NEW u \in Thread, Woken(u, s) PROVE PlaceInv'
    <3>1. /\ owner[u] = s /\ owner' = [owner EXCEPT ![u] = "ready"]
          /\ ready' = ready \cup {u} /\ wait' \in [Sem -> Seq(Thread)]
          /\ InQueue(u, s)
      BY <2>4 DEF Woken
    <3>2. sem[u] = s /\ Blocked(u) /\ pc[u] = "wait"
      BY <2>1, <3>1
    <3> QED
      BY <2>1, <3>1, <3>2
  <2> QED
    BY <2>2, <2>3, <2>4
<1>14. CASE Yield
  BY <1>14 DEF Yield, Schedule, threadVars, schedVars, semVars
<1>15. CASE UNCHANGED vars
  BY <1>15 DEF vars, threadVars, schedVars, semVars
<1> QED
  BY <1>1, <1>2, <1>3, <1>4, <1>5, <1>6, <1>7, <1>8, <1>9, <1>10, <1>11, <1>12, <1>13, <1>14, <1>15 DEF Next, Step

LEMMA MaskStep ==
    ASSUME TypeOK, PlaceInv, MaskInv, [Next]_vars
    PROVE  MaskInv'
<1> USE SynchAssumption DEF TypeOK, PlaceInv, MaskInv, Calling, Pc, Locked
<1>1. ASSUME NEW t \in Thread, NEW s \in Sem, CallP(t, s) PROVE MaskInv'
  BY <1>1 DEF CallP, Goto, threadVars, schedVars, semVars
<1>2. ASSUME NEW t \in Thread, NEW s \in Sem, CallV(t, s) PROVE MaskInv'
  BY <1>2 DEF CallV, Goto, threadVars, schedVars, semVars
<1>3. ASSUME NEW t \in Thread, PTas(t) PROVE MaskInv'
  BY <1>3 DEF PTas, TestAndSet, Goto, threadVars, schedVars, semVars
<1>4. ASSUME NEW t \in Thread, PDecrement(t) PROVE MaskInv'
  BY <1>4 DEF PDecrement, Goto, threadVars, schedVars, semVars
<1>5. ASSUME NEW t \in Thread, PAppend(t) PROVE MaskInv'
  BY <1>5, AppendFacts DEF PAppend, Goto, threadVars, schedVars, semVars
<1>6. ASSUME NEW t \in Thread, PStop(t) PROVE MaskInv'
  BY <1>6 DEF PStop, Goto, Schedule, threadVars, schedVars, semVars
<1>7. ASSUME NEW t \in Thread, PWoken(t) PROVE MaskInv'
  BY <1>7 DEF PWoken, Return, Goto, Obtain, threadVars, schedVars, semVars
<1>8. ASSUME NEW t \in Thread, PClear(t) PROVE MaskInv'
  BY <1>8 DEF PClear, Return, Goto, Obtain, threadVars, schedVars, semVars
<1>9. ASSUME NEW t \in Thread, VTas(t) PROVE MaskInv'
  BY <1>9 DEF VTas, TestAndSet, Goto, threadVars, schedVars, semVars
<1>10. ASSUME NEW t \in Thread, VIncrement(t) PROVE MaskInv'
  BY <1>10 DEF VIncrement, Goto, threadVars, schedVars, semVars
<1>11. ASSUME NEW t \in Thread, VDequeue(t) PROVE MaskInv'
  <2>1. PICK s \in Sem : s = sem[t]
    BY <1>11
  <2>2. /\ context = t /\ pc[t] = "v_deq" /\ pc' = [pc EXCEPT ![t] = "v_clear"]
        /\ UNCHANGED <<sem, holds, context, enabled, count, lock>>
    BY <1>11 DEF VDequeue, Goto
  <2>3. \/ UNCHANGED <<wait, ready, owner>>
        \/ \E u \in Thread : Woken(u, s)
    BY <1>11, <2>1, WakeFacts DEF VDequeue
  <2>4. CASE UNCHANGED <<wait, ready, owner>>
    BY <2>1, <2>2, <2>4
  <2>5. ASSUME NEW u \in Thread, Woken(u, s) PROVE MaskInv'
    BY <2>1, <2>2, <2>5 DEF Woken
  <2> QED
    BY <2>3, <2>4, <2>5
<1>12. ASSUME NEW t \in Thread, VClear(t) PROVE MaskInv'
  BY <1>12 DEF VClear, Return, Goto, threadVars, schedVars, semVars
<1>13. ASSUME NEW s \in HandlerSem, HandlerV(s) PROVE MaskInv'
  <2>1. /\ s \in Sem /\ s \notin Mutex /\ enabled /\ ~lock[s]
        /\ count' = [count EXCEPT ![s] = @ + 1]
        /\ UNCHANGED <<pc, sem, holds, context, enabled, lock>>
    BY <1>13 DEF HandlerV, threadVars
  <2>2. \/ UNCHANGED <<wait, ready, owner>>
        \/ \E u \in Thread : Woken(u, s)
    BY <1>13, <2>1, WakeFacts DEF HandlerV
  <2>3. CASE UNCHANGED <<wait, ready, owner>>
    BY <2>1, <2>3
  <2>4. ASSUME NEW u \in Thread, Woken(u, s) PROVE MaskInv'
    BY <2>1, <2>4 DEF Woken
  <2> QED
    BY <2>2, <2>3, <2>4
<1>14. CASE Yield
  BY <1>14 DEF Yield, Schedule, threadVars, schedVars, semVars
<1>15. CASE UNCHANGED vars
  BY <1>15 DEF vars, threadVars, schedVars, semVars
<1> QED
  BY <1>1, <1>2, <1>3, <1>4, <1>5, <1>6, <1>7, <1>8, <1>9, <1>10, <1>11, <1>12, <1>13, <1>14, <1>15 DEF Next, Step

LEMMA QueueStep ==
    ASSUME TypeOK, LockInv, PlaceInv, QueueInv, [Next]_vars
    PROVE  QueueInv'
<1> USE SynchAssumption DEF TypeOK, LockInv, PlaceInv, QueueInv, Blocked, At, Pc, Locked
<1>1. ASSUME NEW t \in Thread, NEW s \in Sem, CallP(t, s) PROVE QueueInv'
  BY <1>1, SameQueues DEF CallP, Goto, threadVars, schedVars, semVars
<1>2. ASSUME NEW t \in Thread, NEW s \in Sem, CallV(t, s) PROVE QueueInv'
  BY <1>2, SameQueues DEF CallV, Goto, threadVars, schedVars, semVars
<1>3. ASSUME NEW t \in Thread, PTas(t) PROVE QueueInv'
  BY <1>3, SameQueues DEF PTas, TestAndSet, Goto, threadVars, schedVars, semVars
<1>4. ASSUME NEW t \in Thread, PDecrement(t) PROVE QueueInv'
  BY <1>4, SameQueues DEF PDecrement, Goto, threadVars, schedVars, semVars
<1>5. ASSUME NEW t \in Thread, PAppend(t) PROVE QueueInv'
  <2>1. PICK s \in Sem : s = sem[t]
    BY <1>5
  <2>2. /\ context = t /\ pc[t] = "p_append" /\ pc' = [pc EXCEPT ![t] = "p_stop"]
        /\ wait' = [wait EXCEPT ![s] = Append(@, t)]
        /\ owner' = [owner EXCEPT ![t] = s]
        /\ UNCHANGED <<sem, context, ready>>
    BY <1>5, <2>1 DEF PAppend, Goto, schedVars
  <2>3. \A u \in Thread, r \in Sem : InQueue(u, r)' => InQueue(u, r) \/ (u = t /\ r = s)
    <3>1. TypeOK /\ wait' = [wait EXCEPT ![s] = Append(@, t)]
      BY <2>2
    <3> HIDE DEF TypeOK, LockInv, PlaceInv, QueueInv
    <3> QED
      BY <3>1, AppendFacts
  <2> QED
    BY <2>1, <2>2, <2>3
<1>6. ASSUME NEW t \in Thread, PStop(t) PROVE QueueInv'
  BY <1>6, SameQueues DEF PStop, Goto, Schedule, threadVars, schedVars, semVars
<1>7. ASSUME NEW t \in Thread, PWoken(t) PROVE QueueInv'
  BY <1>7, SameQueues DEF PWoken, Return, Goto, Obtain, threadVars, schedVars, semVars
<1>8. ASSUME NEW t \in Thread, PClear(t) PROVE QueueInv'
  BY <1>8, SameQueues DEF PClear, Return, Goto, Obtain, threadVars, schedVars, semVars
<1>9. ASSUME NEW t \in Thread, VTas(t) PROVE QueueInv'
  BY <1>9, SameQueues DEF VTas, TestAndSet, Goto, threadVars, schedVars, semVars
<1>10. ASSUME NEW t \in Thread, VIncrement(t) PROVE QueueInv'
  BY <1>10, SameQueues DEF VIncrement, Goto, threadVars, schedVars, semVars
<1>11. ASSUME NEW t \in Thread, VDequeue(t) PROVE QueueInv'
  <2>1. PICK s \in Sem : s = sem[t]
    BY <1>11
  <2>2. /\ context = t /\ pc[t] = "v_deq" /\ pc' = [pc EXCEPT ![t] = "v_clear"]
        /\ UNCHANGED <<sem, holds, context, enabled, count, lock>>
    BY <1>11 DEF VDequeue, Goto
  <2>3. \/ UNCHANGED <<wait, ready, owner>>
        \/ \E u \in Thread : Woken(u, s)
    BY <1>11, <2>1, WakeFacts DEF VDequeue
  <2>4. CASE UNCHANGED <<wait, ready, owner>>
    BY <2>1, <2>2, <2>4, SameQueues
  <2>5. ASSUME NEW u \in Thread, Woken(u, s) PROVE QueueInv'
    <3>1. /\ owner[u] = s /\ owner' = [owner EXCEPT ![u] = "ready"]
          /\ ready' = ready \cup {u} /\ wait' \in [Sem -> Seq(Thread)]
          /\ InQueue(u, s)
      BY <2>5 DEF Woken
    <3>2. \A v \in Thread, r \in Sem : InQueue(v, r)' => InQueue(v, r)
      BY <2>5 DEF Woken
    <3> QED
      BY <2>1, <2>2, <3>1, <3>2
  <2> QED
    BY <2>3, <2>4, <2>5
<1>12. ASSUME NEW t \in Thread, VClear(t) PROVE QueueInv'
  BY <1>12, SameQueues DEF VClear, Return, Goto, threadVars, schedVars, semVars
<1>13. ASSUME NEW s \in HandlerSem, HandlerV(s) PROVE QueueInv'
  <2>1. /\ s \in Sem /\ s \notin Mutex /\ enabled /\ ~lock[s]
        /\ count' = [count EXCEPT ![s] = @ + 1]
        /\ UNCHANGED <<pc, sem, holds, context, enabled, lock>>
    BY <1>13 DEF HandlerV, threadVars
  <2>2. \/ UNCHANGED <<wait, ready, owner>>
        \/ \E u \in Thread : Woken(u, s)
    BY <1>13, <2>1, WakeFacts DEF HandlerV
  <2>3. CASE UNCHANGED <<wait, ready, owner>>
    BY <2>1, <2>3, SameQueues
  <2>4. ASSUME NEW u \in Thread, Woken(u, s) PROVE QueueInv'
    <3>1. /\ owner[u] = s /\ owner' = [owner EXCEPT ![u] = "ready"]
          /\ ready' = ready \cup {u} /\ wait' \in [Sem -> Seq(Thread)]
          /\ InQueue(u, s)
      BY <2>4 DEF Woken
    <3>2. \A v \in Thread, r \in Sem : InQueue(v, r)' => InQueue(v, r)
      BY <2>4 DEF Woken
    <3> QED
      BY <2>1, <3>1, <3>2
  <2> QED
    BY <2>2, <2>3, <2>4
<1>14. CASE Yield
  BY <1>14, SameQueues DEF Yield, Schedule, threadVars, schedVars, semVars
<1>15. CASE UNCHANGED vars
  BY <1>15, SameQueues DEF vars, threadVars, schedVars, semVars
<1> HIDE DEF TypeOK, LockInv, PlaceInv, QueueInv
<1> QED
  BY <1>1, <1>2, <1>3, <1>4, <1>5, <1>6, <1>7, <1>8, <1>9, <1>10, <1>11, <1>12, <1>13, <1>14, <1>15 DEF Next, Step

\* A step that gives no thread a token and leaves the counts alone keeps TokenInv.
LEMMA TokenKept ==
    ASSUME TokenInv,
           \A t \in Thread, m \in Mutex : Token(t, m)' => Token(t, m),
           \A m \in Mutex : count'[m] = count[m],
           \A t \in Thread : pc'[t] # "run" /\ sem'[t] \in Mutex => sem'[t] \notin holds'[t]
    PROVE  TokenInv'
  BY DEF TokenInv

LEMMA TokenStep ==
    ASSUME TypeOK, LockInv, PlaceInv, QueueInv, TokenInv, [Next]_vars
    PROVE  TokenInv'
<1> USE SynchAssumption DEF TypeOK, LockInv, PlaceInv, QueueInv, TokenInv, Token, Blocked, At, Pc, Locked
<1>1. ASSUME NEW t \in Thread, NEW s \in Sem, CallP(t, s) PROVE TokenInv'
  <2>1. /\ pc[t] = "run" /\ pc' = [pc EXCEPT ![t] = "p_tas"] /\ sem' = [sem EXCEPT ![t] = s]
        /\ s \in Mutex => holds[t] = {}
        /\ UNCHANGED <<holds, context, ready, count>>
    BY <1>1 DEF CallP, Goto, semVars
  <2>2. \A v \in Thread, m \in Mutex : Token(v, m)' => Token(v, m)
    BY <2>1
  <2>3. \A v \in Thread : pc'[v] # "run" /\ sem'[v] \in Mutex => sem'[v] \notin holds'[v]
    BY <2>1
  <2> QED
    BY <2>1, <2>2, <2>3, TokenKept
<1>2. ASSUME NEW t \in Thread, NEW s \in Sem, CallV(t, s) PROVE TokenInv'
  <2>1. /\ pc[t] = "run" /\ pc' = [pc EXCEPT ![t] = "v_tas"] /\ sem' = [sem EXCEPT ![t] = s]
        /\ s \in Mutex => s \in holds[t]
        /\ holds' = [holds EXCEPT ![t] = @ \ {s}]
        /\ UNCHANGED <<context, ready, count>>
    BY <1>2 DEF CallV, Goto, semVars
  <2>2. \A v \in Thread, m \in Mutex : Token(v, m)' => Token(v, m)
    BY <2>1
  <2>3. \A v \in Thread : pc'[v] # "run" /\ sem'[v] \in Mutex => sem'[v] \notin holds'[v]
    BY <2>1
  <2> QED
    BY <2>1, <2>2, <2>3, TokenKept
<1>3. ASSUME NEW t \in Thread, PTas(t) PROVE TokenInv'
  BY <1>3 DEF PTas, TestAndSet, Goto, threadVars, schedVars, semVars
<1>4. ASSUME NEW t \in Thread, PDecrement(t) PROVE TokenInv'
  <2>1. PICK s \in Sem : s = sem[t]
    BY <1>4
  <2>2. /\ context = t /\ pc[t] = "p_dec"
        /\ pc' = [pc EXCEPT ![t] = IF count[s] <= 0 THEN "p_append" ELSE "p_clear"]
        /\ count' = [count EXCEPT ![s] = @ - 1]
        /\ UNCHANGED <<sem, holds, context, ready>>
    BY <1>4, <2>1 DEF PDecrement, Goto, schedVars
  <2>3. count[s] \in Int
    BY <2>1
  <2>4. \A u \in Thread, m \in Mutex : Token(u, m)' => Token(u, m) \/ (u = t /\ m = s /\ count[s] > 0)
    BY <2>1, <2>2, <2>3
  <2> HIDE DEF Token, LockInv, PlaceInv, QueueInv, Blocked, At
  <2>5. \A m \in Mutex : m # s => count'[m] = count[m]
    BY <2>2
  <2>6. s \in Mutex /\ count[s] > 0 => count[s] = 1 /\ count'[s] = 0
    BY <2>1, <2>2, <2>3
  <2>7. ASSUME NEW m \in Mutex, NEW u \in Thread, NEW v \in Thread, u # v PROVE ~(Token(u, m)' /\ Token(v, m)')
    <3>1. CASE m = s /\ count[s] > 0
      BY <2>4, <2>6, <2>7, <3>1
    <3>2. CASE ~(m = s /\ count[s] > 0)
      BY <2>4, <2>7, <3>2
    <3> QED
      BY <3>1, <3>2
  <2>8. \A m \in Mutex : count'[m] <= 1
    BY <2>1, <2>2, <2>3, <2>5
  <2>9. \A m \in Mutex : count'[m] = 1 => \A u \in Thread : ~Token(u, m)'
    BY <2>1, <2>2, <2>3, <2>4, <2>5
  <2>10. \A u \in Thread : pc'[u] # "run" /\ sem'[u] \in Mutex => sem'[u] \notin holds'[u]
    BY <2>1, <2>2
  <2> QED
    BY <2>7, <2>8, <2>9, <2>10
<1>5. ASSUME NEW t \in Thread, PAppend(t) PROVE TokenInv'
  BY <1>5, AppendFacts DEF PAppend, Goto, threadVars, schedVars, semVars
<1>6. ASSUME NEW t \in Thread, PStop(t) PROVE TokenInv'
  BY <1>6 DEF PStop, Goto, Schedule, threadVars, schedVars, semVars
<1>7. ASSUME NEW t \in Thread, PWoken(t) PROVE TokenInv'
  BY <1>7 DEF PWoken, Return, Goto, Obtain, threadVars, schedVars, semVars
<1>8. ASSUME NEW t \in Thread, PClear(t) PROVE TokenInv'
  BY <1>8 DEF PClear, Return, Goto, Obtain, threadVars, schedVars, semVars
<1>9. ASSUME NEW t \in Thread, VTas(t) PROVE TokenInv'
  BY <1>9 DEF VTas, TestAndSet, Goto, threadVars, schedVars, semVars
<1>10. ASSUME NEW t \in Thread, VIncrement(t) PROVE TokenInv'
  <2>1. PICK s \in Sem : s = sem[t]
    BY <1>10
  <2>2. /\ context = t /\ pc[t] = "v_inc"
        /\ pc' = [pc EXCEPT ![t] = IF count[s] < 0 THEN "v_deq" ELSE "v_clear"]
        /\ count' = [count EXCEPT ![s] = @ + 1]
        /\ UNCHANGED <<sem, holds, context, ready>>
    BY <1>10, <2>1 DEF VIncrement, Goto, schedVars
  <2>3. count[s] \in Int /\ count'[s] = count[s] + 1
    BY <2>1, <2>2
  <2>4. \A u \in Thread, m \in Mutex : Token(u, m)' => Token(u, m)
    BY <2>1, <2>2, <2>3
  <2>5. s \in Mutex => Token(t, s) /\ (count[s] = 0 => ~Token(t, s)')
    BY <2>1, <2>2, <2>3
  <2>6. \A u \in Thread : pc'[u] # "run" /\ sem'[u] \in Mutex => sem'[u] \notin holds'[u]
    BY <2>1, <2>2
  <2> HIDE DEF Token, LockInv, PlaceInv, QueueInv, Blocked, At
  <2>7. \A m \in Mutex : m # s => count'[m] = count[m]
    BY <2>2
  <2>8. s \in Mutex => count[s] <= 1 /\ count[s] # 1
    BY <2>5
  <2>9. ASSUME NEW m \in Mutex PROVE count'[m] <= 1
    <3>1. CASE m # s
      <4>1. count[m] <= 1
        OBVIOUS
      <4> QED
        BY <2>7, <3>1, <4>1
    <3>2. CASE m = s
      <4>1. count[s] <= 0
        BY <2>3, <2>8, <3>2
      <4> QED
        BY <2>3, <3>2, <4>1
    <3> QED
      BY <3>1, <3>2
  <2>10. ASSUME NEW m \in Mutex, count'[m] = 1, NEW u \in Thread PROVE ~Token(u, m)'
    <3>1. CASE m # s
      BY <2>4, <2>7, <2>10, <3>1
    <3>2. CASE m = s
      BY <2>3, <2>4, <2>5, <2>10, <3>2
    <3> QED
      BY <3>1, <3>2
  <2> QED
    BY <2>4, <2>6, <2>9, <2>10
<1>11. ASSUME NEW t \in Thread, VDequeue(t) PROVE TokenInv'
  <2>1. PICK s \in Sem : s = sem[t]
    BY <1>11
  <2>2. /\ context = t /\ pc[t] = "v_deq" /\ pc' = [pc EXCEPT ![t] = "v_clear"]
        /\ UNCHANGED <<sem, holds, context, enabled, count, lock>>
    BY <1>11 DEF VDequeue, Goto
  <2>3. \/ UNCHANGED <<wait, ready, owner>>
        \/ \E u \in Thread : Woken(u, s)
    BY <1>11, <2>1, WakeFacts DEF VDequeue
  <2>4. CASE UNCHANGED <<wait, ready, owner>>
    BY <2>1, <2>2, <2>4
  <2>5. ASSUME NEW u \in Thread, Woken(u, s) PROVE TokenInv'
    <3>1. /\ owner[u] = s /\ owner' = [owner EXCEPT ![u] = "ready"]
          /\ ready' = ready \cup {u} /\ wait' \in [Sem -> Seq(Thread)]
          /\ InQueue(u, s)
      BY <2>5 DEF Woken
    <3>2. sem[u] = s /\ Blocked(u) /\ pc[u] = "wait"
      BY <2>1, <2>2, <3>1
    <3>3. \A v \in Thread, m \in Mutex : Token(v, m)' => Token(v, m) \/ (v = u /\ m = s)
      BY <2>1, <2>2, <3>1, <3>2
    <3>4. Token(t, s) /\ (s \in Mutex => ~Token(t, s)')
      BY <2>1, <2>2, <3>1, <3>2
    <3>5. \A v \in Thread : pc'[v] # "run" /\ sem'[v] \in Mutex => sem'[v] \notin holds'[v]
      BY <2>1, <2>2
    <3> HIDE DEF Token, LockInv, PlaceInv, QueueInv, Blocked, At
    <3>6. ASSUME NEW m \in Mutex, NEW v \in Thread, NEW w \in Thread, v # w, Token(v, m)', Token(w, m)'
          PROVE  FALSE
      <4>1. Token(v, m) \/ (v = u /\ m = s)
        BY <3>3, <3>6
      <4>2. Token(w, m) \/ (w = u /\ m = s)
        BY <3>3, <3>6
      <4>3. \A x, y \in Thread : x # y => ~(Token(x, m) /\ Token(y, m))
        BY DEF TokenInv
      <4>4. CASE m # s
        BY <3>6, <4>1, <4>2, <4>3, <4>4
      <4>5. CASE m = s
        <5>1. v # t /\ w # t
          <6>1. ~Token(t, m)'
            BY <3>4, <4>5
          <6> QED
            BY <3>6, <6>1
        <5>2. Token(t, m) /\ v = u /\ w = u
          BY <3>4, <4>1, <4>2, <4>3, <4>5, <5>1
        <5> QED
          BY <3>6, <5>2
      <4> QED
        BY <4>4, <4>5
    <3>7. \A m \in Mutex : count'[m] <= 1 /\ (count'[m] = 1 => \A v \in Thread : ~Token(v, m)')
      BY <2>2, <3>3, <3>4
    <3> QED
      BY <3>5, <3>6, <3>7
  <2> QED
    BY <2>3, <2>4, <2>5
<1>12. ASSUME NEW t \in Thread, VClear(t) PROVE TokenInv'
  BY <1>12 DEF VClear, Return, Goto, threadVars, schedVars, semVars
<1>13. ASSUME NEW s \in HandlerSem, HandlerV(s) PROVE TokenInv'
  <2>1. /\ s \in Sem /\ s \notin Mutex /\ enabled /\ ~lock[s]
        /\ count' = [count EXCEPT ![s] = @ + 1]
        /\ UNCHANGED <<pc, sem, holds, context, enabled, lock>>
    BY <1>13 DEF HandlerV, threadVars
  <2>2. \/ UNCHANGED <<wait, ready, owner>>
        \/ \E u \in Thread : Woken(u, s)
    BY <1>13, <2>1, WakeFacts DEF HandlerV
  <2>3. CASE UNCHANGED <<wait, ready, owner>>
    BY <2>1, <2>3
  <2>4. ASSUME NEW u \in Thread, Woken(u, s) PROVE TokenInv'
    <3>1. /\ owner[u] = s /\ owner' = [owner EXCEPT ![u] = "ready"]
          /\ ready' = ready \cup {u} /\ wait' \in [Sem -> Seq(Thread)]
          /\ InQueue(u, s)
      BY <2>4 DEF Woken
    <3>2. sem[u] = s /\ Blocked(u) /\ pc[u] = "wait"
      BY <2>1, <3>1
    <3>3. \A v \in Thread, m \in Mutex : Token(v, m)' => Token(v, m)
      BY <2>1, <3>1, <3>2
    <3>4. \A m \in Mutex : count'[m] = count[m]
      BY <2>1
    <3>5. \A v \in Thread : pc'[v] # "run" /\ sem'[v] \in Mutex => sem'[v] \notin holds'[v]
      BY <2>1
    <3> HIDE DEF Token, LockInv, PlaceInv, QueueInv, Blocked, At
    <3> QED
      BY <3>3, <3>4, <3>5
  <2> QED
    BY <2>2, <2>3, <2>4
<1>14. CASE Yield
  <2>1. /\ context' \in ready \cup {context} \cup {Idle}
        /\ ready' \subseteq ready \cup ({context} \ {Idle})
        /\ UNCHANGED <<pc, sem, holds, count>>
    BY <1>14 DEF Yield, Schedule, threadVars, semVars
  <2>2. \A v \in Thread : Blocked(v) => Blocked(v)'
    BY <2>1
  <2>3. \A v \in Thread, m \in Mutex : Token(v, m)' => Token(v, m)
    BY <2>1, <2>2
  <2> QED
    BY <2>1, <2>3, TokenKept
<1>15. CASE UNCHANGED vars
  BY <1>15 DEF vars, threadVars, schedVars, semVars
<1> QED
  BY <1>1, <1>2, <1>3, <1>4, <1>5, <1>6, <1>7, <1>8, <1>9, <1>10, <1>11, <1>12, <1>13, <1>14, <1>15 DEF Next, Step

\* A step keeps CountOf(r) if it leaves r, its queue and its callers alone.
LEMMA CountOfKept ==
    ASSUME NEW r \in Sem, CountOf(r),
           wait'[r] = wait[r], count'[r] = count[r],
           \A u \in Thread : owner[u] = r /\ InQueue(u, r) => owner'[u] = r,
           \A u \in Thread : At(u, r, {"p_append"})' <=> At(u, r, {"p_append"}),
           \A u \in Thread : At(u, r, {"v_deq"})' <=> At(u, r, {"v_deq"})
    PROVE  CountOf(r)'
<1>1. /\ \A u \in Thread : InQueue(u, r)' <=> InQueue(u, r)
      /\ NoRepeats(r)' <=> NoRepeats(r)
  BY DEF InQueue, NoRepeats
<1>2. Waiting(r)' = Waiting(r)
  BY DEF Waiting
<1>3. (\A u \in Thread : ~At(u, r, {"p_append", "v_deq"}))' <=> (\A u \in Thread : ~At(u, r, {"p_append", "v_deq"}))
  BY DEF At
<1> QED
  BY <1>1, <1>2, <1>3 DEF CountOf

LEMMA CountStep ==
    ASSUME TypeOK, LockInv, MaskInv, QueueInv, CountInv, [Next]_vars
    PROVE  CountInv'
<1> USE SynchAssumption
<1>0. \A s \in Masked : s \in Sem /\ CountOf(s)
  BY DEF CountInv
<1>1. ASSUME NEW t \in Thread, NEW s \in Sem, CallP(t, s) PROVE CountInv'
  <2>1. \A u \in Thread : At(u, sem[u], {"p_append", "v_deq"}) => u # t /\ sem'[u] = sem[u] /\ pc'[u] = pc[u]
    BY <1>1 DEF CallP, Goto, At, TypeOK
  <2>2. \A u \in Thread : pc'[u] \in {"p_append", "v_deq"} => u # t /\ sem'[u] = sem[u] /\ pc'[u] = pc[u]
    BY <1>1 DEF CallP, Goto, TypeOK
  <2>3. wait' = wait /\ count' = count /\ owner' = owner
    BY <1>1 DEF CallP, Goto, semVars, schedVars
  <2> QED
    BY <1>0, <2>1, <2>2, <2>3, CountOfKept DEF CountInv, At
<1>2. ASSUME NEW t \in Thread, NEW s \in Sem, CallV(t, s) PROVE CountInv'
  <2>1. \A u \in Thread : At(u, sem[u], {"p_append", "v_deq"}) => u # t /\ sem'[u] = sem[u] /\ pc'[u] = pc[u]
    BY <1>2 DEF CallV, Goto, At, TypeOK
  <2>2. \A u \in Thread : pc'[u] \in {"p_append", "v_deq"} => u # t /\ sem'[u] = sem[u] /\ pc'[u] = pc[u]
    BY <1>2 DEF CallV, Goto, TypeOK
  <2>3. wait' = wait /\ count' = count /\ owner' = owner
    BY <1>2 DEF CallV, Goto, semVars, schedVars
  <2> QED
    BY <1>0, <2>1, <2>2, <2>3, CountOfKept DEF CountInv, At
<1>3. ASSUME NEW t \in Thread, PTas(t) PROVE CountInv'
  <2>1. \A u \in Thread : At(u, sem[u], {"p_append", "v_deq"}) => u # t /\ sem'[u] = sem[u] /\ pc'[u] = pc[u]
    BY <1>3 DEF PTas, TestAndSet, Goto, At, TypeOK
  <2>2. \A u \in Thread : pc'[u] \in {"p_append", "v_deq"} => u # t /\ sem'[u] = sem[u] /\ pc'[u] = pc[u]
    BY <1>3 DEF PTas, TestAndSet, Goto, TypeOK
  <2>3. wait' = wait /\ count' = count /\ owner' = owner
    BY <1>3 DEF PTas, TestAndSet, Goto, semVars, schedVars
  <2> QED
    BY <1>0, <2>1, <2>2, <2>3, CountOfKept DEF CountInv, At
<1>4. ASSUME NEW t \in Thread, PStop(t) PROVE CountInv'
  <2>1. \A u \in Thread : At(u, sem[u], {"p_append", "v_deq"}) => u # t /\ sem'[u] = sem[u] /\ pc'[u] = pc[u]
    BY <1>4 DEF PStop, Goto, At, TypeOK
  <2>2. \A u \in Thread : pc'[u] \in {"p_append", "v_deq"} => u # t /\ sem'[u] = sem[u] /\ pc'[u] = pc[u]
    BY <1>4 DEF PStop, Goto, TypeOK
  <2>3. wait' = wait /\ count' = count /\ owner' = owner
    BY <1>4 DEF PStop, Goto, semVars, schedVars
  <2> QED
    BY <1>0, <2>1, <2>2, <2>3, CountOfKept DEF CountInv, At
<1>5. ASSUME NEW t \in Thread, PWoken(t) PROVE CountInv'
  <2>1. \A u \in Thread : At(u, sem[u], {"p_append", "v_deq"}) => u # t /\ sem'[u] = sem[u] /\ pc'[u] = pc[u]
    BY <1>5 DEF PWoken, Return, Goto, At, TypeOK
  <2>2. \A u \in Thread : pc'[u] \in {"p_append", "v_deq"} => u # t /\ sem'[u] = sem[u] /\ pc'[u] = pc[u]
    BY <1>5 DEF PWoken, Return, Goto, TypeOK
  <2>3. wait' = wait /\ count' = count /\ owner' = owner
    BY <1>5 DEF PWoken, Return, Goto, semVars, schedVars
  <2> QED
    BY <1>0, <2>1, <2>2, <2>3, CountOfKept DEF CountInv, At
<1>6. ASSUME NEW t \in Thread, PClear(t) PROVE CountInv'
  <2>1. \A u \in Thread : At(u, sem[u], {"p_append", "v_deq"}) => u # t /\ sem'[u] = sem[u] /\ pc'[u] = pc[u]
    BY <1>6 DEF PClear, Return, Goto, At, TypeOK
  <2>2. \A u \in Thread : pc'[u] \in {"p_append", "v_deq"} => u # t /\ sem'[u] = sem[u] /\ pc'[u] = pc[u]
    BY <1>6 DEF PClear, Return, Goto, TypeOK
  <2>3. wait' = wait /\ count' = count /\ owner' = owner
    BY <1>6 DEF PClear, Return, Goto, semVars, schedVars
  <2> QED
    BY <1>0, <2>1, <2>2, <2>3, CountOfKept DEF CountInv, At
<1>7. ASSUME NEW t \in Thread, VTas(t) PROVE CountInv'
  <2>1. \A u \in Thread : At(u, sem[u], {"p_append", "v_deq"}) => u # t /\ sem'[u] = sem[u] /\ pc'[u] = pc[u]
    BY <1>7 DEF VTas, TestAndSet, Goto, At, TypeOK
  <2>2. \A u \in Thread : pc'[u] \in {"p_append", "v_deq"} => u # t /\ sem'[u] = sem[u] /\ pc'[u] = pc[u]
    BY <1>7 DEF VTas, TestAndSet, Goto, TypeOK
  <2>3. wait' = wait /\ count' = count /\ owner' = owner
    BY <1>7 DEF VTas, TestAndSet, Goto, semVars, schedVars
  <2> QED
    BY <1>0, <2>1, <2>2, <2>3, CountOfKept DEF CountInv, At
<1>8. ASSUME NEW t \in Thread, VClear(t) PROVE CountInv'
  <2>1. \A u \in Thread : At(u, sem[u], {"p_append", "v_deq"}) => u # t /\ sem'[u] = sem[u] /\ pc'[u] = pc[u]
    BY <1>8 DEF VClear, Return, Goto, At, TypeOK
  <2>2. \A u \in Thread : pc'[u] \in {"p_append", "v_deq"} => u # t /\ sem'[u] = sem[u] /\ pc'[u] = pc[u]
    BY <1>8 DEF VClear, Return, Goto, TypeOK
  <2>3. wait' = wait /\ count' = count /\ owner' = owner
    BY <1>8 DEF VClear, Return, Goto, semVars, schedVars
  <2> QED
    BY <1>0, <2>1, <2>2, <2>3, CountOfKept DEF CountInv, At
<1>9. ASSUME NEW t \in Thread, PDecrement(t) PROVE CountInv'
  <2>1. PICK s \in Sem : s = sem[t]
    BY DEF TypeOK
  <2>2. /\ pc[t] = "p_dec"
        /\ pc' = [pc EXCEPT ![t] = IF count[s] <= 0 THEN "p_append" ELSE "p_clear"]
        /\ count' = [count EXCEPT ![s] = @ - 1]
        /\ UNCHANGED <<sem, wait, owner>>
    BY <1>9, <2>1 DEF PDecrement, Goto
  <2>3. \A u \in Thread : u # t => ~At(u, s, {"p_append", "v_deq"})
    BY <2>1, <2>2 DEF LockInv, At, Locked
  <2>4. Len(wait[s]) \in Nat /\ count[s] \in Int
    BY <2>1 DEF TypeOK
  <2>5. ASSUME NEW r \in Masked, r # s PROVE CountOf(r)'
    <3>1. wait'[r] = wait[r] /\ count'[r] = count[r]
      BY <1>0, <2>1, <2>2, <2>5 DEF TypeOK
    <3>2. \A u \in Thread : At(u, r, {"p_append"})' <=> At(u, r, {"p_append"})
      BY <2>1, <2>2, <2>5 DEF At, TypeOK
    <3>3. \A u \in Thread : At(u, r, {"v_deq"})' <=> At(u, r, {"v_deq"})
      BY <2>1, <2>2, <2>5 DEF At, TypeOK
    <3>4. \A u \in Thread : owner[u] = r /\ InQueue(u, r) => owner'[u] = r
      BY <2>2
    <3> QED
      BY <1>0, <3>1, <3>2, <3>3, <3>4, CountOfKept
  <2>6. ASSUME s \in Masked PROVE CountOf(s)'
    <3>1. Len(wait[s]) = Waiting(s)
      BY <1>0, <2>2, <2>3, <2>6 DEF CountOf, At
    <3>2. (\A u \in Thread : InQueue(u, s)' => owner'[u] = s) /\ NoRepeats(s)'
      BY <1>0, <2>2, <2>6, SameQueues DEF CountOf
    <3>3. \A u \in Thread : At(u, s, {"p_append"})' => count'[s] < 0 /\ Len(wait'[s]) = -count'[s] - 1
      BY <2>1, <2>2, <2>3, <2>4, <3>1 DEF At, Waiting, TypeOK
    <3>4. \A u \in Thread : At(u, s, {"v_deq"})' => count'[s] <= 0 /\ Len(wait'[s]) = 1 - count'[s]
      BY <2>1, <2>2, <2>3, <2>4, <3>1 DEF At, Waiting, TypeOK
    <3>5. (\A u \in Thread : ~At(u, s, {"p_append", "v_deq"})') => Len(wait'[s]) = Waiting(s)'
      BY <2>1, <2>2, <2>3, <2>4, <3>1 DEF At, Waiting, TypeOK
    <3> QED
      BY <3>2, <3>3, <3>4, <3>5 DEF CountOf
  <2> QED
    BY <2>5, <2>6 DEF CountInv
<1>10. ASSUME NEW t \in Thread, VIncrement(t) PROVE CountInv'
  <2>1. PICK s \in Sem : s = sem[t]
    BY DEF TypeOK
  <2>2. /\ pc[t] = "v_inc"
        /\ pc' = [pc EXCEPT ![t] = IF count[s] < 0 THEN "v_deq" ELSE "v_clear"]
        /\ count' = [count EXCEPT ![s] = @ + 1]
        /\ UNCHANGED <<sem, wait, owner>>
    BY <1>10, <2>1 DEF VIncrement, Goto
  <2>3. \A u \in Thread : u # t => ~At(u, s, {"p_append", "v_deq"})
    BY <2>1, <2>2 DEF LockInv, At, Locked
  <2>4. Len(wait[s]) \in Nat /\ count[s] \in Int
    BY <2>1 DEF TypeOK
  <2>5. ASSUME NEW r \in Masked, r # s PROVE CountOf(r)'
    <3>1. wait'[r] = wait[r] /\ count'[r] = count[r]
      BY <1>0, <2>1, <2>2, <2>5 DEF TypeOK
    <3>2. \A u \in Thread : At(u, r, {"p_append"})' <=> At(u, r, {"p_append"})
      BY <2>1, <2>2, <2>5 DEF At, TypeOK
    <3>3. \A u \in Thread : At(u, r, {"v_deq"})' <=> At(u, r, {"v_deq"})
      BY <2>1, <2>2, <2>5 DEF At, TypeOK
    <3>4. \A u \in Thread : owner[u] = r /\ InQueue(u, r) => owner'[u] = r
      BY <2>2
    <3> QED
      BY <1>0, <3>1, <3>2, <3>3, <3>4, CountOfKept
  <2>6. ASSUME s \in Masked PROVE CountOf(s)'
    <3>1. Len(wait[s]) = Waiting(s)
      BY <1>0, <2>2, <2>3, <2>6 DEF CountOf, At
    <3>2. (\A u \in Thread : InQueue(u, s)' => owner'[u] = s) /\ NoRepeats(s)'
      BY <1>0, <2>2, <2>6, SameQueues DEF CountOf
    <3>3. \A u \in Thread : At(u, s, {"p_append"})' => count'[s] < 0 /\ Len(wait'[s]) = -count'[s] - 1
      BY <2>1, <2>2, <2>3, <2>4, <3>1 DEF At, Waiting, TypeOK
    <3>4. \A u \in Thread : At(u, s, {"v_deq"})' => count'[s] <= 0 /\ Len(wait'[s]) = 1 - count'[s]
      BY <2>1, <2>2, <2>3, <2>4, <3>1 DEF At, Waiting, TypeOK
    <3>5. (\A u \in Thread : ~At(u, s, {"p_append", "v_deq"})') => Len(wait'[s]) = Waiting(s)'
      BY <2>1, <2>2, <2>3, <2>4, <3>1 DEF At, Waiting, TypeOK
    <3> QED
      BY <3>2, <3>3, <3>4, <3>5 DEF CountOf
  <2> QED
    BY <2>5, <2>6 DEF CountInv
<1>11. ASSUME NEW t \in Thread, PAppend(t) PROVE CountInv'
  <2>1. PICK s \in Sem : s = sem[t]
    BY DEF TypeOK
  <2>2. /\ context = t /\ pc[t] = "p_append" /\ pc' = [pc EXCEPT ![t] = "p_stop"]
        /\ wait' = [wait EXCEPT ![s] = Append(@, t)]
        /\ owner' = [owner EXCEPT ![t] = s]
        /\ UNCHANGED <<sem, count>>
    BY <1>11, <2>1 DEF PAppend, Goto
  <2>3. \A u \in Thread : u # t => ~At(u, s, {"p_append", "v_deq"})
    BY <2>1, <2>2 DEF LockInv, At, Locked
  <2>4. Len(wait[s]) \in Nat /\ count[s] \in Int
    BY <2>1 DEF TypeOK
  <2>7. /\ Len(wait'[s]) = Len(wait[s]) + 1
        /\ \A u \in Thread, r \in Sem : InQueue(u, r)' => InQueue(u, r) \/ (u = t /\ r = s)
        /\ NoRepeats(s) /\ ~InQueue(t, s) => NoRepeats(s)'
    BY <2>2, AppendFacts
  <2>8. \A r \in Masked : ~InQueue(t, r)
    BY <1>0, <2>2 DEF QueueInv, CountOf, Blocked
  <2>5. ASSUME NEW r \in Masked, r # s PROVE CountOf(r)'
    <3>1. wait'[r] = wait[r] /\ count'[r] = count[r]
      BY <1>0, <2>1, <2>2, <2>5 DEF TypeOK
    <3>2. \A u \in Thread : At(u, r, {"p_append"})' <=> At(u, r, {"p_append"})
      BY <2>1, <2>2, <2>5 DEF At, TypeOK
    <3>3. \A u \in Thread : At(u, r, {"v_deq"})' <=> At(u, r, {"v_deq"})
      BY <2>1, <2>2, <2>5 DEF At, TypeOK
    <3>4. \A u \in Thread : owner[u] = r /\ InQueue(u, r) => owner'[u] = r
      BY <2>2, <2>5, <2>8 DEF TypeOK
    <3> QED
      BY <1>0, <3>1, <3>2, <3>3, <3>4, CountOfKept
  <2>6. ASSUME s \in Masked PROVE CountOf(s)'
    <3>1. count[s] < 0 /\ Len(wait[s]) = -count[s] - 1
      BY <1>0, <2>1, <2>2, <2>6 DEF CountOf, At
    <3>2. (\A u \in Thread : InQueue(u, s)' => owner'[u] = s) /\ NoRepeats(s)'
      BY <1>0, <2>2, <2>6, <2>7, <2>8 DEF CountOf, TypeOK
    <3>3. \A u \in Thread : At(u, s, {"p_append"})' => count'[s] < 0 /\ Len(wait'[s]) = -count'[s] - 1
      BY <2>1, <2>2, <2>3, <2>4, <2>7, <3>1 DEF At, Waiting, TypeOK
    <3>4. \A u \in Thread : At(u, s, {"v_deq"})' => count'[s] <= 0 /\ Len(wait'[s]) = 1 - count'[s]
      BY <2>1, <2>2, <2>3, <2>4, <2>7, <3>1 DEF At, Waiting, TypeOK
    <3>5. (\A u \in Thread : ~At(u, s, {"p_append", "v_deq"})') => Len(wait'[s]) = Waiting(s)'
      BY <2>1, <2>2, <2>3, <2>4, <2>7, <3>1 DEF At, Waiting, TypeOK
    <3> QED
      BY <3>2, <3>3, <3>4, <3>5 DEF CountOf
  <2> QED
    BY <2>5, <2>6 DEF CountInv
<1>12. ASSUME NEW t \in Thread, VDequeue(t) PROVE CountInv'
  <2>1. PICK s \in Sem : s = sem[t]
    BY DEF TypeOK
  <2>2. /\ context = t /\ pc[t] = "v_deq" /\ pc' = [pc EXCEPT ![t] = "v_clear"]
        /\ UNCHANGED <<sem, count>>
    BY <1>12, <2>1 DEF VDequeue, Goto
  <2>3. \A u \in Thread : u # t => ~At(u, s, {"p_append", "v_deq"})
    BY <2>1, <2>2 DEF LockInv, At, Locked
  <2>4. Len(wait[s]) \in Nat /\ count[s] \in Int
    BY <2>1 DEF TypeOK
  <2>5. \/ ~Dequeues(s) /\ UNCHANGED <<wait, ready, owner>>
        \/ \E u \in Thread : Woken(u, s)
    BY <1>12, <2>1, WakeFacts DEF VDequeue
  <2>6. CASE ~Dequeues(s) /\ UNCHANGED <<wait, ready, owner>>
    <3>1. s \in Masked => Len(wait[s]) > 0
      BY <1>0, <2>1, <2>2, <2>4 DEF CountOf, At
    <3>2. s \notin Masked
      BY <1>0, <2>6, <3>1, MaskedDequeues
    <3>3. ASSUME NEW r \in Masked PROVE CountOf(r)'
      <4>1. \A v \in Thread : At(v, r, {"p_append"})' <=> At(v, r, {"p_append"})
        BY <2>1, <2>2, <3>2, <3>3 DEF At, TypeOK
      <4>2. \A v \in Thread : At(v, r, {"v_deq"})' <=> At(v, r, {"v_deq"})
        BY <2>1, <2>2, <3>2, <3>3 DEF At, TypeOK
      <4> QED
        BY <1>0, <2>2, <2>6, <4>1, <4>2, CountOfKept
    <3> QED
      BY <3>3 DEF CountInv
  <2>7. ASSUME NEW u \in Thread, Woken(u, s) PROVE CountInv'
    <3>1. /\ owner[u] = s /\ owner' = [owner EXCEPT ![u] = "ready"]
          /\ \A r \in Sem : r # s => wait'[r] = wait[r]
          /\ \A v \in Thread, r \in Sem : InQueue(v, r)' => InQueue(v, r)
          /\ NoRepeats(s) => NoRepeats(s)' /\ ~InQueue(u, s)'
          /\ Len(wait'[s]) = Len(wait[s]) - 1
      BY <2>7 DEF Woken
    <3>2. ASSUME NEW r \in Masked, r # s PROVE CountOf(r)'
      <4>1. wait'[r] = wait[r] /\ count'[r] = count[r]
        BY <1>0, <2>2, <3>1, <3>2 DEF TypeOK
      <4>2. \A v \in Thread : At(v, r, {"p_append"})' <=> At(v, r, {"p_append"})
        BY <2>1, <2>2, <3>2 DEF At, TypeOK
      <4>3. \A v \in Thread : At(v, r, {"v_deq"})' <=> At(v, r, {"v_deq"})
        BY <2>1, <2>2, <3>2 DEF At, TypeOK
      <4>4. \A v \in Thread : owner[v] = r /\ InQueue(v, r) => owner'[v] = r
        BY <3>1, <3>2 DEF TypeOK
      <4> QED
        BY <1>0, <4>1, <4>2, <4>3, <4>4, CountOfKept
    <3>3. ASSUME s \in Masked PROVE CountOf(s)'
      <4>1. count[s] <= 0 /\ Len(wait[s]) = 1 - count[s]
        BY <1>0, <2>1, <2>2, <3>3 DEF CountOf, At
      <4>2. (\A v \in Thread : InQueue(v, s)' => owner'[v] = s) /\ NoRepeats(s)'
        BY <1>0, <3>1, <3>3 DEF CountOf, TypeOK
      <4>3. \A v \in Thread : ~At(v, s, {"p_append", "v_deq"})'
        BY <2>1, <2>2, <2>3 DEF At, TypeOK
      <4>4. Len(wait'[s]) = Waiting(s)'
        <5>1. count'[s] = count[s]
          BY <2>2
        <5>2. Len(wait'[s]) = Len(wait[s]) - 1
          BY <3>1
        <5> QED
          BY <2>4, <4>1, <5>1, <5>2 DEF Waiting
      <4> QED
        BY <4>2, <4>3, <4>4 DEF CountOf, At
    <3> QED
      BY <3>2, <3>3 DEF CountInv
  <2> QED
    BY <2>5, <2>6, <2>7
<1>13. ASSUME NEW s \in HandlerSem, HandlerV(s) PROVE CountInv'
  <2>1. s \in Sem
    OBVIOUS
  <2>2. /\ ~lock[s]
        /\ count' = [count EXCEPT ![s] = @ + 1]
        /\ UNCHANGED <<pc, sem>>
    BY <1>13 DEF HandlerV, threadVars
  <2>3. \A u \in Thread : ~At(u, s, {"p_append", "v_deq"})
    BY <2>2 DEF LockInv, At, Locked
  <2>4. Len(wait[s]) \in Nat /\ count[s] \in Int
    BY <2>1 DEF TypeOK
  <2>5. s \in Masked => Len(wait[s]) = Waiting(s)
    BY <1>0, <2>3 DEF CountOf
  <2>6. CASE UNCHANGED <<wait, ready, owner>> /\ ~(count[s] < 0 /\ s \in Masked)
    <3>1. ASSUME NEW r \in Masked, r # s PROVE CountOf(r)'
      <4>1. wait'[r] = wait[r] /\ count'[r] = count[r]
        BY <1>0, <2>2, <2>6, <3>1 DEF TypeOK
      <4> QED
        BY <1>0, <2>2, <2>6, <4>1, CountOfKept DEF At
    <3>2. ASSUME s \in Masked PROVE CountOf(s)'
      <4>1. Len(wait'[s]) = Waiting(s)'
        BY <2>1, <2>2, <2>4, <2>5, <2>6, <3>2 DEF Waiting, TypeOK
      <4>2. (\A u \in Thread : InQueue(u, s)' => owner'[u] = s) /\ NoRepeats(s)'
        BY <1>0, <2>6, <3>2, SameQueues DEF CountOf
      <4> QED
        BY <2>2, <2>3, <4>1, <4>2 DEF CountOf, At
    <3> QED
      BY <3>1, <3>2 DEF CountInv
  <2>7. ASSUME count[s] < 0, NEW u \in Thread, Woken(u, s) PROVE CountInv'
    <3>1. /\ owner[u] = s /\ owner' = [owner EXCEPT ![u] = "ready"]
          /\ \A r \in Sem : r # s => wait'[r] = wait[r]
          /\ \A v \in Thread, r \in Sem : InQueue(v, r)' => InQueue(v, r)
          /\ NoRepeats(s) => NoRepeats(s)' /\ ~InQueue(u, s)'
          /\ Len(wait'[s]) = Len(wait[s]) - 1
      BY <2>7 DEF Woken
    <3>2. ASSUME NEW r \in Masked, r # s PROVE CountOf(r)'
      <4>1. wait'[r] = wait[r] /\ count'[r] = count[r]
        BY <1>0, <2>2, <3>1, <3>2 DEF TypeOK
      <4>2. \A v \in Thread : At(v, r, {"p_append"})' <=> At(v, r, {"p_append"})
        BY <2>1, <2>2, <3>2 DEF At, TypeOK
      <4>3. \A v \in Thread : At(v, r, {"v_deq"})' <=> At(v, r, {"v_deq"})
        BY <2>1, <2>2, <3>2 DEF At, TypeOK
      <4>4. \A v \in Thread : owner[v] = r /\ InQueue(v, r) => owner'[v] = r
        BY <3>1, <3>2 DEF TypeOK
      <4> QED
        BY <1>0, <4>1, <4>2, <4>3, <4>4, CountOfKept
    <3>3. ASSUME s \in Masked PROVE CountOf(s)'
      <4>1. Len(wait[s]) = -count[s]
        BY <2>4, <2>5, <2>7, <3>3 DEF Waiting
      <4>2. (\A v \in Thread : InQueue(v, s)' => owner'[v] = s) /\ NoRepeats(s)'
        BY <1>0, <3>1, <3>3 DEF CountOf, TypeOK
      <4>3. \A v \in Thread : ~At(v, s, {"p_append", "v_deq"})'
        BY <2>1, <2>2, <2>3 DEF At, TypeOK
      <4>4. Len(wait'[s]) = Waiting(s)'
        <5>1. count'[s] = count[s] + 1
          BY <2>1, <2>2 DEF TypeOK
        <5>2. Len(wait'[s]) = Len(wait[s]) - 1
          BY <3>1
        <5> QED
          BY <2>4, <2>7, <4>1, <5>1, <5>2 DEF Waiting
      <4> QED
        BY <4>2, <4>3, <4>4 DEF CountOf, At
    <3> QED
      BY <3>2, <3>3 DEF CountInv
  <2>8. CASE count[s] < 0
    <3>1. \/ ~Dequeues(s) /\ UNCHANGED <<wait, ready, owner>>
          \/ \E u \in Thread : Woken(u, s)
      BY <1>13, <2>1, <2>8, WakeFacts DEF HandlerV
    <3>2. s \in Masked => Dequeues(s)
      BY <1>0, <2>1, <2>4, <2>5, <2>8, MaskedDequeues DEF Waiting
    <3> QED
      BY <2>6, <2>7, <2>8, <3>1, <3>2
  <2>9. CASE ~(count[s] < 0)
    BY <1>13, <2>6, <2>9 DEF HandlerV
  <2> QED
    BY <2>8, <2>9
<1>14. CASE Yield
  <2>1. pc' = pc /\ sem' = sem /\ count' = count /\ wait' = wait
    BY <1>14 DEF Yield, threadVars, semVars
  <2>2. \A u \in Thread : owner'[u] = owner[u] \/ (u = context /\ enabled)
    BY <1>14 DEF Yield, TypeOK
  <2>3. \A r \in Masked, u \in Thread : owner[u] = r /\ InQueue(u, r) => ~(u = context /\ enabled)
    BY <1>0 DEF QueueInv, MaskInv, Blocked, Calling, Locked
  <2> QED
    BY <1>0, <2>1, <2>2, <2>3, CountOfKept DEF CountInv, At
<1>15. CASE UNCHANGED vars
  BY <1>0, <1>15, CountOfKept DEF CountInv, At, vars, threadVars, schedVars, semVars
<1> QED
  BY <1>1, <1>2, <1>3, <1>4, <1>5, <1>6, <1>7, <1>8, <1>9, <1>10, <1>11, <1>12, <1>13, <1>14, <1>15 DEF Next, Step
-----------------------------------------------------------------------------
(***************************************************************************)
(* The invariant is inductive.                                             *)
(***************************************************************************)
LEMMA InitInv ==
    ASSUME Init
    PROVE  IInv
<1> USE SynchAssumption DEF Init
<1>1. wait \in [Sem -> Seq(Thread)] /\ \A s \in Sem : wait[s] = << >> /\ Len(wait[s]) = 0
  OBVIOUS
<1>2. TypeOK
  BY <1>1 DEF TypeOK, Pc
<1>3. LockInv /\ PlaceInv /\ MaskInv
  BY DEF LockInv, PlaceInv, MaskInv, Calling, Locked, At
<1>4. QueueInv
  BY <1>1 DEF QueueInv, InQueue
<1>5. TokenInv
  BY DEF TokenInv, Token, At, Blocked
<1>6. \A s \in Sem : count[s] \in Nat
  OBVIOUS
<1>7. ASSUME NEW s \in Masked PROVE CountOf(s)
  <2>1. (\A t \in Thread : InQueue(t, s) => owner[t] = s) /\ NoRepeats(s)
    BY <1>1 DEF InQueue, NoRepeats
  <2>2. \A t \in Thread : ~At(t, s, {"p_append", "v_deq"}) /\ ~At(t, s, {"p_append"}) /\ ~At(t, s, {"v_deq"})
    BY DEF At
  <2>3. Len(wait[s]) = Waiting(s)
    BY <1>1, <1>6 DEF Waiting
  <2> QED
    BY <2>1, <2>2, <2>3 DEF CountOf
<1> QED
  BY <1>2, <1>3, <1>4, <1>5, <1>7 DEF IInv, CountInv

LEMMA NextInv ==
    ASSUME IInv, [Next]_vars
    PROVE  IInv'
  BY TypeStep, LockStep, PlaceStep, MaskStep, QueueStep, TokenStep, CountStep DEF IInv

LEMMA Invariance == Spec => []IInv
<1>1. Init => IInv
  BY InitInv
<1>2. IInv /\ [Next]_vars => IInv'
  BY NextInv
<1> QED
  BY <1>1, <1>2, PTL DEF Spec

(***************************************************************************)
(* Every variable keeps its type.                                          *)
(***************************************************************************)
THEOREM TypeCorrect == Spec => []TypeOK
<1>1. IInv => TypeOK
  BY DEF IInv
<1> QED
  BY <1>1, Invariance, PTL

(***************************************************************************)
(* A lock whose P and V are preempted anywhere, and which may lose a       *)
(* wakeup, is still never held by two threads: the unit that a V hands on  *)
(* is in one thread's hands only.                                          *)
(***************************************************************************)
THEOREM Exclusion == Spec => []MutualExclusion
<1>1. ASSUME IInv PROVE MutualExclusion
  <2>1. SUFFICES ASSUME NEW t \in Thread, NEW u \in Thread, t # u, NEW m \in holds[t], m \in holds[u]
                 PROVE  FALSE
    BY DEF MutualExclusion
  <2>2. m \in Mutex
    BY <1>1, <2>1 DEF IInv, TypeOK
  <2> QED
    BY <1>1, <2>1, <2>2 DEF IInv, TokenInv, Token
<1> QED
  BY <1>1, Invariance, PTL

(***************************************************************************)
(* If threads use what a handler signals only with interrupts disabled, no *)
(* handler finds the lock of its semaphore taken.                          *)
(***************************************************************************)
THEOREM HandlersDoNotSpin == HandlerSem \subseteq Masked => (Spec => []HandlerFindsLockFree)
<1> SUFFICES ASSUME HandlerSem \subseteq Masked
             PROVE  Spec => []HandlerFindsLockFree
  OBVIOUS
<1>1. ASSUME IInv PROVE HandlerFindsLockFree
  <2>1. SUFFICES ASSUME enabled, NEW s \in HandlerSem, lock[s]
                 PROVE  FALSE
    BY DEF HandlerFindsLockFree
  <2>2. PICK t \in Thread : At(t, s, Locked)
    BY <1>1, <2>1, SynchAssumption DEF IInv, LockInv
  <2> QED
    BY <1>1, <2>1, <2>2 DEF IInv, MaskInv, At, Calling
<1> QED
  BY <1>1, Invariance, PTL

(***************************************************************************)
(* No wakeup of a semaphore used with interrupts disabled is lost, however *)
(* many others are used with interrupts enabled.                           *)
(***************************************************************************)
THEOREM WakeupsKept == Spec => []NoLostWakeup
<1>1. ASSUME IInv PROVE NoLostWakeup
  <2>1. SUFFICES ASSUME NEW s \in Masked, ~lock[s]
                 PROVE  /\ Len(wait[s]) = (IF count[s] < 0 THEN -count[s] ELSE 0)
                        /\ wait[s] # << >> => Dequeues(s)
    BY DEF NoLostWakeup, CountsWaiters
  <2>2. s \in Sem /\ CountOf(s) /\ TypeOK /\ LockInv
    BY <1>1, SynchAssumption DEF IInv, CountInv
  <2>3. \A t \in Thread : ~At(t, s, {"p_append", "v_deq"})
    BY <2>1, <2>2 DEF LockInv, At, Locked
  <2>4. Len(wait[s]) = Waiting(s)
    BY <2>2, <2>3 DEF CountOf
  <2>5. wait[s] # << >> => Len(wait[s]) > 0
    BY <2>2 DEF TypeOK
  <2> QED
    BY <2>2, <2>4, <2>5, MaskedDequeues DEF Waiting
<1> QED
  BY <1>1, Invariance, PTL
-----------------------------------------------------------------------------
(***************************************************************************)
(* The refinement.  Every step changes the abstract state of one masked    *)
(* semaphore as an abstract P or V does, or of none.                       *)
(***************************************************************************)
Kept(s) == AbstractValue(s)' = AbstractValue(s) /\ wait'[s] = wait[s]

LEMMA ValueOfKept ==
    ASSUME NEW s, wait'[s] = wait[s], count'[s] = count[s],
           \A u \in Thread : At(u, s, {"p_append"})' <=> At(u, s, {"p_append"}),
           \A u \in Thread : At(u, s, {"v_deq"})' <=> At(u, s, {"v_deq"})
    PROVE  Kept(s)
  BY DEF Kept, AbstractValue

LEMMA AllKept ==
    ASSUME \A r \in Masked : Kept(r)
    PROVE  UNCHANGED Abstract!vars
  BY DEF Kept, Abstract!vars

LEMMA AbstractSteps ==
    ASSUME TypeOK, NEW s \in Masked, \A r \in Masked : r # s => Kept(r)
    PROVE  /\ AbstractValue(s) > 0 /\ AbstractValue(s)' = AbstractValue(s) - 1 /\ wait'[s] = wait[s]
              => Abstract!Next
           /\ \A t \in Thread :
                 /\ AbstractValue(s) <= 0 /\ AbstractValue(s)' = AbstractValue(s) - 1
                 /\ wait'[s] = Append(wait[s], t)
                 => Abstract!Next
           /\ wait[s] = << >> /\ AbstractValue(s)' = AbstractValue(s) + 1 /\ wait'[s] = wait[s]
              => Abstract!Next
           /\ wait[s] # << >> /\ AbstractValue(s)' = AbstractValue(s) + 1 /\ wait'[s] = Tail(wait[s])
              => Abstract!Next
<1> USE DEF Kept
<1>1. ASSUME AbstractValue(s) > 0, AbstractValue(s)' = AbstractValue(s) - 1, wait'[s] = wait[s]
      PROVE  Abstract!Next
  BY <1>1 DEF Abstract!Next, Abstract!Take
<1>2. ASSUME NEW t \in Thread, AbstractValue(s) <= 0, AbstractValue(s)' = AbstractValue(s) - 1,
             wait'[s] = Append(wait[s], t)
      PROVE  Abstract!Next
  BY <1>2 DEF Abstract!Next, Abstract!Block
<1>3. ASSUME wait[s] = << >>, AbstractValue(s)' = AbstractValue(s) + 1, wait'[s] = wait[s]
      PROVE  Abstract!Next
  BY <1>3 DEF Abstract!Next, Abstract!Release
<1>4. ASSUME wait[s] # << >>, AbstractValue(s)' = AbstractValue(s) + 1, wait'[s] = Tail(wait[s])
      PROVE  Abstract!Next
  BY <1>4 DEF Abstract!Next, Abstract!HandOver
<1> QED
  BY <1>1, <1>2, <1>3, <1>4

LEMMA AbstractStep ==
    ASSUME IInv, [Next]_vars
    PROVE  [Abstract!Next]_Abstract!vars
<1> USE SynchAssumption
<1>0. TypeOK /\ LockInv /\ QueueInv /\ CountInv
  BY DEF IInv
<1>1. ASSUME NEW t \in Thread, NEW s \in Sem, CallP(t, s) PROVE UNCHANGED Abstract!vars
  <2>1. wait' = wait /\ count' = count
    BY <1>1 DEF CallP, semVars
  <2>2. ASSUME NEW r \in Masked, NEW u \in Thread
        PROVE  /\ At(u, r, {"p_append"})' <=> At(u, r, {"p_append"})
               /\ At(u, r, {"v_deq"})' <=> At(u, r, {"v_deq"})
    BY <1>0, <1>1 DEF CallP, Goto, At, TypeOK
  <2> QED
    BY <2>1, <2>2, ValueOfKept, AllKept
<1>2. ASSUME NEW t \in Thread, NEW s \in Sem, CallV(t, s) PROVE UNCHANGED Abstract!vars
  <2>1. wait' = wait /\ count' = count
    BY <1>2 DEF CallV, semVars
  <2>2. ASSUME NEW r \in Masked, NEW u \in Thread
        PROVE  /\ At(u, r, {"p_append"})' <=> At(u, r, {"p_append"})
               /\ At(u, r, {"v_deq"})' <=> At(u, r, {"v_deq"})
    BY <1>0, <1>2 DEF CallV, Goto, At, TypeOK
  <2> QED
    BY <2>1, <2>2, ValueOfKept, AllKept
<1>3. ASSUME NEW t \in Thread, PTas(t) PROVE UNCHANGED Abstract!vars
  <2>1. wait' = wait /\ count' = count
    BY <1>3 DEF PTas, TestAndSet, semVars
  <2>2. ASSUME NEW r \in Masked, NEW u \in Thread
        PROVE  /\ At(u, r, {"p_append"})' <=> At(u, r, {"p_append"})
               /\ At(u, r, {"v_deq"})' <=> At(u, r, {"v_deq"})
    BY <1>0, <1>3 DEF PTas, TestAndSet, Goto, At, TypeOK
  <2> QED
    BY <2>1, <2>2, ValueOfKept, AllKept
<1>4. ASSUME NEW t \in Thread, PStop(t) PROVE UNCHANGED Abstract!vars
  <2>1. wait' = wait /\ count' = count
    BY <1>4 DEF PStop, semVars
  <2>2. ASSUME NEW r \in Masked, NEW u \in Thread
        PROVE  /\ At(u, r, {"p_append"})' <=> At(u, r, {"p_append"})
               /\ At(u, r, {"v_deq"})' <=> At(u, r, {"v_deq"})
    BY <1>0, <1>4 DEF PStop, Goto, At, TypeOK
  <2> QED
    BY <2>1, <2>2, ValueOfKept, AllKept
<1>5. ASSUME NEW t \in Thread, PWoken(t) PROVE UNCHANGED Abstract!vars
  <2>1. wait' = wait /\ count' = count
    BY <1>5 DEF PWoken, Return, semVars
  <2>2. ASSUME NEW r \in Masked, NEW u \in Thread
        PROVE  /\ At(u, r, {"p_append"})' <=> At(u, r, {"p_append"})
               /\ At(u, r, {"v_deq"})' <=> At(u, r, {"v_deq"})
    BY <1>0, <1>5 DEF PWoken, Return, Goto, At, TypeOK
  <2> QED
    BY <2>1, <2>2, ValueOfKept, AllKept
<1>6. ASSUME NEW t \in Thread, PClear(t) PROVE UNCHANGED Abstract!vars
  <2>1. wait' = wait /\ count' = count
    BY <1>6 DEF PClear, Return, semVars
  <2>2. ASSUME NEW r \in Masked, NEW u \in Thread
        PROVE  /\ At(u, r, {"p_append"})' <=> At(u, r, {"p_append"})
               /\ At(u, r, {"v_deq"})' <=> At(u, r, {"v_deq"})
    BY <1>0, <1>6 DEF PClear, Return, Goto, At, TypeOK
  <2> QED
    BY <2>1, <2>2, ValueOfKept, AllKept
<1>7. ASSUME NEW t \in Thread, VTas(t) PROVE UNCHANGED Abstract!vars
  <2>1. wait' = wait /\ count' = count
    BY <1>7 DEF VTas, TestAndSet, semVars
  <2>2. ASSUME NEW r \in Masked, NEW u \in Thread
        PROVE  /\ At(u, r, {"p_append"})' <=> At(u, r, {"p_append"})
               /\ At(u, r, {"v_deq"})' <=> At(u, r, {"v_deq"})
    BY <1>0, <1>7 DEF VTas, TestAndSet, Goto, At, TypeOK
  <2> QED
    BY <2>1, <2>2, ValueOfKept, AllKept
<1>8. ASSUME NEW t \in Thread, VClear(t) PROVE UNCHANGED Abstract!vars
  <2>1. wait' = wait /\ count' = count
    BY <1>8 DEF VClear, Return, semVars
  <2>2. ASSUME NEW r \in Masked, NEW u \in Thread
        PROVE  /\ At(u, r, {"p_append"})' <=> At(u, r, {"p_append"})
               /\ At(u, r, {"v_deq"})' <=> At(u, r, {"v_deq"})
    BY <1>0, <1>8 DEF VClear, Return, Goto, At, TypeOK
  <2> QED
    BY <2>1, <2>2, ValueOfKept, AllKept
<1>9. ASSUME NEW t \in Thread, PDecrement(t) PROVE [Abstract!Next]_Abstract!vars
  <2>1. PICK s \in Sem : s = sem[t]
    BY <1>0 DEF TypeOK
  <2>2. /\ pc[t] = "p_dec"
        /\ pc' = [pc EXCEPT ![t] = IF count[s] <= 0 THEN "p_append" ELSE "p_clear"]
        /\ count' = [count EXCEPT ![s] = @ - 1]
        /\ UNCHANGED <<sem, wait>>
    BY <1>9, <2>1 DEF PDecrement, Goto
  <2>3. \A u \in Thread : u # t => ~At(u, s, {"p_append"}) /\ ~At(u, s, {"v_deq"})
    BY <1>0, <2>1, <2>2 DEF LockInv, At, Locked
  <2>4. ASSUME NEW r \in Masked, r # s PROVE Kept(r)
    <3>1. \A u \in Thread : /\ At(u, r, {"p_append"})' <=> At(u, r, {"p_append"})
                            /\ At(u, r, {"v_deq"})' <=> At(u, r, {"v_deq"})
      BY <1>0, <2>1, <2>2, <2>4 DEF At, TypeOK
    <3> QED
      BY <1>0, <2>1, <2>2, <2>4, <3>1, ValueOfKept DEF TypeOK
  <2>5. AbstractValue(s) = count[s]
    BY <1>0, <2>1, <2>2, <2>3 DEF AbstractValue, At, TypeOK
  <2>6. CASE count[s] <= 0
    <3>1. At(t, s, {"p_append"})' /\ \A u \in Thread : ~At(u, s, {"v_deq"})'
      BY <1>0, <2>1, <2>2, <2>3, <2>6 DEF At, TypeOK
    <3>2. (\E u \in Thread : At(u, s, {"p_append"})') /\ ~(\E u \in Thread : At(u, s, {"v_deq"})')
      BY <3>1
    <3>3. AbstractValue(s)' = count'[s] + 1
      <4>1. count'[s] \in Int
        BY <1>0, <2>1, <2>2 DEF TypeOK
      <4> QED
        BY <3>2, <4>1 DEF AbstractValue
    <3>4. AbstractValue(s)' = count[s]
      BY <1>0, <2>1, <2>2, <3>3 DEF TypeOK
    <3> QED
      BY <2>2, <2>4, <2>5, <3>4, AllKept DEF Kept
  <2>7. CASE count[s] > 0
    <3>1. \A u \in Thread : ~At(u, s, {"p_append"})' /\ ~At(u, s, {"v_deq"})'
      BY <1>0, <2>1, <2>2, <2>3, <2>7 DEF At, TypeOK
    <3>2. AbstractValue(s)' = count[s] - 1
      BY <1>0, <2>1, <2>2, <3>1 DEF AbstractValue, TypeOK
    <3>3. s \in Masked => Abstract!Next
      BY <1>0, <2>2, <2>4, <2>5, <2>7, <3>2, AbstractSteps
    <3> QED
      BY <2>4, <3>3, AllKept
  <2> QED
    BY <1>0, <2>6, <2>7 DEF TypeOK
<1>10. ASSUME NEW t \in Thread, PAppend(t) PROVE [Abstract!Next]_Abstract!vars
  <2>1. PICK s \in Sem : s = sem[t]
    BY <1>0 DEF TypeOK
  <2>2. /\ pc[t] = "p_append" /\ pc' = [pc EXCEPT ![t] = "p_stop"]
        /\ wait' = [wait EXCEPT ![s] = Append(@, t)]
        /\ UNCHANGED <<sem, count>>
    BY <1>10, <2>1 DEF PAppend, Goto
  <2>3. \A u \in Thread : u # t => ~At(u, s, {"p_append"}) /\ ~At(u, s, {"v_deq"})
    BY <1>0, <2>1, <2>2 DEF LockInv, At, Locked
  <2>4. ASSUME NEW r \in Masked, r # s PROVE Kept(r)
    <3>1. \A u \in Thread : /\ At(u, r, {"p_append"})' <=> At(u, r, {"p_append"})
                            /\ At(u, r, {"v_deq"})' <=> At(u, r, {"v_deq"})
      BY <1>0, <2>1, <2>2, <2>4 DEF At, TypeOK
    <3> QED
      BY <1>0, <2>1, <2>2, <2>4, <3>1, ValueOfKept DEF TypeOK
  <2>5. At(t, s, {"p_append"}) /\ \A u \in Thread : ~At(u, s, {"v_deq"})
    BY <2>1, <2>2, <2>3 DEF At
  <2>6. \A u \in Thread : ~At(u, s, {"p_append"})' /\ ~At(u, s, {"v_deq"})'
    BY <1>0, <2>1, <2>2, <2>3 DEF At, TypeOK
  <2>7. AbstractValue(s) = count[s] + 1 /\ AbstractValue(s)' = count[s] /\ count[s] \in Int
    BY <1>0, <2>1, <2>2, <2>5, <2>6 DEF AbstractValue, TypeOK
  <2>8. wait'[s] = Append(wait[s], t)
    BY <1>0, <2>1, <2>2 DEF TypeOK
  <2>9. s \in Masked => count[s] < 0
    BY <1>0, <2>5 DEF CountInv, CountOf
  <2>10. s \in Masked => Abstract!Next
    BY <1>0, <2>4, <2>7, <2>8, <2>9, AbstractSteps
  <2> QED
    BY <2>4, <2>10, AllKept
<1>11. ASSUME NEW t \in Thread, VIncrement(t) PROVE [Abstract!Next]_Abstract!vars
  <2>1. PICK s \in Sem : s = sem[t]
    BY <1>0 DEF TypeOK
  <2>2. /\ pc[t] = "v_inc"
        /\ pc' = [pc EXCEPT ![t] = IF count[s] < 0 THEN "v_deq" ELSE "v_clear"]
        /\ count' = [count EXCEPT ![s] = @ + 1]
        /\ UNCHANGED <<sem, wait>>
    BY <1>11, <2>1 DEF VIncrement, Goto
  <2>3. \A u \in Thread : u # t => ~At(u, s, {"p_append"}) /\ ~At(u, s, {"v_deq"})
    BY <1>0, <2>1, <2>2 DEF LockInv, At, Locked
  <2>4. ASSUME NEW r \in Masked, r # s PROVE Kept(r)
    <3>1. \A u \in Thread : /\ At(u, r, {"p_append"})' <=> At(u, r, {"p_append"})
                            /\ At(u, r, {"v_deq"})' <=> At(u, r, {"v_deq"})
      BY <1>0, <2>1, <2>2, <2>4 DEF At, TypeOK
    <3> QED
      BY <1>0, <2>1, <2>2, <2>4, <3>1, ValueOfKept DEF TypeOK
  <2>5. AbstractValue(s) = count[s]
    <3>1. \A u \in Thread : ~At(u, s, {"p_append"}) /\ ~At(u, s, {"v_deq"})
      BY <2>2, <2>3 DEF At
    <3>2. count[s] \in Int
      BY <1>0 DEF TypeOK
    <3> QED
      BY <3>1, <3>2 DEF AbstractValue
  <2>6. CASE count[s] < 0
    <3>1. At(t, s, {"v_deq"})' /\ \A u \in Thread : ~At(u, s, {"p_append"})'
      BY <1>0, <2>1, <2>2, <2>3, <2>6 DEF At, TypeOK
    <3>2. (\E u \in Thread : At(u, s, {"v_deq"})') /\ ~(\E u \in Thread : At(u, s, {"p_append"})')
      BY <3>1
    <3>3. AbstractValue(s)' = count'[s] - 1
      <4>1. count'[s] \in Int
        BY <1>0, <2>1, <2>2 DEF TypeOK
      <4> QED
        BY <3>2, <4>1 DEF AbstractValue
    <3>4. AbstractValue(s)' = count[s]
      BY <1>0, <2>1, <2>2, <3>3 DEF TypeOK
    <3> QED
      BY <2>2, <2>4, <2>5, <3>4, AllKept DEF Kept
  <2>7. CASE ~(count[s] < 0)
    <3>1. \A u \in Thread : ~At(u, s, {"p_append"})' /\ ~At(u, s, {"v_deq"})'
      BY <1>0, <2>1, <2>2, <2>3, <2>7 DEF At, TypeOK
    <3>2. AbstractValue(s)' = count[s] + 1
      BY <1>0, <2>1, <2>2, <3>1 DEF AbstractValue, TypeOK
    <3>3. s \in Masked => wait[s] = << >>
      <4>1. \A u \in Thread : ~At(u, s, {"p_append", "v_deq"})
        BY <2>1, <2>2, <2>3 DEF At
      <4>2. s \in Masked => Len(wait[s]) = 0
        BY <1>0, <2>7, <4>1 DEF CountInv, CountOf, Waiting
      <4> QED
        BY <1>0, <4>2 DEF TypeOK
    <3>4. s \in Masked => Abstract!Next
      BY <1>0, <2>2, <2>4, <2>5, <3>2, <3>3, AbstractSteps
    <3> QED
      BY <2>4, <3>4, AllKept
  <2> QED
    BY <2>6, <2>7
<1>12. ASSUME NEW t \in Thread, VDequeue(t) PROVE [Abstract!Next]_Abstract!vars
  <2>1. PICK s \in Sem : s = sem[t]
    BY <1>0 DEF TypeOK
  <2>2. /\ pc[t] = "v_deq" /\ pc' = [pc EXCEPT ![t] = "v_clear"]
        /\ UNCHANGED <<sem, count>> /\ WakeHead(s)
    BY <1>12, <2>1 DEF VDequeue, Goto
  <2>3. \A u \in Thread : u # t => ~At(u, s, {"p_append"}) /\ ~At(u, s, {"v_deq"})
    BY <1>0, <2>1, <2>2 DEF LockInv, At, Locked
  <2>4. ASSUME NEW r \in Masked, r # s PROVE Kept(r)
    <3>1. \A u \in Thread : /\ At(u, r, {"p_append"})' <=> At(u, r, {"p_append"})
                            /\ At(u, r, {"v_deq"})' <=> At(u, r, {"v_deq"})
      BY <1>0, <2>1, <2>2, <2>4 DEF At, TypeOK
    <3>2. wait'[r] = wait[r]
      BY <1>0, <2>1, <2>2, <2>4 DEF WakeHead, TypeOK
    <3> QED
      BY <2>2, <3>1, <3>2, ValueOfKept
  <2>5. At(t, s, {"v_deq"}) /\ \A u \in Thread : ~At(u, s, {"p_append"})
    BY <2>1, <2>2, <2>3 DEF At
  <2>6. \A u \in Thread : ~At(u, s, {"p_append"})' /\ ~At(u, s, {"v_deq"})'
    BY <1>0, <2>1, <2>2, <2>3 DEF At, TypeOK
  <2>7. AbstractValue(s) = count[s] - 1 /\ AbstractValue(s)' = count[s] /\ count[s] \in Int
    BY <1>0, <2>1, <2>2, <2>5, <2>6 DEF AbstractValue, TypeOK
  <2>8. ASSUME s \in Masked PROVE wait[s] # << >> /\ wait'[s] = Tail(wait[s])
    <3>1. Len(wait[s]) > 0
      BY <1>0, <2>5, <2>7, <2>8 DEF CountInv, CountOf
    <3>2. Dequeues(s)
      BY <1>0, <2>8, <3>1, MaskedDequeues DEF CountInv
    <3> QED
      BY <1>0, <2>1, <2>2, <3>2 DEF WakeHead, Dequeues, TypeOK
  <2>9. s \in Masked => Abstract!Next
    BY <1>0, <2>4, <2>7, <2>8, AbstractSteps
  <2> QED
    BY <2>4, <2>9, AllKept
<1>13. ASSUME NEW s \in HandlerSem, HandlerV(s) PROVE [Abstract!Next]_Abstract!vars
  <2>1. s \in Sem
    OBVIOUS
  <2>2. /\ ~lock[s]
        /\ count' = [count EXCEPT ![s] = @ + 1]
        /\ UNCHANGED <<pc, sem>>
        /\ IF count[s] < 0 THEN WakeHead(s) ELSE UNCHANGED <<wait, ready, owner>>
    BY <1>13 DEF HandlerV, threadVars
  <2>3. \A u \in Thread : ~At(u, s, {"p_append"}) /\ ~At(u, s, {"v_deq"}) /\ ~At(u, s, {"p_append", "v_deq"})
    BY <1>0, <2>2 DEF LockInv, At, Locked
  <2>4. ASSUME NEW r \in Masked, r # s PROVE Kept(r)
    <3>1. wait'[r] = wait[r]
      BY <1>0, <2>2, <2>4 DEF WakeHead, TypeOK
    <3> QED
      BY <1>0, <2>2, <2>4, <3>1, ValueOfKept DEF TypeOK, At
  <2>5. AbstractValue(s) = count[s] /\ AbstractValue(s)' = count[s] + 1
    BY <1>0, <2>1, <2>2, <2>3 DEF AbstractValue, At, TypeOK
  <2>6. s \in Masked => Len(wait[s]) = Waiting(s)
    BY <1>0, <2>3 DEF CountInv, CountOf
  <2>7. ASSUME s \in Masked, count[s] < 0 PROVE wait[s] # << >> /\ wait'[s] = Tail(wait[s])
    <3>1. Len(wait[s]) > 0
      BY <1>0, <2>1, <2>6, <2>7 DEF Waiting, TypeOK
    <3>2. Dequeues(s)
      BY <1>0, <2>7, <3>1, MaskedDequeues DEF CountInv
    <3> QED
      BY <1>0, <2>1, <2>2, <2>7, <3>2 DEF WakeHead, Dequeues, TypeOK
  <2>8. ASSUME s \in Masked, ~(count[s] < 0) PROVE wait[s] = << >> /\ wait'[s] = wait[s]
    <3>1. Len(wait[s]) = 0
      BY <2>6, <2>8 DEF Waiting
    <3> QED
      BY <1>0, <2>1, <2>2, <2>8, <3>1 DEF TypeOK
  <2>9. s \in Masked => Abstract!Next
    BY <1>0, <2>4, <2>5, <2>7, <2>8, AbstractSteps
  <2> QED
    BY <2>4, <2>9, AllKept
<1>14. CASE Yield
  <2>1. pc' = pc /\ sem' = sem /\ count' = count /\ wait' = wait
    BY <1>14 DEF Yield, threadVars, semVars
  <2> QED
    BY <2>1, ValueOfKept, AllKept DEF At
<1>15. CASE UNCHANGED vars
  <2>1. pc' = pc /\ sem' = sem /\ count' = count /\ wait' = wait
    BY <1>15 DEF vars, threadVars, semVars
  <2> QED
    BY <2>1, ValueOfKept, AllKept DEF At
<1> QED
  BY <1>1, <1>2, <1>3, <1>4, <1>5, <1>6, <1>7, <1>8, <1>9, <1>10, <1>11, <1>12, <1>13, <1>14, <1>15 DEF Next, Step

(***************************************************************************)
(* Semaphores used with interrupts disabled implement atomic P and V with  *)
(* FIFO hand-over, whatever runs between the instructions of the two.      *)
(***************************************************************************)
THEOREM Refinement == Spec => ImplementsSemaphore
<1>1. ASSUME Init PROVE Abstract!Init
  <2>1. \A s \in Masked : AbstractValue(s) = InitCount[s] /\ wait[s] = << >>
    BY <1>1, SynchAssumption DEF Init, AbstractValue, At
  <2> QED
    BY <2>1 DEF Abstract!Init
<1>2. IInv /\ [Next]_vars => [Abstract!Next]_Abstract!vars
  BY AbstractStep
<1> QED
  BY <1>1, <1>2, Invariance, PTL DEF Spec, ImplementsSemaphore, Abstract!Spec
=============================================================================
