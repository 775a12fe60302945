-------------------------------- MODULE Synch --------------------------------
(***************************************************************************)
(* synch.c on the uniprocessor of minithread.c and interrupts.c: threads   *)
(* call semaphore_P and semaphore_V, clock ticks preempt them between any  *)
(* two instructions while interrupts are enabled, and interrupt handlers   *)
(* call semaphore_V on top of whichever thread they interrupt.             *)
(*                                                                         *)
(* Which ready thread runs next is left open here (the module Scheduler    *)
(* has the multilevel queue); a thread node carries its own links, so what *)
(* matters of them is kept: the queue its back pointer names.              *)
(***************************************************************************)
EXTENDS Integers, Sequences

CONSTANTS Thread,      \* minithreads other than the idle thread
          Idle,        \* the idle thread
          Sem,         \* semaphores
          Mutex,       \* those used as locks: count 1, V only by the holder
          HandlerSem,  \* those an interrupt handler signals
          Masked,      \* those whose P and V threads make with interrupts disabled
          InitCount,   \* [Sem -> Nat]
          MaxCount     \* bound: no V of a semaphore that is not a lock at this count

ASSUME SynchAssumption ==
    /\ Idle \notin Thread
    /\ Mutex \subseteq Sem /\ HandlerSem \subseteq Sem \ Mutex /\ Masked \subseteq Sem
    /\ InitCount \in [Sem -> Nat]
    /\ \A m \in Mutex : InitCount[m] = 1
    /\ "ready" \notin Sem
    /\ MaxCount \in Nat

\* Where a thread is: in its own code, or in semaphore_P or semaphore_V.
Locked == {"p_dec", "p_append", "p_stop", "p_clear", "v_inc", "v_deq", "v_clear"}
Pc == {"run", "p_tas", "wait", "v_tas"} \cup Locked

VARIABLES
    pc,        \* pc[t]: where t is
    sem,       \* sem[t]: the semaphore of its present (or last) call
    holds,     \* holds[t]: the locks t has obtained and not given back
    context,   \* the running thread
    enabled,   \* interrupt_level = ENABLED
    ready,     \* the threads on the ready queue
    count,     \* count[s], lock[s], wait[s]: struct semaphore
    lock,
    wait,
    owner      \* owner[t]: the queue that the back pointer of t's node names

threadVars == <<pc, sem, holds>>
schedVars == <<context, enabled, ready>>
semVars == <<count, lock, wait>>
vars == <<threadVars, schedVars, semVars, owner>>

Init == /\ pc = [t \in Thread |-> "run"]
        /\ sem \in [Thread -> Sem]
        /\ holds = [t \in Thread |-> {}]
        /\ context = Idle
        /\ enabled = TRUE
        /\ ready = Thread
        /\ count = InitCount
        /\ lock = [s \in Sem |-> FALSE]
        /\ wait = [s \in Sem |-> << >>]
        /\ owner = [t \in Thread |-> "ready"]
-----------------------------------------------------------------------------
(***************************************************************************)
(* The scheduler: minithread_schedule gives the processor to a thread of   *)
(* the ready queue, to the idle thread if there is none; minithread_switch *)
(* leaves interrupts enabled.                                              *)
(***************************************************************************)
Schedule(queued) ==
    /\ enabled' = TRUE
    /\ \/ queued = {} /\ context' = Idle /\ ready' = {}
       \/ \E t \in queued : context' = t /\ ready' = queued \ {t}

\* Mutant of Yield: the idle thread is put on the ready queue like any other.
YieldQueuesIdle ==
    /\ enabled
    /\ Schedule(ready \cup {context})
    /\ UNCHANGED <<threadVars, semVars, owner>>

(***************************************************************************)
(* minithread_yield, called by the thread or by clock_handler on top of    *)
(* it: the thread (never the idle one) joins the ready queue, which takes  *)
(* over its node, and the next thread runs.                                *)
(***************************************************************************)
Yield ==
    /\ enabled
    /\ Schedule(ready \cup ({context} \ {Idle}))
    /\ owner' = IF context = Idle THEN owner ELSE [owner EXCEPT ![context] = "ready"]
    /\ UNCHANGED <<threadVars, semVars>>

(***************************************************************************)
(* The last lines of semaphore_V: the head of the wait queue is dequeued   *)
(* and made ready, unless queue_delete finds that its node names another   *)
(* queue; then the head stays and nobody is made ready.                    *)
(***************************************************************************)
Dequeues(s) == wait[s] # << >> /\ owner[Head(wait[s])] = s

WakeHead(s) ==
    IF Dequeues(s)
    THEN /\ wait' = [wait EXCEPT ![s] = Tail(@)]
         /\ ready' = ready \cup {Head(wait[s])}
         /\ owner' = [owner EXCEPT ![Head(wait[s])] = "ready"]
    ELSE UNCHANGED <<wait, ready, owner>>

Goto(t, from, to) == pc[t] = from /\ pc' = [pc EXCEPT ![t] = to]

\* The thread goes back to its own code and to the level it called with.
Return(t, from) == Goto(t, from, "run") /\ enabled' = TRUE
-----------------------------------------------------------------------------
(***************************************************************************)
(* Calls.  A thread takes one lock at a time and gives back what it holds. *)
(***************************************************************************)
\* Mutant of CallP: the caller forgets set_interrupt_level(DISABLED).
CallPUnmasked(t, s) ==
    /\ context = t
    /\ s \in Mutex => holds[t] = {}
    /\ Goto(t, "run", "p_tas")
    /\ sem' = [sem EXCEPT ![t] = s]
    /\ UNCHANGED <<holds, schedVars, semVars, owner>>

CallP(t, s) ==
    /\ context = t
    /\ s \in Mutex => holds[t] = {}
    /\ Goto(t, "run", "p_tas")
    /\ sem' = [sem EXCEPT ![t] = s]
    /\ enabled' = (s \notin Masked)
    /\ UNCHANGED <<holds, context, ready, semVars, owner>>

CallV(t, s) ==
    /\ context = t
    /\ IF s \in Mutex THEN s \in holds[t] ELSE count[s] < MaxCount
    /\ Goto(t, "run", "v_tas")
    /\ sem' = [sem EXCEPT ![t] = s]
    /\ enabled' = (s \notin Masked)
    /\ holds' = [holds EXCEPT ![t] = @ \ {s}]
    /\ UNCHANGED <<context, ready, semVars, owner>>

\* atomic_test_and_set returning 0; until then the caller spins.
TestAndSet(t, from, to) ==
    /\ context = t
    /\ ~lock[sem[t]]
    /\ Goto(t, from, to)
    /\ lock' = [lock EXCEPT ![sem[t]] = TRUE]
    /\ UNCHANGED <<sem, holds, schedVars, count, wait, owner>>

PTas(t) == TestAndSet(t, "p_tas", "p_dec")

\* Mutant of PDecrement: the last unit but one too many, < 0 for <= 0.
PDecrementStrict(t) ==
    /\ context = t
    /\ Goto(t, "p_dec", IF count[sem[t]] < 0 THEN "p_append" ELSE "p_clear")
    /\ count' = [count EXCEPT ![sem[t]] = @ - 1]
    /\ UNCHANGED <<sem, holds, schedVars, lock, wait, owner>>

PDecrement(t) ==
    /\ context = t
    /\ Goto(t, "p_dec", IF count[sem[t]] <= 0 THEN "p_append" ELSE "p_clear")
    /\ count' = [count EXCEPT ![sem[t]] = @ - 1]
    /\ UNCHANGED <<sem, holds, schedVars, lock, wait, owner>>

\* Mutant of PAppend: queue_prepend for queue_append.
PAppendPrepends(t) ==
    /\ context = t
    /\ Goto(t, "p_append", "p_stop")
    /\ wait' = [wait EXCEPT ![sem[t]] = <<t>> \o @]
    /\ owner' = [owner EXCEPT ![t] = sem[t]]
    /\ UNCHANGED <<sem, holds, schedVars, count, lock>>

\* queue_append takes over the node.
PAppend(t) ==
    /\ context = t
    /\ Goto(t, "p_append", "p_stop")
    /\ wait' = [wait EXCEPT ![sem[t]] = Append(@, t)]
    /\ owner' = [owner EXCEPT ![t] = sem[t]]
    /\ UNCHANGED <<sem, holds, schedVars, count, lock>>

\* Mutant of PStop: minithread_stop, which does not free the lock.
PStopKeepsLock(t) ==
    /\ context = t
    /\ Goto(t, "p_stop", "wait")
    /\ Schedule(ready)
    /\ UNCHANGED <<sem, holds, semVars, owner>>

(***************************************************************************)
(* minithread_unlock_and_stop: with interrupts disabled the lock is freed  *)
(* and the thread switched out, in no queue but the semaphore's.           *)
(***************************************************************************)
PStop(t) ==
    /\ context = t
    /\ Goto(t, "p_stop", "wait")
    /\ lock' = [lock EXCEPT ![sem[t]] = FALSE]
    /\ Schedule(ready)
    /\ UNCHANGED <<sem, holds, count, wait, owner>>

Obtain(t) == holds' = [holds EXCEPT ![t] = @ \cup ({sem[t]} \cap Mutex)]

\* A thread that was woken runs again and returns from semaphore_P.
PWoken(t) ==
    /\ context = t
    /\ Return(t, "wait")
    /\ Obtain(t)
    /\ UNCHANGED <<sem, context, ready, semVars, owner>>

PClear(t) ==
    /\ context = t
    /\ Return(t, "p_clear")
    /\ lock' = [lock EXCEPT ![sem[t]] = FALSE]
    /\ Obtain(t)
    /\ UNCHANGED <<sem, context, ready, count, wait, owner>>

VTas(t) == TestAndSet(t, "v_tas", "v_inc")

\* Mutant of VIncrement: the old count compared as if it were the new one.
VIncrementStrict(t) ==
    /\ context = t
    /\ Goto(t, "v_inc", IF count[sem[t]] < -1 THEN "v_deq" ELSE "v_clear")
    /\ count' = [count EXCEPT ![sem[t]] = @ + 1]
    /\ UNCHANGED <<sem, holds, schedVars, lock, wait, owner>>

VIncrement(t) ==
    /\ context = t
    /\ Goto(t, "v_inc", IF count[sem[t]] < 0 THEN "v_deq" ELSE "v_clear")
    /\ count' = [count EXCEPT ![sem[t]] = @ + 1]
    /\ UNCHANGED <<sem, holds, schedVars, lock, wait, owner>>

VDequeue(t) ==
    /\ context = t
    /\ Goto(t, "v_deq", "v_clear")
    /\ WakeHead(sem[t])
    /\ UNCHANGED <<sem, holds, context, enabled, count, lock>>

VClear(t) ==
    /\ context = t
    /\ Return(t, "v_clear")
    /\ lock' = [lock EXCEPT ![sem[t]] = FALSE]
    /\ UNCHANGED <<sem, holds, context, ready, count, wait, owner>>

(***************************************************************************)
(* semaphore_V in an interrupt handler (disk_handler, an alarm of          *)
(* clock_handler, the packet handler): interrupts stay disabled for all of *)
(* it.  A handler that finds the lock taken spins for ever, because the    *)
(* thread that has it cannot run: see HandlerFindsLockFree.                *)
(***************************************************************************)
HandlerV(s) ==
    /\ enabled
    /\ ~lock[s]
    /\ count[s] < MaxCount
    /\ count' = [count EXCEPT ![s] = @ + 1]
    /\ IF count[s] < 0 THEN WakeHead(s) ELSE UNCHANGED <<wait, ready, owner>>
    /\ UNCHANGED <<threadVars, context, enabled, lock>>

Step(t) == \/ \E s \in Sem : CallP(t, s) \/ CallV(t, s)
           \/ PTas(t) \/ PDecrement(t) \/ PAppend(t) \/ PStop(t) \/ PWoken(t) \/ PClear(t)
           \/ VTas(t) \/ VIncrement(t) \/ VDequeue(t) \/ VClear(t)

Next == \/ \E t \in Thread : Step(t)
        \/ \E s \in HandlerSem : HandlerV(s)
        \/ Yield

Spec == Init /\ [][Next]_vars


(***************************************************************************)
(* What the code's scheduling gives.  The processor executes the running   *)
(* thread's next instruction unless an interrupt comes first, and nothing  *)
(* comes first while interrupts are disabled; an interrupt that is not     *)
(* taken is sent again (send_interrupt), so a signal arrives in the end if *)
(* interrupts are enabled again and again.                                 *)
(***************************************************************************)
Running(t) == \/ PTas(t) \/ PDecrement(t) \/ PAppend(t) \/ PStop(t) \/ PWoken(t) \/ PClear(t)
              \/ VTas(t) \/ VIncrement(t) \/ VDequeue(t) \/ VClear(t)

Fairness == /\ WF_vars(\E t \in Thread : Running(t))
            /\ \A s \in HandlerSem : SF_vars(HandlerV(s))

FairSpec == Spec /\ Fairness
-----------------------------------------------------------------------------
TypeOK ==
    /\ pc \in [Thread -> Pc]
    /\ sem \in [Thread -> Sem]
    /\ holds \in [Thread -> SUBSET Mutex]
    /\ context \in Thread \cup {Idle}
    /\ enabled \in BOOLEAN
    /\ ready \subseteq Thread
    /\ count \in [Sem -> Int]
    /\ lock \in [Sem -> BOOLEAN]
    /\ wait \in [Sem -> Seq(Thread)]
    /\ owner \in [Thread -> Sem \cup {"ready"}]

At(t, s, where) == pc[t] \in where /\ sem[t] = s

Blocked(t) == pc[t] = "wait" /\ t \notin ready /\ context # t

(***************************************************************************)
(* Two threads never both have the same lock, however P, V and preemption  *)
(* interleave and even where a wakeup is lost.                             *)
(***************************************************************************)
MutualExclusion ==
    \A t, u \in Thread : t # u => holds[t] \cap holds[u] = {}

(***************************************************************************)
(* Whenever an interrupt can be taken, the lock of every semaphore that a  *)
(* handler signals is free: no handler ever spins on it.                   *)
(***************************************************************************)
HandlerFindsLockFree == enabled => \A s \in HandlerSem : ~lock[s]

(***************************************************************************)
(* With no call in progress on s, the threads waiting for it are as many   *)
(* as its count says, and its next V will find its head: no unit is given  *)
(* away while a thread goes on waiting.                                    *)
(***************************************************************************)
CountsWaiters(s) ==
    ~lock[s] => /\ Len(wait[s]) = (IF count[s] < 0 THEN -count[s] ELSE 0)
                /\ wait[s] # << >> => Dequeues(s)

\* It is so for every semaphore that is used with interrupts disabled.
NoLostWakeup == \A s \in Masked : CountsWaiters(s)

\* A lock release that somebody waits for wakes the one who has waited longest.
NoLostWakeupAnywhere == \A s \in Sem : CountsWaiters(s)

(***************************************************************************)
(* Semaphores used with interrupts disabled implement atomic P and V: the  *)
(* count changes before the queue does, so between the two steps the       *)
(* abstract value is still the old one.                                    *)
(***************************************************************************)
AbstractValue(s) ==
    count[s] + (IF \E t \in Thread : At(t, s, {"p_append"}) THEN 1 ELSE 0)
             - (IF \E t \in Thread : At(t, s, {"v_deq"}) THEN 1 ELSE 0)

Abstract == INSTANCE Semaphore WITH
                Sem <- Masked,
                InitCount <- [s \in Masked |-> InitCount[s]],
                value <- [s \in Masked |-> AbstractValue(s)],
                waiters <- [s \in Masked |-> wait[s]]

ImplementsSemaphore == Abstract!Spec

(***************************************************************************)
(* A thread that waits for a handler's signal is made ready in the end,    *)
(* when the signals keep coming: it is not overtaken for ever, whoever     *)
(* else waits, and no thread keeps interrupts disabled for ever.           *)
(***************************************************************************)
SignalsArrive ==
    \A t \in Thread, s \in HandlerSem \cap Masked :
        (Blocked(t) /\ sem[t] = s) ~> ~Blocked(t)
=============================================================================
