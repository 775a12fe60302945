------------------------------ MODULE Scheduler ------------------------------
(***************************************************************************)
(* The processor of minithread.c: the multilevel queue of ready threads,   *)
(* minithread_picknew with its 160-tick round, quanta, demotion, and the   *)
(* clock handler.  Each action runs with interrupts disabled from its      *)
(* first line to its last, so each is one step.                            *)
(*                                                                         *)
(* Synch leaves the choice of the next thread open; this module has it,    *)
(* and shows that a ready thread gets the processor in the end.            *)
(***************************************************************************)
EXTENDS Integers, Sequences, FiniteSets, SequencesExt

CONSTANTS Thread,    \* thread control blocks other than the idle thread's
          Sleeper,   \* the threads that block
          Mortal,    \* the threads that exit
          Idle

ASSUME SchedulerAssumption == Idle \notin Thread /\ Sleeper \subseteq Thread /\ Mortal \subseteq Thread

MAX_SCHED_PRIORITY == 3
Level == 0 .. MAX_SCHED_PRIORITY
Round == 160

\* Each level has twice the quanta of the one before: 1, 2, 4, 8.
quanta_lim == [l \in Level |-> 2 ^ l]

VARIABLES
    ticks,      \* the clock, modulo the round
    left,       \* expire - ticks
    context,    \* the running thread
    ready,      \* ready[l]: the queue of level l
    priority,   \* priority[t]
    status      \* status[t]

vars == <<ticks, left, context, ready, priority, status>>

\* FREE: no thread yet (minithread_create) or not any more (minithread_exit).
Status == {"FREE", "READY", "RUNNING", "BLOCKED"}

Init == /\ ticks = 0
        /\ left = 0
        /\ context = Idle
        /\ ready = [l \in Level |-> << >>]
        /\ priority = [t \in Thread |-> 0]
        /\ status = [t \in Thread |-> "FREE"]

\* Mutant of StartLevel: the highest level is always asked for first.
StartLevelHighest(r) == 0

\* The level that minithread_picknew asks for first.
StartLevel(r) == IF r < 80 THEN 0 ELSE IF r < 120 THEN 1 ELSE IF r < 144 THEN 2 ELSE 3

\* Mutant of FoundLevel: the search stops at the last level.
FoundLevelNoWrap(queues, p) ==
    LET found == {i \in 0 .. MAX_SCHED_PRIORITY - p : queues[p + i] # << >>}
    IN  IF found = {} THEN -1
        ELSE p + CHOOSE i \in found : \A j \in found : i <= j

\* multilevel_queue_dequeue: the first level that is not empty, from p round to p - 1.
FoundLevel(queues, p) ==
    LET found == {i \in Level : queues[(p + i) % 4] # << >>}
    IN  IF found = {} THEN -1
        ELSE (p + CHOOSE i \in found : \A j \in found : i <= j) % 4

\* Mutant of IdleQuantum: the idle thread runs as long as any thread of level 3.
IdleQuantumLong == 8

IdleQuantum == 1

(***************************************************************************)
(* minithread_schedule and minithread_picknew: the head of the level that  *)
(* is found runs, with the quanta of the level that was asked for; the     *)
(* idle thread runs if there is none.                                      *)
(***************************************************************************)
Schedule(queues, st, now) ==
    LET p == StartLevel(now)
        l == FoundLevel(queues, p)
    IN  IF l = -1
        THEN /\ context' = Idle /\ left' = IdleQuantum
             /\ ready' = queues /\ status' = st
        ELSE /\ context' = Head(queues[l]) /\ left' = quanta_lim[p]
             /\ ready' = [queues EXCEPT ![l] = Tail(@)]
             /\ status' = [st EXCEPT ![context'] = "RUNNING"]

(***************************************************************************)
(* minithread_yield when the clock shows now: the thread is demoted if its *)
(* quanta have run out and joins the queue of its level; the idle thread   *)
(* joins none.                                                             *)
(***************************************************************************)
Yielding(expired, now) ==
    IF context = Idle
    THEN Schedule(ready, status, now) /\ UNCHANGED priority
    ELSE LET p == IF expired /\ priority[context] < MAX_SCHED_PRIORITY
                  THEN priority[context] + 1 ELSE priority[context]
         IN  /\ priority' = [priority EXCEPT ![context] = p]
             /\ Schedule([ready EXCEPT ![p] = Append(@, context)],
                         [status EXCEPT ![context] = "READY"], now)

\* A thread gives up the processor, with time left.
Yield == Yielding(left <= 0, ticks) /\ UNCHANGED ticks

\* clock_handler.
Tick ==
    LET now == (ticks + 1) % Round
    IN  /\ ticks' = now
        /\ IF left <= 1
           THEN Yielding(TRUE, now)
           ELSE left' = left - 1 /\ UNCHANGED <<context, ready, priority, status>>

\* minithread_stop, the end of semaphore_P.
Stop == /\ context \in Sleeper
        /\ Schedule(ready, [status EXCEPT ![context] = "BLOCKED"], ticks)
        /\ UNCHANGED <<ticks, priority>>

\* The end of minithread_exit; the control block can be used again at level 0.
Exit == /\ context \in Mortal
        /\ Schedule(ready, [status EXCEPT ![context] = "FREE"], ticks)
        /\ priority' = [priority EXCEPT ![context] = 0]
        /\ UNCHANGED ticks

\* Mutant of Start: a thread that is woken joins the highest level.
StartAtTop(t) ==
    /\ status[t] \in {"FREE", "BLOCKED"}
    /\ status' = [status EXCEPT ![t] = "READY"]
    /\ ready' = [ready EXCEPT ![0] = Append(@, t)]
    /\ UNCHANGED <<ticks, left, context, priority>>

\* minithread_start: of a new thread by minithread_fork, of a blocked one by
\* semaphore_V in a thread or in a handler.
Start(t) == /\ status[t] \in {"FREE", "BLOCKED"}
            /\ status' = [status EXCEPT ![t] = "READY"]
            /\ ready' = [ready EXCEPT ![priority[t]] = Append(@, t)]
            /\ UNCHANGED <<ticks, left, context, priority>>

Next == Tick \/ Yield \/ Stop \/ Exit \/ \E t \in Thread : Start(t)

\* The clock keeps ticking: every tick that comes while interrupts are enabled is counted.
Spec == Init /\ [][Next]_vars /\ WF_vars(Tick)
-----------------------------------------------------------------------------
Queued(t) == \E l \in Level : t \in ToSet(ready[l])

(***************************************************************************)
(* With the types: a thread is in one place, READY in the queue of its own *)
(* level and RUNNING on the processor.                                     *)
(***************************************************************************)
TypeOK ==
    /\ ticks \in 0 .. Round - 1
    /\ left \in 0 .. quanta_lim[MAX_SCHED_PRIORITY]
    /\ context \in Thread \cup {Idle}
    /\ priority \in [Thread -> Level]
    /\ status \in [Thread -> Status]
    /\ \A l \in Level : IsInjective(ready[l]) /\ \A t \in ToSet(ready[l]) : priority[t] = l
    /\ \A t \in Thread : /\ status[t] = "READY" <=> Queued(t)
                         /\ status[t] = "RUNNING" <=> context = t

(***************************************************************************)
(* The idle thread gets the processor only when no thread at all is ready, *)
(* whatever level the round asks for.                                      *)
(***************************************************************************)
WorkConserving ==
    [][context' = Idle /\ context # Idle => \A l \in Level : ready'[l] = << >>]_vars

(***************************************************************************)
(* A thread that becomes ready while the idle thread runs (a handler's V,  *)
(* as nobody else runs) waits for the next tick at most.                   *)
(***************************************************************************)
IdleGivesWay ==
    [][ticks' # ticks /\ context = Idle /\ (\E t \in Thread : Queued(t)) => context' # Idle]_vars

(***************************************************************************)
(* However many threads are forked, yield early and so stay at level 0, or *)
(* block and are woken between two ticks, a ready thread of any level gets *)
(* the processor: each level has its window in the round, no quantum is    *)
(* longer than a window, and each queue is FIFO.                           *)
(***************************************************************************)
NoStarvation == \A t \in Thread : Queued(t) ~> context = t
=============================================================================
