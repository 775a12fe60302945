------------------------------ MODULE ThreadExit ------------------------------
(***************************************************************************)
(* The end of a thread: minithread_exit, the queue of exited threads, and  *)
(* the thread in minithread_cleanup that releases them.  A thread has one  *)
(* set of links, and exited and ready are real queues of queue.c, as what  *)
(* matters is a thread in both.  One level stands for the four of ready,   *)
(* and P and V are atomic (Synch has their instructions).                  *)
(***************************************************************************)
EXTENDS Integers, Sequences, FiniteSets

CONSTANTS Thread,    \* the threads that exit
          Cleaner,   \* the thread in minithread_cleanup
          Idle, NULL

VARIABLES
    node, queue,   \* the links of the threads, and the headers of ready and exited
    context,       \* the running thread
    pc,            \* where each thread is
    status,        \* status[t]
    waiting,       \* the wait queue of exit_mutex, its holder first
    exit_count,    \* the count of exit_count
    victim,        \* t of minithread_cleanup
    released       \* released[t]: t's memory has been freed

vars == <<node, queue, context, pc, status, waiting, exit_count, victim, released>>

Q == INSTANCE Queue WITH Nodes <- Thread \cup {Cleaner}, Queues <- {"ready", "exited"}

All == Thread \cup {Cleaner}

Init == /\ node = [t \in All |-> [prev |-> NULL, next |-> NULL, queue |-> NULL]]
        /\ queue = [q \in {"ready", "exited"} |-> Q!EmptyHeader]
        /\ context = Idle
        /\ pc = [t \in All |-> IF t = Cleaner THEN "count" ELSE "new"]
        /\ status = [t \in All |-> "INITIAL"]
        /\ waiting = << >>
        /\ exit_count = 0
        /\ victim = NULL
        /\ released = {}

\* The heap after minithread_start(t).
Readied(h, t) == Q!QueueAppend(h, "ready", t)

(***************************************************************************)
(* minithread_schedule, from the heap h and the status st: the head of     *)
(* ready runs.                                                             *)
(***************************************************************************)
Schedule(h, st) ==
    LET t == Q!QueueHead(h, "ready")
    IN  IF Q!Dequeued(h, "ready")
        THEN /\ Q!Becomes(Q!QueueDequeue(h, "ready"))
             /\ context' = t /\ status' = [st EXCEPT ![t] = "RUNNING"]
        ELSE Q!Becomes(h) /\ context' = Idle /\ status' = st

At(t, where) == context = t /\ pc[t] = where
Goto(t, where) == pc' = [pc EXCEPT ![t] = where]
-----------------------------------------------------------------------------
\* minithread_fork, by whoever runs.
Start(t) ==
    /\ status[t] = "INITIAL"
    /\ Q!Becomes(Readied(Q!heap, t))
    /\ status' = [status EXCEPT ![t] = "READY"]
    /\ pc' = IF t = Cleaner THEN pc ELSE [pc EXCEPT ![t] = "lock"]
    /\ UNCHANGED <<context, waiting, exit_count, victim, released>>

\* minithread_yield, at the end of a quantum: anywhere but in a handler's way.
Yield ==
    /\ IF context = Idle
       THEN Schedule(Q!heap, status)
       ELSE Schedule(Readied(Q!heap, context), [status EXCEPT ![context] = "READY"])
    /\ UNCHANGED <<pc, waiting, exit_count, victim, released>>

\* semaphore_P(exit_mutex).
Lock(t) ==
    /\ At(t, "lock")
    /\ waiting' = Append(waiting, t)
    /\ Goto(t, "locked")
    /\ IF waiting = << >>
       THEN UNCHANGED <<node, queue, context, status>>
       ELSE Schedule(Q!heap, [status EXCEPT ![t] = "BLOCKED"])
    /\ UNCHANGED <<exit_count, victim, released>>

\* semaphore_V(exit_mutex).
Unlock(t, where) ==
    /\ waiting' = Tail(waiting)
    /\ Goto(t, where)
    /\ IF Len(waiting) = 1
       THEN UNCHANGED <<node, queue, status>>
       ELSE /\ Q!Becomes(Readied(Q!heap, waiting[2]))
            /\ status' = [status EXCEPT ![waiting[2]] = "READY"]
    /\ UNCHANGED <<context, exit_count, victim, released>>

\* queue_append(exited, context).
AppendExited(t) ==
    /\ t # Cleaner /\ At(t, "locked")
    /\ Q!Becomes(Q!QueueAppend(Q!heap, "exited", t))
    /\ Goto(t, "unlock")
    /\ UNCHANGED <<context, status, waiting, exit_count, victim, released>>

UnlockExited(t) == t # Cleaner /\ At(t, "unlock") /\ Unlock(t, "leave")

\* The rest of minithread_exit, with interrupts disabled: V(exit_count), and away.
Leave(t) ==
    /\ At(t, "leave")
    /\ exit_count' = exit_count + 1
    /\ Goto(t, "gone")
    /\ LET left == [status EXCEPT ![t] = "EXITED"]
       IN  IF exit_count < 0
           THEN Schedule(Readied(Q!heap, Cleaner), [left EXCEPT ![Cleaner] = "READY"])
           ELSE Schedule(Q!heap, left)
    /\ UNCHANGED <<waiting, victim, released>>
-----------------------------------------------------------------------------
\* semaphore_P(exit_count), and on to exit_mutex.
AwaitExit ==
    /\ At(Cleaner, "count")
    /\ exit_count' = exit_count - 1
    /\ Goto(Cleaner, "lock")
    /\ IF exit_count > 0
       THEN UNCHANGED <<node, queue, context, status>>
       ELSE Schedule(Q!heap, [status EXCEPT ![Cleaner] = "BLOCKED"])
    /\ UNCHANGED <<waiting, victim, released>>

\* queue_dequeue sets t to the head, whether it takes it out or not.
TakeExited ==
    /\ At(Cleaner, "locked")
    /\ victim' = Q!QueueHead(Q!heap, "exited")
    /\ Q!Becomes(Q!QueueDequeue(Q!heap, "exited"))
    /\ Goto(Cleaner, "free")
    /\ UNCHANGED <<context, status, waiting, exit_count, released>>

Release ==
    /\ At(Cleaner, "free")
    /\ released' = released \cup ({victim} \ {NULL})
    /\ Goto(Cleaner, "unlock")
    /\ UNCHANGED <<node, queue, context, status, waiting, exit_count, victim>>

UnlockReleased == At(Cleaner, "unlock") /\ Unlock(Cleaner, "count")

Next == \/ \E t \in All : Start(t) \/ Lock(t) \/ AppendExited(t) \/ UnlockExited(t) \/ Leave(t)
        \/ Yield
        \/ AwaitExit \/ TakeExited \/ Release \/ UnlockReleased

Spec == Init /\ [][Next]_vars
-----------------------------------------------------------------------------
(***************************************************************************)
(* minithread_cleanup is the "Thread to release memory of exited threads": *)
(* what it releases has exited, so nobody will run it or find it in a      *)
(* queue again.                                                            *)
(***************************************************************************)
OnlyExitedReleased == \A t \in released : status[t] = "EXITED"
=============================================================================
