------------------------------ MODULE Semaphore ------------------------------
(***************************************************************************)
(* What synch.h promises: P and V are single steps, a thread that finds no *)
(* unit waits in FIFO order, and a V made while threads wait hands its     *)
(* unit to the one that has waited longest.                                *)
(***************************************************************************)
EXTENDS Integers, Sequences

CONSTANTS Thread, Sem, InitCount

VARIABLES value,    \* value[s]: units left, or minus the number of waiters
          waiters   \* waiters[s]: the threads blocked on s, longest first

vars == <<value, waiters>>

Init == /\ value = InitCount
        /\ waiters = [s \in Sem |-> << >>]

Take(s) == /\ value[s] > 0
           /\ value' = [value EXCEPT ![s] = @ - 1]
           /\ UNCHANGED waiters

Block(s, t) == /\ value[s] <= 0
               /\ value' = [value EXCEPT ![s] = @ - 1]
               /\ waiters' = [waiters EXCEPT ![s] = Append(@, t)]

Release(s) == /\ waiters[s] = << >>
              /\ value' = [value EXCEPT ![s] = @ + 1]
              /\ UNCHANGED waiters

HandOver(s) == /\ waiters[s] # << >>
               /\ value' = [value EXCEPT ![s] = @ + 1]
               /\ waiters' = [waiters EXCEPT ![s] = Tail(@)]

Next == \E s \in Sem : \/ Take(s)
                       \/ \E t \in Thread : Block(s, t)
                       \/ Release(s)
                       \/ HandOver(s)

Spec == Init /\ [][Next]_vars
=============================================================================
