------------------------------- MODULE MCSynch -------------------------------
(* Synch with two semaphores: a lock that threads use with interrupts      *)
(* enabled and a signal that they await with interrupts disabled.          *)
EXTENDS Synch

CONSTANTS mutex, signal

MCInitCount == [s \in Sem |-> IF s \in Mutex THEN 1 ELSE 0]
=============================================================================
