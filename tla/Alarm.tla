-------------------------------- MODULE Alarm --------------------------------
(***************************************************************************)
(* alarm.c and alarm_queue.c: the queue of registered alarms, the nearest  *)
(* time to fire that clock_handler looks at, and the three operations on   *)
(* them, each with interrupts disabled from its first line to its last.    *)
(*                                                                         *)
(* Times are kept relative to the clock: what counts is the number of      *)
(* ticks left, and the clock itself would only make the states infinite.   *)
(***************************************************************************)
EXTENDS Integers, Sequences, FiniteSets, SequencesExt

VARIABLES
    alarmQueue,   \* alarm_clock: [id, left, arg] records
    alarmTime,    \* alarm_time - ticks, or NoAlarm
    nextId        \* next_alarm_id

alarmVars == <<alarmQueue, alarmTime, nextId>>

NoAlarm == -1

AlarmInit == alarmQueue = << >> /\ alarmTime = NoAlarm /\ nextId = 0

\* alarm_queue_insert: before the first alarm that is not earlier.
Inserted(q, a) ==
    LET later == {i \in DOMAIN q : q[i].left >= a.left}
    IN  InsertAt(q, IF later = {} THEN Len(q) + 1 ELSE Min(later), a)

\* Mutant of Sooner: the nearest time is set by the first alarm only.
SoonerFirst(left) == alarmTime = NoAlarm

Sooner(left) == left < alarmTime \/ alarmTime = NoAlarm

\* alarm_create: an alarm never fires in the current tick.
TicksToFire(delay) == IF delay = 0 THEN 1 ELSE delay

\* Mutant of Register: the id is not advanced.
RegisterSameId(delay, arg) ==
    LET left == TicksToFire(delay)
    IN  /\ alarmTime' = IF Sooner(left) THEN left ELSE alarmTime
        /\ alarmQueue' = Inserted(alarmQueue, [id |-> nextId, left |-> left, arg |-> arg])
        /\ UNCHANGED nextId

\* register_alarm, for delay ticks; func and what it needs are arg.
Register(delay, arg) ==
    LET left == TicksToFire(delay)
    IN  /\ alarmTime' = IF Sooner(left) THEN left ELSE alarmTime
        /\ alarmQueue' = Inserted(alarmQueue, [id |-> nextId, left |-> left, arg |-> arg])
        /\ nextId' = nextId + 1

\* deregister_alarm: the nearest time stays, even if it was this alarm's.
Deregister(id) ==
    LET at == {i \in DOMAIN alarmQueue : alarmQueue[i].id = id}
    IN  /\ alarmQueue' = IF at = {} THEN alarmQueue ELSE RemoveAt(alarmQueue, Min(at))
        /\ UNCHANGED <<alarmTime, nextId>>

\* What ticks++ does to every time that is kept relative to it.
Passed == [i \in DOMAIN alarmQueue |-> [alarmQueue[i] EXCEPT !.left = @ - 1]]

\* The condition on which clock_handler calls alarm_signal.
Due == alarmTime # NoAlarm /\ alarmTime <= 1

(***************************************************************************)
(* alarm_signal dequeues the head for as long as it is due: a prefix.      *)
(***************************************************************************)
FiredCount ==
    LET later == {i \in DOMAIN Passed : Passed[i].left > 0}
    IN  IF ~Due THEN 0
        ELSE IF later = {} THEN Len(Passed)
        ELSE Min(later) - 1

Fired == SubSeq(Passed, 1, FiredCount)

AlarmTick ==
    LET rest == SubSeq(Passed, FiredCount + 1, Len(Passed))
    IN  /\ alarmQueue' = rest
        /\ alarmTime' = IF Due
                        THEN IF rest = << >> THEN NoAlarm ELSE rest[1].left
                        ELSE IF alarmTime = NoAlarm THEN NoAlarm ELSE alarmTime - 1
        /\ UNCHANGED nextId

Registered(arg) == \E i \in DOMAIN alarmQueue : alarmQueue[i].arg = arg
=============================================================================
