-------------------------------- MODULE Retry --------------------------------
(***************************************************************************)
(* The users of alarms: a thread in minisocket_transmit, which sends a     *)
(* message again and again until an alarm is cancelled by the ACK; the     *)
(* control thread, which cancels it in minisocket_process_ack; threads in  *)
(* minithread_sleep_with_timeout.  One processor: a thread runs until it   *)
(* blocks or the clock ticks, and it may be anywhere when the clock does.  *)
(*                                                                         *)
(* The network loses messages and ACKs and delays ACKs.  P and V are       *)
(* atomic here (Synch has their instructions); the socket is established.  *)
(***************************************************************************)
EXTENDS Alarm

CONSTANTS Sender, Control,   \* the two threads of the socket
          Sleeper,           \* threads that sleep
          SleepTicks,        \* the delays they ask for, in ticks
          MAX_TRY,           \* MINISOCKET_MAX_TRY
          FreshAlarm,        \* what socket->alarm may hold before the first transmission
          MaxAlarm           \* bound: alarms registered in a behaviour

ASSUME RetryAssumption ==
    /\ Sender # Control /\ {Sender, Control} \cap Sleeper = {}
    /\ "idle" \notin {Sender, Control} \cup Sleeper
    /\ SleepTicks \subseteq Nat
    /\ MAX_TRY \in Nat \ {0} /\ MaxAlarm \in Nat

\* minisocket_alarm_status; an alarm id is 0 or more.
ALARM_SUCCESS == -1
ALARM_CANCELED == -2
ALARM_WAKEUP == -3

\* In ticks: MINISOCKET_INITIAL_TIMEOUT is 100 ms, a tick 50 ms.
retry_delay[i \in 0 .. MAX_TRY - 1] == IF i = 0 THEN 2 ELSE 2 * retry_delay[i - 1]

VARIABLES
    running,    \* the thread on the processor
    asleep,     \* the sleepers that wait on their sleep_sem
    spc,        \* where Sender is
    try,        \* i of minisocket_transmit
    result,     \* what register_alarm returned, before it is stored
    alarm,      \* socket->alarm
    retry,      \* socket->retry: its count
    cpc,        \* where Control is
    tested,     \* the alarm that Control found set
    acks,       \* ACKs of the present message under way or in packet_buffer
    acked       \* Control has seen one of them

sender == <<spc, try, result>>
control == <<cpc, tested>>
vars == <<alarmVars, running, asleep, sender, alarm, retry, control, acks, acked>>

Init == /\ AlarmInit
        /\ running = Sender
        /\ asleep = {}
        /\ spc = "out" /\ try = 0 /\ result = 0
        /\ alarm \in FreshAlarm
        /\ retry = 0
        /\ cpc = "out" /\ tested = 0
        /\ acks = 0 /\ acked = FALSE

Runnable(s, c, a, zs) ==
    (IF s = "blocked" THEN {} ELSE {Sender})
        \cup (IF c = "out" /\ a = 0 THEN {} ELSE {Control})
        \cup (Sleeper \ zs)

\* The processor goes to another thread, or to none that matters (the idle thread).
SwitchFrom(t) == running' \in (Runnable(spc', cpc', acks', asleep') \ {t}) \cup {"idle"}

Stay == UNCHANGED running

\* Back at the top of minisocket_control: on to the next packet, if there is one.
NextPacket == cpc' = "out" /\ IF acks > 0 THEN Stay ELSE SwitchFrom(Control)
-----------------------------------------------------------------------------
At(t, pc, where) == running = t /\ pc = where

(***************************************************************************)
(* minisocket_transmit takes state_mutex to advance seq, so never while    *)
(* Control processes an ACK; an ACK of an earlier seq does nothing.        *)
(***************************************************************************)
BeginTransmit ==
    /\ At(Sender, spc, "out") /\ cpc = "out"
    /\ nextId + MAX_TRY <= MaxAlarm
    /\ spc' = "send" /\ try' = 0
    /\ acks' = 0 /\ acked' = FALSE
    /\ Stay /\ UNCHANGED <<alarmVars, asleep, result, alarm, retry, control>>

\* miniroute_send_pkt: the message or its ACK is lost, or an ACK will come.
Send ==
    /\ At(Sender, spc, "send")
    /\ spc' = "register"
    /\ acks' \in {acks, acks + 1}
    /\ Stay /\ UNCHANGED <<alarmVars, asleep, try, result, alarm, retry, control, acked>>

\* minisocket_retry_wait: the call of register_alarm ...
RegisterRetry ==
    /\ At(Sender, spc, "register")
    /\ Register(retry_delay[try], Sender)
    /\ result' = nextId
    /\ spc' = "store"
    /\ Stay /\ UNCHANGED <<asleep, try, alarm, retry, control, acks, acked>>

\* ... and the assignment of what it returned.
StoreAlarm ==
    /\ At(Sender, spc, "store")
    /\ alarm' = result
    /\ spc' = "wait"
    /\ Stay /\ UNCHANGED <<alarmVars, asleep, try, result, retry, control, acks, acked>>

WaitRetry ==
    /\ At(Sender, spc, "wait")
    /\ retry' = retry - 1
    /\ IF retry > 0
       THEN spc' = "check"
       ELSE spc' = "blocked"
    /\ UNCHANGED <<alarmVars, asleep, try, result, alarm, control, acks, acked>>
    /\ IF retry > 0 THEN Stay ELSE SwitchFrom(Sender)

\* Mutant of CheckAlarm: an alarm that has gone off counts as success.
CheckAlarmAnyNegative ==
    /\ At(Sender, spc, "check")
    /\ IF alarm < 0 /\ alarm # ALARM_CANCELED
       THEN spc' = "success" /\ UNCHANGED <<try, alarm>>
       ELSE IF alarm # ALARM_CANCELED /\ try + 1 < MAX_TRY
       THEN spc' = "send" /\ try' = try + 1 /\ UNCHANGED alarm
       ELSE spc' = "out" /\ alarm' = ALARM_SUCCESS /\ UNCHANGED try
    /\ Stay /\ UNCHANGED <<alarmVars, asleep, result, retry, control, acks, acked>>

\* The two tests after minisocket_retry_wait, and the end of the loop.
CheckAlarm ==
    /\ At(Sender, spc, "check")
    /\ IF alarm = ALARM_SUCCESS
       THEN spc' = "success" /\ UNCHANGED <<try, alarm>>
       ELSE IF alarm # ALARM_CANCELED /\ try + 1 < MAX_TRY
       THEN spc' = "send" /\ try' = try + 1 /\ UNCHANGED alarm
       ELSE spc' = "out" /\ alarm' = ALARM_SUCCESS /\ UNCHANGED try
    /\ Stay /\ UNCHANGED <<alarmVars, asleep, result, retry, control, acks, acked>>

\* minisocket_transmit returns len.
ReturnSuccess ==
    /\ At(Sender, spc, "success")
    /\ spc' = "out"
    /\ Stay /\ UNCHANGED <<alarmVars, asleep, try, result, alarm, retry, control, acks, acked>>
-----------------------------------------------------------------------------
\* Mutant of Signal: nobody is woken unless the count was positive.
SignalStrict(n) ==
    /\ retry' = retry + n
    /\ spc' = IF n > 0 /\ retry > 0 /\ spc = "blocked" THEN "check" ELSE spc

\* semaphore_V(socket->retry), n times.
Signal(n) ==
    /\ retry' = retry + n
    /\ spc' = IF n > 0 /\ spc = "blocked" THEN "check" ELSE spc

\* minisocket_process_ack, of an ACK with the present seq.
TakeAck ==
    /\ At(Control, cpc, "out") /\ acks > 0
    /\ acks' = acks - 1 /\ acked' = TRUE
    /\ cpc' = "test"
    /\ Stay /\ UNCHANGED <<alarmVars, asleep, sender, alarm, retry, tested>>

\* The test that minisocket_process_ack and minisocket_retry_cancel make.
TestAlarm ==
    /\ At(Control, cpc, "test")
    /\ UNCHANGED <<alarmVars, asleep, sender, alarm, retry, acks, acked>>
    /\ IF alarm > -1
       THEN tested' = alarm /\ cpc' = "deregister" /\ Stay
       ELSE NextPacket /\ UNCHANGED tested

\* The field is plain memory: the compiler may read it again or use what it tested.
DeregisterRetry ==
    /\ At(Control, cpc, "deregister")
    /\ \E id \in {tested, alarm} : Deregister(id)
    /\ cpc' = "set"
    /\ Stay /\ UNCHANGED <<asleep, sender, alarm, retry, tested, acks, acked>>

SetSuccess ==
    /\ At(Control, cpc, "set")
    /\ alarm' = ALARM_SUCCESS
    /\ cpc' = "signal"
    /\ Stay /\ UNCHANGED <<alarmVars, asleep, sender, retry, tested, acks, acked>>

\* Mutant of SignalSender: the sender is woken only if it waits already.
SignalSenderIfWaiting ==
    /\ At(Control, cpc, "signal")
    /\ IF spc = "blocked" THEN Signal(1) ELSE UNCHANGED <<retry, spc>>
    /\ UNCHANGED <<alarmVars, asleep, try, result, alarm, tested, acks, acked>>
    /\ NextPacket

SignalSender ==
    /\ At(Control, cpc, "signal")
    /\ Signal(1)
    /\ UNCHANGED <<alarmVars, asleep, try, result, alarm, tested, acks, acked>>
    /\ NextPacket
-----------------------------------------------------------------------------
\* minithread_sleep_with_timeout, all of it with interrupts disabled.
Sleep(z) ==
    /\ running = z /\ z \in Sleeper \ asleep
    /\ nextId + MAX_TRY < MaxAlarm
    /\ \E d \in SleepTicks : Register(d, z)
    /\ asleep' = asleep \cup {z}
    /\ UNCHANGED <<sender, alarm, retry, control, acks, acked>>
    /\ SwitchFrom(z)

(***************************************************************************)
(* clock_handler: alarm_signal calls minisocket_retry_wakeup or signals a  *)
(* sleeper, for each alarm that is due, and the processor may go to any    *)
(* thread that is ready.                                                   *)
(***************************************************************************)
Tick ==
    LET mine == {i \in DOMAIN Fired : Fired[i].arg = Sender}
    IN  /\ AlarmTick
        /\ Signal(Cardinality(mine))
        /\ alarm' = IF mine = {} THEN alarm ELSE ALARM_WAKEUP
        /\ asleep' = {z \in asleep : \A i \in DOMAIN Fired : Fired[i].arg # z}
        /\ UNCHANGED <<try, result, control, acks, acked>>
        /\ SwitchFrom("idle")

SenderStep == BeginTransmit \/ Send \/ RegisterRetry \/ StoreAlarm \/ WaitRetry \/ CheckAlarm \/ ReturnSuccess
ControlStep == TakeAck \/ TestAlarm \/ DeregisterRetry \/ SetSuccess \/ SignalSender

Next == SenderStep \/ ControlStep \/ Tick \/ \E z \in Sleeper : Sleep(z)

(***************************************************************************)
(* The clock ticks for ever; a thread that is ready gets the processor in  *)
(* the end (Scheduler!NoStarvation), so again and again if it stays ready; *)
(* and on the processor it executes its next instruction.                  *)
(***************************************************************************)
Spec == /\ Init /\ [][Next]_vars
        /\ WF_vars(Tick)
        /\ SF_vars(SenderStep) /\ SF_vars(Tick /\ running' = Sender)
        /\ SF_vars(ControlStep) /\ SF_vars(Tick /\ running' = Control)
-----------------------------------------------------------------------------
TypeOK ==
    /\ \A i \in DOMAIN alarmQueue : alarmQueue[i] \in [id : 0 .. MaxAlarm, left : Int, arg : Sleeper \cup {Sender}]
    /\ alarmTime \in Int /\ nextId \in 0 .. MaxAlarm
    /\ running \in {Sender, Control, "idle"} \cup Sleeper
    /\ asleep \subseteq Sleeper
    /\ spc \in {"out", "send", "register", "store", "wait", "blocked", "check", "success"}
    /\ try \in 0 .. MAX_TRY - 1 /\ result \in 0 .. MaxAlarm
    /\ alarm \in {ALARM_SUCCESS, ALARM_CANCELED, ALARM_WAKEUP} \cup 0 .. MaxAlarm
    /\ retry >= -1 /\ (spc = "blocked" <=> retry = -1)
    /\ cpc \in {"out", "test", "deregister", "set", "signal"}
    /\ acks \in 0 .. MAX_TRY

(***************************************************************************)
(* Between two ticks no alarm is overdue, and the nearest time that the    *)
(* clock handler looks at is never later than the earliest alarm, although *)
(* deregister_alarm does not touch it: no alarm is late.                   *)
(***************************************************************************)
AlarmsOnTime ==
    /\ \A i, j \in DOMAIN alarmQueue : i < j => alarmQueue[i].left <= alarmQueue[j].left
    /\ alarmQueue # << >> => alarmTime # NoAlarm /\ alarmTime <= alarmQueue[1].left
    /\ \A i \in DOMAIN alarmQueue : alarmQueue[i].left > 0

\* A sleeper has exactly one alarm registered, and a thread that is awake none.
SleepersHaveAlarms ==
    \A z \in Sleeper :
        Cardinality({i \in DOMAIN alarmQueue : alarmQueue[i].arg = z}) = (IF z \in asleep THEN 1 ELSE 0)

\* minisocket_transmit reports success only of a message that was acknowledged.
SuccessMeansAcked == spc = "success" => acked

\* minisocket_transmit returns: the message is acknowledged or the tries run out.
TransmitEnds == spc # "out" ~> spc = "out"
=============================================================================
