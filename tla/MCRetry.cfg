SPECIFICATION Spec
CONSTANTS
    Sender = Sender
    Control = Control
    Sleeper = {z1}
    SleepTicks = {0, 3}
    MAX_TRY = 2
    FreshAlarm <- SentBefore
    MaxAlarm = 5
INVARIANTS TypeOK AlarmsOnTime  
 
