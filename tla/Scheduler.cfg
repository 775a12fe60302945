SPECIFICATION Spec
CONSTANTS
    Thread = {t1, t2, t3}
    Sleeper = {t1}
    Mortal = {t2, t3}
    Idle = Idle
INVARIANT TypeOK
PROPERTIES WorkConserving IdleGivesWay NoStarvation
