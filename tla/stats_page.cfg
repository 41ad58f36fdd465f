CONSTANTS
    Devices = {d1, d2}
    Points = 10
    MaxEntries = 2
    MaxTimers = 4
SPECIFICATION FairSpec
INVARIANTS
    TypeOK
    OneSocket
    TimerArmed
    AxisFits
PROPERTIES
    ComesBack
