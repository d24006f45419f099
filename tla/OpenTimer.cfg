SPECIFICATION FairSpec
CONSTANTS
    Timers = {t1}
    Periods = {0, 1, 2, 3}
    MaxBacklog = 2
    MaxCommands = 2
INVARIANTS
    TypeOK
    SilentAfterCommand
    FiresWithinPeriod
    ResetterIsHeard
PROPERTIES
    FiresWithoutResetter
CHECK_DEADLOCK FALSE
