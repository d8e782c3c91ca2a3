CONSTANTS
    TimeMod = 32
    TaskCount <- MCTaskCount
    Delays = {2}
    AlarmId = {1, 2, 3}
    AlarmSetup <- MCAlarmSetup
    DaySecs = 4
    Week = 2
    AlarmDelay = 1
    MaxLate = 1
    MaxCalls = 5
SPECIFICATION PartsSpec
INVARIANTS TypesOK NoTickForgotten OverFlagExact FgPhase EveryPeriod CurrentIsSet
PROPERTIES NeverEarly DelayIsFull EveryTickServed StartedAlarmFires
