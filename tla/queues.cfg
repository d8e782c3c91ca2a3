CONSTANTS
    Thread = {t1, t2, t3}
    Isr = Isr
    QueueSize = 2
    Lwm = 1
    StartIndices <- BothEnds
    MaxItems = 4
    Byte <- OneByte
    Size = 2
    MaxLength = 3
    Reader = {r1, r2}
    Writer = {w1, w2, w3}
    LenCmd = 4
    HistSize = 7
    Digits = 2
    MaxKeys = 6
    Console = {c1}
    TaskName = {x, y}
    MaxTasks = 3
    Nothing = Nothing
SPECIFICATION PartsSpec
INVARIANTS TypesOK ItemsInOrder NoWakeUpLost NoStandoff
INVARIANTS NoneSleepsInVain LineAsEdited HistoryIsWhole
CHECK_DEADLOCK FALSE
