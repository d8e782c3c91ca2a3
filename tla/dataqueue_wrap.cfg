CONSTANTS
    Thread = {t1, t2}
    Isr = Isr
    QueueSize = 2
    Lwm = 1
    StartIndices <- NearWrap
    MaxItems = 4
SPECIFICATION QueueSpec
INVARIANT NeverOverrun
CHECK_DEADLOCK FALSE
