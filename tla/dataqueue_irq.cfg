CONSTANTS
    Thread = {t1, t2}
    Isr = Isr
    QueueSize = 2
    Lwm = 1
    StartIndices <- FromInit
    MaxItems = 4
SPECIFICATION QueueSpec
INVARIANT InterruptsRestored
CHECK_DEADLOCK FALSE
