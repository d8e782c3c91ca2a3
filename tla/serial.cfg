CONSTANTS
    Size = 4
    ReadSizes <- OneOrTwo
    MaxChars = 7
    FileLen = 5
    BlkMod = 3
    MAX_RETRIES = 4
    MaxRead = 3
    MaxFaults = 4
    CharSize = 4
    LongSize = 16
    MaxLines = 3
SPECIFICATION PartsSpec
INVARIANTS TypesOK ReadIsExact FileInOrder LineIsRight
PROPERTIES RingDrains TransferEnds
