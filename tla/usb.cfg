SPECIFICATION PartsSpec
CONSTANTS
    MqMax = 2
    Sectors = 3
    SectorSize = 1
    SIZEOF_CBW = 2
    Modulus = 4
    Data = {a, b}
    a = a
    b = b
    Foreign = foreign
    NoCommand = NoCommand
    Command <- MCCommand
    Ask <- MCAsk
INVARIANTS  StatusIsTrue ReadyForCommand BufferInUse
PROPERTIES IsDisk CommandEnds
