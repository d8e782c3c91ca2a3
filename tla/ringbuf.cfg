CONSTANTS
    Byte <- MCByte
    Size = 3
    MaxLength = 4
    MqMax = 2
    Writer = {1}
    CDC_TX_BUFSIZE = 2
    CDC_MaxPacketSize = 2
    CharModulus = 5
SPECIFICATION PartsSpec
INVARIANTS TypesOK MirrorInv CharsInOrder
PROPERTIES IsFifo CharArrives
