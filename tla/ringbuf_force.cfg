CONSTANTS
    Byte <- MCByte
    Size = 3
    MaxLength = 3
SPECIFICATION SpecAll
PROPERTY ForceKeepsNewest
