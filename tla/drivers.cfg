CONSTANTS
    Func = {1, 2}
    Bare = {1}
    SpiThread = {1, 2}
    SpiDevice = {1, 2}
    Config = {1, 2}
    NumPorts = 2
    MaxInst = 2
    MqSize = 1
    Times = 2
    Device = {d1, d2}
    LowSpeed = {d1}
    Hub = {d2}
    Empty = Empty
SPECIFICATION PartsSpec
INVARIANTS TypesOK AckIsMine NobodyForgotten BusIsSetUp PortsInOrder
PROPERTY InterruptServed
