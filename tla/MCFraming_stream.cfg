CONSTANTS
    BodySizes = {1, 3, 4}
    HeadLen = 2
    ServerMax = 3
    ClientMax = 2
    MinCompressSize = 3
    DealMax = 2
    OnceBuffer = 12
    MaxPackets = 4

SPECIFICATION FairSpec
CHECK_DEADLOCK FALSE

INVARIANTS
    FramingTypeOK
    WaitsOnlyBehindTheCap

PROPERTIES
    ImplementsStream
    StreamDrains
