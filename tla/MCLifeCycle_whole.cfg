CONSTANTS
    Conns = {1, 2, 3}
    NoConn = NoConn
    MaxConnNum = 2
    ConnNumberPerSecond = 2

SPECIFICATION WholeSpec
CHECK_DEADLOCK FALSE

INVARIANTS
    LifeTypeOK
    NothingLeftOpen
    MapHoldsServed
    ClosedAtTheEnd

PROPERTIES
    ShutdownEnds
