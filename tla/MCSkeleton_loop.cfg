CONSTANTS
    Conns = {c1}
    Client = Client
    Nobody = Nobody
    Timers = {k1}
    Tickers = {k1}
    MaxRequests = 1
    MaxCalls = 3
    CallCap = 2
    RetCap = 1
    TimerCap = 1

SPECIFICATION FairSpec
CHECK_DEADLOCK FALSE

INVARIANTS
    TypeOK
    CallsRunInOrder
    ClosedOwesNothing
    StoppedNeverFires

PROPERTIES
    SyncCallsEnd
    ClientCloseReturns
    DeparturesAreSeen
    TickerGoesOn
