CONSTANTS
    a1 = a1
    a2 = a2
    n1 = n1
    n2 = n2
    Agents = {a1, a2}
    Names = {n1, n2}
    NoAgent = NoAgent
    NoName = NoName
    RoomCap = 2
    MaxRooms = 1
    HistoryCap = 1
    MaxChats = 0
    MaxQueries = 0
    LoginOnce = TRUE
    QueueCap = 2
    WriteCap = 1
    MaxTasks = 4
    Stalled = {a2}

SPECIFICATION LiveSpec
CHECK_DEADLOCK FALSE

PROPERTIES
    SocketsClose
    WorkersComeToRest

