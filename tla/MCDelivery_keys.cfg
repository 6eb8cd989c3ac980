CONSTANTS
    a1 = a1
    n1 = n1
    Agents = {a1}
    Names = {n1}
    NoAgent = NoAgent
    NoName = NoName
    RoomCap = 1
    MaxRooms = 2
    HistoryCap = 1
    MaxChats = 0
    MaxQueries = 0
    LoginOnce = FALSE
    QueueCap = 2
    WriteCap = 1
    MaxTasks = 5
    Stalled = {}

SYMMETRY Symmetry
SPECIFICATION DeliverySpec
CHECK_DEADLOCK FALSE

INVARIANTS
    AnswersInOrder
