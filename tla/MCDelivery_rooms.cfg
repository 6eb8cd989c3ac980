CONSTANTS
    a1 = a1
    a2 = a2
    n1 = n1
    n2 = n2
    Agents = {a1, a2}
    Names = {n1, n2}
    NoAgent = NoAgent
    NoName = NoName
    RoomCap = 1
    MaxRooms = 2
    HistoryCap = 1
    MaxChats = 0
    MaxQueries = 1
    LoginOnce = TRUE
    QueueCap = 2
    WriteCap = 1
    MaxTasks = 5
    Stalled = {}

SYMMETRY Symmetry
VIEW WithoutOut
SPECIFICATION DeliverySpec
CHECK_DEADLOCK FALSE

INVARIANTS
    DeliveryTypeOK
    ReceivedInOrder
    HearsOwnRoomOnly
