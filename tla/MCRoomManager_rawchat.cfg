CONSTANTS
    a1 = a1
    a2 = a2
    n1 = n1
    n2 = n2
    Agents = {a1, a2}
    Names = {n1, n2}
    NoAgent = NoAgent
    NoName = NoName
    RoomCap = 2
    MaxRooms = 1
    HistoryCap = 2
    MaxChats = 3
    MaxQueries = 1
    LoginOnce = TRUE

SYMMETRY Symmetry
SPECIFICATION Spec

INVARIANTS
    EveryChatIsMasked

