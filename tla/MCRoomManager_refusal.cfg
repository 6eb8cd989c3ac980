CONSTANTS
    a1 = a1
    a2 = a2
    a3 = a3
    a4 = a4
    n1 = n1
    n2 = n2
    n3 = n3
    n4 = n4
    Agents = {a1, a2, a3, a4}
    Names = {n1, n2, n3, n4}
    NoAgent = NoAgent
    NoName = NoName
    RoomCap = 2
    MaxRooms = 1
    HistoryCap = 1
    MaxChats = 0
    MaxQueries = 0
    LoginOnce = TRUE

SYMMETRY Symmetry
SPECIFICATION Spec

PROPERTIES
    RefusedOnlyWhenFull
