CONSTANTS
    a1 = a1
    a2 = a2
    a3 = a3
    n1 = n1
    n2 = n2
    Agents = {a1, a2, a3}
    Names = {n1, n2}
    NoAgent = NoAgent
    NoName = NoName
    RoomCap = 2
    MaxRooms = 2
    HistoryCap = 1
    MaxChats = 0
    MaxQueries = 0
    LoginOnce = FALSE

SYMMETRY Symmetry
SPECIFICATION Spec

INVARIANTS
    TypeOK
    ListMatchesNodes
    ListedRoomsHaveSpace
    RegistryMatchesRooms

PROPERTIES
    NamesNeverPassOn
