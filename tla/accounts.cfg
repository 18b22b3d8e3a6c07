SPECIFICATION FairSpec
CONSTANTS
    Users = {u1, u2}
    Kinds = {k1}
    Threads = {t1, t2}
    PageSize = 1
    MaxRequests = 4
    MaxFaults = 1
    Capacity = 1
    Tables <- MCTables
INVARIANTS TypeOK ChatsAreWhole ContextWhenAlone UsersAreKnown
PROPERTIES PlacesAreKept ErasedWhenAlone RequestsEnd
CHECK_DEADLOCK FALSE
