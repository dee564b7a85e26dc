SPECIFICATION ConfigSpec
CONSTANTS
    a1 = a1
    a2 = a2
    a3 = a3
    a4 = a4
    Broadcast = Broadcast
    Links <- SomeLinks
    Rings <- MCRings
    Usecs <- MCUsecs
    Pkts <- MCPkts
    TxPkts <- MCTxPkts
    Profiles <- MCProfiles
    DefProfile <- MCProfile
INVARIANTS InterfaceSafe FiltersAsAsked LinkAsAgreed ModerationSafe
PROPERTY LinkTracked
CHECK_DEADLOCK FALSE
