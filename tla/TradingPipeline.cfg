CONSTANTS
    Quotes <- MCQuotes
    Runtimes = {"threaded", "live"}
    Room = 1
    Limits <- MCLimits
    MaxUpdates = 3
SPECIFICATION FairSpec
INVARIANTS
    TypeOK
    IntentBeforeSend
    JournalRecoversLive
    
    NoGhostOrders
    OrdersAccounted
    NoStalePrice
PROPERTIES
    ShutdownCompletes
    GatewayDrains
