CONSTANTS
    Venue = {binance, coinbase}
    Symbol = {btc}
    None = None
    Frames <- MCFrames
    MaxSequence = 99
    MaxRoutes = 3
    MaxUpdates = 2
    MaxFailures = 1
SPECIFICATION FairSpec
INVARIANTS
    TypeOK
    ReplayExplainsRoutes
    BooksExact
    RouteLimitHolds
PROPERTIES
    UpdateServed
