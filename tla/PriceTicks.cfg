CONSTANTS
    Venue = {binance, coinbase}
    Symbol = {btc}
    None = None
    Frames <- LongFrames
    MaxSequence = 99
    MaxRoutes = 3
    MaxUpdates = 2
    MaxFailures = 0
SPECIFICATION Spec
INVARIANTS
    RoutesToBest
