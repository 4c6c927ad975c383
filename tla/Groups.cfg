SPECIFICATION FairSpec
CONSTANTS
    Callers = {p1, p2}
    Conns = {c1}
    MaxSelects = 3
    MaxRestarts = 1
    None = "none"
    Delays = {1, 51, 52, 103, 15000}
    Tolerance = 50
    Nil = Nil
    Interval = 2
    IdleTimeout = 3
    Tickers = {t1, t2}
    NoTicker = NoTicker
INVARIANTS  PersistedCurrent WithinTolerance OneRound TickerHasLoop
PROPERTIES NoFlapping TrafficTests IdleStops
