CONSTANTS
    Tick = 4
    Lot = 4
    MinSize = 4
    RiskBudget = 5400
    CapNotional = 90090
    MinReward = 15
    MaxDeviation = 15
    PriceTolerance = 15
    SizeTolerance = 100
    Cookies = {c1, c2}
    Conns = {k1}
    Tokens = {t1, t2}
    Requests = {r1, r2}
    Plans = {p1}
    None = None
    Markets <- MCMarkets
    Planned = 10000
    MaxSessions = 1
SPECIFICATION Spec
SYMMETRY Symmetry
INVARIANTS ApprovedAsShown ChallengeUsedOnce SocketsHaveSessions FiguresSound
