CONSTANTS
    Callers = {core, market}
    Placer = core
    NoCaller = NoCaller
    MaxRequests = 2
    MaxNoise = 2
    PipeCap = 1
SPECIFICATION FairSpec
INVARIANTS OutcomeIsTrue
PROPERTIES NoResponseStolen CallsReturn
