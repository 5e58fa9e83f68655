SPECIFICATION Spec
CONSTANTS
    Threads = {t1, t2}
    Requests <- MCRequests
    Accounts = {1, 2}
    Processes = {p1, p2}
    LOGIN_MAX_ATTEMPTS = 3
    Window = 2
    Lockout = 2
    PerWindow = 2
    MaxTracked = 2
    MinInterval = 2
    Threshold = 1
    Interval = 1
    Cooldown = 2
    MinVolume = 1
INVARIANTS
    GuessesAreBounded
    RatesAreKept
PROPERTY
    StandingBreachIsRepeated
