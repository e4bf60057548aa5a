CONSTANTS
    Subjects = {"nonce", "rate"}
    p = p
    q = q
    Nonce = {n1, n2, n3}
    NoNonce = NoNonce
    TTLs = {2}
    Capacity = 2
    ProbeLimit = 2
    Bucket <- MCBucket
    Procs = {p, q}
    NoProc = NoProc
    LastNonceTime = 4
    MaxAttempts = 4
    MaxClaimantDeaths = 1
    ra = r1
    rb = r2
    Ip = {i}
    Rule = {r1, r2}
    NoOne = NoOne
    Escalating = {r1, r2}
    StrikeCapacity = 1
    StrikeProbeLimit = 1
    StrikeBucket <- MCStrikeBucket
    Per <- MCPer
    Strikes <- MCStrikes
    Ttl <- MCTtl
    Wrap = 16
    Budget <- MCBudget
    BudgetWindow <- MCWindow
    MaxRetries = 2
    Handlers = {p, q}
    NoHandler = nobody
    Observing = {TRUE, FALSE}
    FirstRateTime = 4
    LastRateTime = 6
    MaxMatches = 4
    MaxHandlerDeaths = 1
SYMMETRY Symm
SPECIFICATION TablesSpec
INVARIANTS RedeemedOnceWhileFresh DuplicateJustified CountIsSpent EscalatedJustified EscalationKept
PROPERTIES ImplementsNonceRegister RefusedWhenSpent
CHECK_DEADLOCK FALSE
