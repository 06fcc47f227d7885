SPECIFICATION Spec
CONSTANTS
    o1 = o1
    g1 = g1
    t1 = t1
    c1 = c1
    c2 = c2
    elsewhere = elsewhere
    NoSig = NoSig
    NoRow = NoRow
    NoTx = NoTx
    NoLog = NoLog
    NoJob = NoJob
    Here = Here
    Stranger = Stranger
    ErrNoAuthorization = ErrNoAuthorization
    ErrAuthorizationMissingSignature = ErrAuthorizationMissingSignature
    Agent = g1
    Owners <- MCOwners
    Agents <- MCAgents
    Tokens <- MCTokens
    Nonces = {0}
    Signatures <- TransferSignature
    Params <- MCParams
    Spends <- OneSpend
    Amounts = {1}
    OurAgents <- MCAgents
    StartTime = 10
    MaxTime = 10
    MaxForeign = 2
    LockdownTopics = {2, 4}
    MaxBlocksPerTick = 1
    InitialBackfillBlocks = 2
    SavedWatermarks = {0, 1}
    MaxInt64 = 99
    Crediter = FALSE
    MaxFaults = 1
INVARIANTS TypeOK LockdownHolds PermitsHold
PROPERTIES LoopCatchesUp SpendReturns
CHECK_DEADLOCK FALSE
