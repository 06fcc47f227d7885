SPECIFICATION Spec
CONSTANTS
    o1 = o1
    g1 = g1
    t1 = t1
    c1 = c1
    c2 = c2
    elsewhere = elsewhere
    NoSig = NoSig
    NoRow = NoRow
    NoTx = NoTx
    NoLog = NoLog
    NoJob = NoJob
    Here = Here
    Stranger = Stranger
    ErrNoAuthorization = ErrNoAuthorization
    ErrAuthorizationMissingSignature = ErrAuthorizationMissingSignature
    Agent = g1
    Owners <- MCOwners
    Agents <- MCAgents
    Tokens <- MCTokens
    Nonces <- MCNonces
    Signatures <- OneSignature
    Params <- MCParams
    Spends <- OneSpend
    Amounts = {1}
    OurAgents <- MCAgents
    StartTime = 10
    MaxTime = 10
    MaxForeign = 0
    LockdownTopics = {2}
    MaxBlocksPerTick = 2
    InitialBackfillBlocks = 0
    SavedWatermarks = {1}
    MaxInt64 = 99
    Crediter = TRUE
    MaxFaults = 0
PROPERTY SubmittedKeepsSignature
CHECK_DEADLOCK FALSE
