SPECIFICATION Spec
CONSTANTS
    NoDigits = NoDigits
    Junk = Junk
    NotANumber = NotANumber
    None = None
    Wiped = Wiped
    Word = 8
    AmountLimit = 4
    UintLimit = 4
    WideLimit = 8
    Hardened = 4
    bip44Purpose = 1
    DefaultCoinType = 3
    SeedMin = 2
    SeedMax = 3
    Calls = {c1, c2}
    Seed <- MCSeed
    Coins <- MCCoins
    Accounts <- MCAccounts
    Requests <- MCRequests
INVARIANTS SignsAsItself KeysScrubbed
CHECK_DEADLOCK FALSE
