SPECIFICATION Spec
CONSTANTS
    NoDigits = NoDigits
    Junk = Junk
    NotANumber = NotANumber
    BadBody = BadBody
    Down = Down
    NoCap = NoCap
    None = None
    Word = 16
    AmountLimit = 4
    UintLimit = 4
    WideLimit = 8
    Hardened = 4
    bip44Purpose = 1
    DefaultCoinType = 3
    SeedMin = 2
    SeedMax = 3
    RandomNonce = "random"
    DefaultChainID = 6
    DefaultTimeout = 3
    Backdate = 1
    MaxTime = 2
    MaxRequests = 2
    Environments <- MCEnvironments
    Callers <- MCCallers
    Addresses <- MCAddresses
    Keccak <- MCKeccak
    Selectors <- MCSelectors
    Transfers <- MCTransfers
    Messages <- MCMessages
    Transactions <- MCTransactions
INVARIANTS NothingWithoutToken OnPolicy WireVerifies AddressesStable StructuredIsolation
CHECK_DEADLOCK FALSE
