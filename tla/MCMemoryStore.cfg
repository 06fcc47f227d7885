SPECIFICATION Spec
CONSTANTS
    o1 = o1
    g1 = g1
    g2 = g2
    t1 = t1
    lower = lower
    checksum = checksum
    s1 = s1
    NoSig = NoSig
    NoRow = NoRow
    ErrNoAuthorization = ErrNoAuthorization
    ErrAuthorizationMissingSignature = ErrAuthorizationMissingSignature
    Owners <- MCOwners
    Agents <- MCAgents
    Tokens <- MCTokens
    Nonces <- MCNonces
    Signatures <- MCSignatures
    Cases <- MCCases
    Offers <- MCOffers
    Bumps <- MCBumps
    Times <- MCTimes
    MaxSpent = 1
INVARIANTS TypeOK UniqueIds AnswersMeetPort
PROPERTIES SpentNeverShrinks MeetsPort
