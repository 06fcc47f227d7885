SPECIFICATION Spec
CONSTANTS
    NoDigits = NoDigits
    Junk = Junk
    NotANumber = NotANumber
    Malformed = Malformed
    BadBody = BadBody
    None = None
    N = 7
    WideLimit = 16
    Byte = 4
    Width = 2
    AuthToken = "tok"
    OwnerIndices = {0, 1}
    Nonces = {0, 1}
    Callers <- MCCallers
    Assertions <- MCAssertions
    OwnerLists <- MCOwnerLists
INVARIANTS SanityCheckPredicts OwnersDecodeBack
