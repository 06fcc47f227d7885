SPECIFICATION Spec
CONSTANTS
    NoDigits = NoDigits
    Junk = Junk
    NotANumber = NotANumber
    NoRow = NoRow
    NoCall = NoCall
    Word = 8
    AmountLimit = 4
    UintLimit = 4
    WideLimit = 8
    AmountTexts <- MCAmountTexts
    Amounts <- MCAmounts
    Vs <- MCVs
    MaxTime = 1
    MaxRows = 2
INVARIANTS SentPermitVerifies SentPermitFits AmountReadAsSigned
CHECK_DEADLOCK FALSE
