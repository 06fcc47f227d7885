SPECIFICATION Spec
CONSTANTS
    c1 = c1
    c2 = c2
    c3 = c3
    a1 = a1
    a2 = a2
    Free = Free
    Calls <- MCCalls
    Accounts <- MCAccounts
    AccountOf <- MCAccountOf
    minBalanceWei = 1
    topUpWei = 2
    GasCost = 1
    InitialBalances = {0, 1}
    FunderBalance = 8
INVARIANTS TypeOK LockDiscipline NonceStaysFresh TopUpsJustified
PROPERTIES EnsureGasReturns
CHECK_DEADLOCK FALSE
