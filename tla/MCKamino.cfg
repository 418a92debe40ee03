\* One user and the core vault; half units of liquidity, rates in eighths.
SPECIFICATION Spec
CONSTANTS
    ONE = 8
    Scale = 2
    alice = alice
    vault = vault
    Users = {alice, vault}
    Funds <- SomeFunds
    InitialReserve <- Lent
    Locked = 1
    Amounts = {1, 2}
    Accruals <- Interest
    MaxSupply = 5
    PdaLists <- Lists
INVARIANTS
    PositionsEscrowed
    CtokensBackSy
    RateNearHigh
CHECK_DEADLOCK FALSE
