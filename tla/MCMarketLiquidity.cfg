\* Liquidity operations and spot trades on uneven and empty pools, with
\* limits on the change of the LP supply.
SPECIFICATION Spec
CONSTANTS
    ONE = 16
    Rates = {16}
    ExpirationTs = 2
    Horizon = 3
    Amounts = {1, 3}
    CurveSy = {1}
    CurveFees = {0}
    VirtualPt = 2
    VirtualSy = 2
    VirtualLp = 2
    FlashCapBps = 0
    MaxLpSupply = 6
    MaxPct = 100000
    MaxDepth = 0
    InitialPools <- Pools
    InitialWallet <- Providers
    Settings <- SomeSettings
    InitialSettings <- NoYt
    LimitChoices <- TightLimits
PROPERTIES
    ImplementsPool
    
\* All tokens may end up in the escrows after the expiry.
CHECK_DEADLOCK FALSE
