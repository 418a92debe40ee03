\* Trades and flash windows.
SPECIFICATION Spec
CONSTANTS
    ONE = 16
    Rates = {8, 16}
    ExpirationTs = 1
    Horizon = 1
    Amounts = {1}
    CurveSy = {1, 2}
    CurveFees = {0, 2}
    VirtualPt = 2
    VirtualSy = 2
    VirtualLp = 2
    FlashCapBps = 5000
    MaxLpSupply = 12
    MaxPct = 100000
    MaxDepth = 2
    InitialPools <- Pool2x2
    InitialWallet <- Traders
    Settings <- NoSettings
    InitialSettings <- AllOpen
    LimitChoices <- NoLimits
INVARIANTS
    FlashFeeOnlyInFlash
