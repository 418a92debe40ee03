\* One user of every wrapper; the rate is 7/8 and may rise to 3/2; the market stops
\* trading at the expiry.
SPECIFICATION RouterSpec
CONSTANTS
    ONE = 16
    Rates = {14, 24}
    ExpirationTs = 1
    Horizon = 1
    Amounts = {1, 2}
    CurveSy = {1}
    CurveFees = {0}
    VirtualPt = 2
    VirtualSy = 2
    VirtualLp = 2
    FlashCapBps = 5000
    MaxLpSupply = 3
    MaxPct = 100000
    MaxDepth = 1
    InitialPools <- OnePool
    InitialWallet <- OneUser
    Settings <- NoSettings
    InitialSettings <- AllOpen
    LimitChoices <- NoLimits
    Funds = 1
    InitialPooled = 4
    InitialSupply = 5
    BaseAmounts = {1}
    Intents = {1}
    Maxima = {1}
    Minima = {0, 1}
    InterestBpsFee = 5000

    
    
PROPERTIES
    SaleReachesBase
\* A user left with SY alone has no wrapper to call at the horizon.
CHECK_DEADLOCK FALSE
