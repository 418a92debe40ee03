\* One staker beside the robot; exact rates 0, 1, 2 and 4, which may fall; the
\* curator restricts the vault, and limits claims.
SPECIFICATION Spec
CONSTANTS
    ONE = 16
    u1 = u1
    u2 = u2
    robot = robot
    Users = {u1}
    Robot = robot
    Rates = {0, 16, 32, 64}
    RateMayFall = TRUE
    StartTs = 0
    Duration = 0
    Horizon = 1
    MaxPySupply = 12
    InitialSy = 8
    Amounts = {4}
    Settings <- SomeSettings
    InitialSettings <- AllOpen
    LimitChoices <- TightLimits
    NoLimit = 1000
    EmissionIds = {}
    InitialIndex = 0
    IndexSteps = {}
    MaxIndex = 0
INVARIANTS
    TypeOK
    
    RateOrder
    ZeroRateNeverRecorded
    FullySolvent
    NoIntervalEarnedTwice
PROPERTIES
    NoRoundTripGain
