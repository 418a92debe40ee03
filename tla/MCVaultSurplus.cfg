\* The rate may fall, and recover beyond its all-time high after maturity.
SPECIFICATION Spec
CONSTANTS
    ONE = 16
    u1 = u1
    u2 = u2
    robot = robot
    Users = {u1}
    Robot = robot
    Rates = {16, 32, 64}
    RateMayFall = TRUE
    StartTs = 1
    Duration = 0
    Horizon = 2
    MaxPySupply = 8
    InitialSy = 8
    Amounts = {4}
    Settings <- NoSettings
    InitialSettings <- AllOpen
    LimitChoices <- NoLimits
    NoLimit = 1000
    EmissionIds = {}
    InitialIndex = 0
    IndexSteps = {}
    MaxIndex = 0
PROPERTIES
    SurplusAboveHighWater
