\* One staker beside the robot and one emission; exact rates 1, 2 and 4, which
\* never fall.
SPECIFICATION Spec
CONSTANTS
    ONE = 16
    u1 = u1
    u2 = u2
    robot = robot
    Users = {u1}
    Robot = robot
    Rates = {16, 32, 64}
    RateMayFall = FALSE
    StartTs = 1
    Duration = 0
    Horizon = 2
    MaxPySupply = 8
    InitialSy = 8
    Amounts = {4}
    Settings <- NoSettings
    InitialSettings <- AllOpen
    LimitChoices <- NoLimits
    NoLimit = 1000
    EmissionIds = {0}
    InitialIndex = 16
    IndexSteps = {16}
    MaxIndex = 32
INVARIANTS
    EscrowInSync
    PySupply
    StakedYtEscrowed
    UncollectedIsStaged
    FullySolvent
    PtBackedAtPar
    
    EmissionsBacked
PROPERTIES
    FrozenAtMaturity
