\* Two stakers, two mints; farms come and go.
SPECIFICATION FairSpec
CHECK_DEADLOCK FALSE
CONSTANTS
    ONE = 2
    u1 = u1
    u2 = u2
    A = A
    B = B
    Stakers = {u1, u2}
    Mints = {A, B}
    LpOf <- OneEach
    Amounts = {1}
    TokenRates = {3}
    Expiries = {1}
    Refills = {3}
    MaxEscrow = 3
    MaxAdded = 2
    Horizon = 2
INVARIANTS
    TypeOK
    StakesEscrowed
    
PROPERTIES
    OnlyTimePays
    StakersCanLeave
