\* One depositor and the curator, two markets, exact rates 1 and 2.
SPECIFICATION Spec
CONSTANTS
    ONE = 2
    alice = alice
    curator = curator
    near = near
    far = far
    Holders = {alice, curator}
    TheCurator = curator
    Signers = {alice}
    Funds <- SomeFunds
    Markets = {near, far}
    Expiry <- TwoExpiries
    InitialPool <- SmallPool
    InitialAdapter <- Backed
    Virtual = 1
    FeeBps = 2000
    Lists <- TwoLists
    Amounts = {2}
    Lots = {1, 2}
    Quotes = {1}
    Rates = {4}
    Redemptions = {2}
    Attested = {5}
    Slippages = {0}
    Ttls = {1}
    MinTtl = 1
    MaxTtl = 1
    Horizon = 1
INVARIANTS
    TypeOK
    SharesAddUp
PROPERTIES
    SharePriceKept
    DilutedByTheFee
    RollAuthorised
    RollKeepsValue
CHECK_DEADLOCK FALSE
