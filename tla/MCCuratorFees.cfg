\* A depositor's base counts as gain at the first harvest.
SPECIFICATION Spec
CONSTANTS
    ONE = 2
    alice = alice
    curator = curator
    near = near
    far = far
    Holders = {alice, curator}
    TheCurator = curator
    Signers = {}
    Funds <- LargerFunds
    Markets = {near, far}
    Expiry <- TwoExpiries
    InitialPool <- SmallPool
    InitialAdapter <- Backed
    Virtual = 1
    FeeBps = 2000
    Lists <- OneList
    Amounts = {5}
    Lots = {1}
    Quotes = {1}
    Rates = {2}
    Redemptions = {2}
    Attested = {5}
    Slippages = {1000}
    Ttls = {1}
    MinTtl = 1
    MaxTtl = 1
    Horizon = 1
PROPERTY FeesOnYieldOnly
CHECK_DEADLOCK FALSE
