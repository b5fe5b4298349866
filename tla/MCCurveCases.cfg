\* Rates are tenths, so that small amounts meet every rounding case, basis points are
\* elevenths; maximum fees lie below, among and beyond the amounts.
SPECIFICATION MCSpec
CONSTANTS
    FEE_RATE_DENOMINATOR_VALUE = 10
    MAX_FEE_BASIS_POINTS = 11
    Admin = admin
    NoKey = nokey
    Keys = {admin}
    RateValues = {4, 6}
    CreatePoolFees = {0}
    Updates <- RateAndOwnerUpdates
    MaxReserve = 7
    MaxAmount = 12
    MaximumFees = {0, 1, 3, 8, 100}
    MaxTransfer = 60
    MaxExtensions = 4
INVARIANTS
    RatesStayAllowed
    FeesHaveOwners
    ConstantNeverFalls
    FeesWithinAmount
    OutputPricedExactly
    SharesRoundedForPool
    InverseFeeExact
    VaultsOutOfReach
CHECK_DEADLOCK FALSE
