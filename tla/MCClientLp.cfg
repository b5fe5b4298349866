\* Pools created, joined and left through the client; others do the same, and trade.
SPECIFICATION ClientSpec
CONSTANTS
    FEE_RATE_DENOMINATOR_VALUE = 10
    MAX_FEE_BASIS_POINTS = 10
    OBSERVATION_NUM = 2
    OBSERVATION_UPDATE_DURATION_DEFAULT = 15
    U128_RANGE = 16
    Admin = admin
    NoKey = nokey
    Keys = {admin}
    RateValues = {2}
    CreatePoolFees = {0}
    Updates = {}
    LOCK_LP_AMOUNT = 1
    Q32 = 0
    FeeReceiverIsTokenAccount = FALSE
    EPOCH_LENGTH = 2
    Supply0 = 4
    Supply1 = 9
    TokenSupply <- MCSupply
    MintFees <- NoMintFee
    TokenAmounts = {2, 4}
    LpAmounts = {1}
    Requests = {}
    Maxima = {10}
    Minima = {0}
    OpenTimes = {0}
    Statuses = {}
    MaxTime = 1
    Commands <- LpChanges
    SLIPPAGE = 1
    SLIPPAGE_UNIT = 4
    Token2022 = {}
PROPERTIES
    QuoteHonoured
    ExecutedWithinSlippage
    AmountsFollowMints
CHECK_DEADLOCK FALSE
