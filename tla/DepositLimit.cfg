\* A deposit of a token that charges a transfer fee.
SPECIFICATION ClientSpec
CONSTANTS
    FEE_RATE_DENOMINATOR_VALUE = 10
    MAX_FEE_BASIS_POINTS = 10
    OBSERVATION_NUM = 2
    OBSERVATION_UPDATE_DURATION_DEFAULT = 15
    U128_RANGE = 16
    Admin = admin
    NoKey = nokey
    Keys = {admin}
    RateValues = {5}
    CreatePoolFees = {0}
    Updates = {}
    LOCK_LP_AMOUNT = 1
    Q32 = 0
    FeeReceiverIsTokenAccount = FALSE
    EPOCH_LENGTH = 1
    Supply0 = 10
    Supply1 = 6
    TokenSupply <- MCSupply
    MintFees <- FeeOnToken0
    TokenAmounts = {4}
    LpAmounts = {}
    Requests = {6}
    Maxima = {10}
    Minima = {0}
    OpenTimes = {0}
    Statuses = {}
    MaxTime = 1
    Commands <- Deposits
    SLIPPAGE = 1
    SLIPPAGE_UNIT = 10
    Token2022 = {0}
INVARIANT
    DepositLimitIncludesFee
CHECK_DEADLOCK FALSE
