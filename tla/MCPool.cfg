\* Every instruction in any order, with transfer fees on token_0 that change with the
\* epoch, changes of rates and status, two keys, and slippage limits that reject.
SPECIFICATION Spec
CONSTANTS
    FEE_RATE_DENOMINATOR_VALUE = 10
    MAX_FEE_BASIS_POINTS = 10
    OBSERVATION_NUM = 2
    OBSERVATION_UPDATE_DURATION_DEFAULT = 1
    U128_RANGE = 16
    Admin = admin
    NoKey = nokey
    Keys = {admin, user}
    RateValues = {5}
    CreatePoolFees = {0}
    Updates <- RateUpdates
    LOCK_LP_AMOUNT = 1
    Q32 = 1
    FeeReceiverIsTokenAccount = FALSE
    EPOCH_LENGTH = 1
    Supply0 = 6
    Supply1 = 4
    TokenSupply <- MCSupply
    MintFees <- FeeOnToken0
    TokenAmounts <- Amounts
    LpAmounts = {1, 2, 3}
    Requests = {1, 6}
    Maxima = {3, 6}
    Minima = {0, 1}
    OpenTimes = {0, 2}
    Statuses = {{}, {"Deposit", "Withdraw", "Swap"}}
    MaxTime = 2
INVARIANTS
    AccountInv
    Solvent
    LpSupplyBacked
    LpSupplyCoversMint
    ObservationsInOpenTime
PROPERTIES
    ShareValueNeverFalls
    DepositCreditsExactShare
    KeepsLedger
CHECK_DEADLOCK FALSE
