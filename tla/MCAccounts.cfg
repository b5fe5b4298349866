\* Any accounts passed to the instructions on two pools that share mints, under one authority.
SPECIFICATION Spec
CONSTANTS
    FEE_RATE_DENOMINATOR_VALUE = 10
    LOCK_LP_AMOUNT = 1
    p = p
    q = q
    x = x
    y = y
    lp_p = lp_p
    lp_q = lp_q
    user = user
    owner = owner
    Admin = admin
    Authority = authority
    Pools = {p, q}
    Configs = {"ours", "theirs"}
    Mints = {x, y, lp_p, lp_q}
    Keys = {user, owner, admin}
    TokenAccounts <- MCTokenAccounts
    account_mint <- MCMint
    account_owner <- MCOwner
    ConfigData <- MCConfigData
    amm_config <- MCConfig
    token_vault <- MCVaults
    lp_mint <- MCLpMint
    observation_key <- MCOracle
    InitialBalance <- MCBalance
    InitialLp <- MCLp
    TokenAmounts = {3}
    Requests = {2}
    LpAmounts = {1}
    Statuses = {{}}
INVARIANTS
    TypeOK
    LpTokensCounted
PROPERTIES
    OnlyOnePool
    OnlyOwnersCollect
    EachPoolKeepsLedger
CHECK_DEADLOCK FALSE
