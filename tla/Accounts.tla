------------------------------ MODULE Accounts ------------------------------
(***************************************************************************)
(* Several pools under one authority.  Every vault and every LP mint of    *)
(* every pool is controlled by the same program address, so the token      *)
(* program lets an instruction on one pool move the tokens of any other.   *)
(* What keeps pools apart are the constraints of derive(Accounts), the     *)
(* pair check of the swap handlers and the token program's own checks.     *)
(*                                                                         *)
(* A caller passes whatever accounts it likes.  A constraint is the set of *)
(* accounts it accepts; an account without a constraint is any account.    *)
(* The mints here charge no transfer fees and the pools are open; module   *)
(* Pool has both.  That pools name accounts of their own is                *)
(* PoolsOwnTheirAccounts of module Registry.                               *)
(***************************************************************************)
EXTENDS CurveMath

\* MUTANT of min_of: the other one.
max_of(a, b) == IF a >= b THEN a ELSE b

min_of(a, b) == IF a <= b THEN a ELSE b

CONSTANTS
    LOCK_LP_AMOUNT,
    Pools, Configs, Mints, TokenAccounts,
    Keys,                    \* keys that sign
    Admin,                   \* the key admin::ID
    Authority,               \* the program's address that owns vaults and LP mints
    account_mint,            \* the mint and
    account_owner,           \* the owner of a token account
    ConfigData,              \* fee rates and fee owners of a config
    amm_config,              \* what PoolState names: the config,
    token_vault,             \* the two vaults,
    lp_mint,                 \* the LP mint,
    observation_key,         \* and the oracle, called by the pool it was created for
    InitialBalance,          \* balances when the last of the pools was created
    InitialLp,               \* LP tokens of the first deposits
    TokenAmounts, LpAmounts, \* amounts passed to instructions
    Requests,                \* and requested of a collection
    Statuses                 \* statuses the admin sets

Sides == {0, 1}
StatusBits == {"Deposit", "Withdraw", "Swap"}

RatesAndOwners ==
    [ trade_fee_rate: Nat, protocol_fee_rate: Nat, fund_fee_rate: Nat,
      protocol_owner: Keys, fund_owner: Keys ]

ASSUME AccountsAssumption ==
    /\ LOCK_LP_AMOUNT \in Nat \ {0}
    /\ Admin \in Keys
    /\ Authority \notin Keys
    /\ account_mint \in [TokenAccounts -> Mints]
    /\ account_owner \in [TokenAccounts -> Keys \cup {Authority}]
    /\ ConfigData \in [Configs -> RatesAndOwners]
    /\ amm_config \in [Pools -> Configs]
    /\ InitialBalance \in [TokenAccounts -> Nat]
    /\ InitialLp \in [Pools -> Nat]
    /\ TokenAmounts \subseteq Nat
    /\ LpAmounts \subseteq Nat
    /\ Requests \subseteq Nat
    /\ Statuses \subseteq SUBSET StatusBits

\* The rates of a config are allowed (RatesStayAllowed of module AmmConfig).
ASSUME RatesAssumption ==
    \A c \in Configs :
        /\ ConfigData[c].trade_fee_rate < FEE_RATE_DENOMINATOR_VALUE
        /\ ConfigData[c].protocol_fee_rate + ConfigData[c].fund_fee_rate
               <= FEE_RATE_DENOMINATOR_VALUE

\* PoolsOwnTheirAccounts of module Registry, and what initialize puts into them.
ASSUME OwnAccountsAssumption ==
    /\ token_vault \in [Pools -> [Sides -> TokenAccounts]]
    /\ lp_mint \in [Pools -> Mints]
    /\ observation_key \in [Pools -> Pools]
    /\ \A p \in Pools, s \in Sides : account_owner[token_vault[p][s]] = Authority
    /\ \A p, q \in Pools, s, t \in Sides :
          token_vault[p][s] = token_vault[q][t] => p = q /\ s = t
    /\ \A p \in Pools : account_mint[token_vault[p][0]] # account_mint[token_vault[p][1]]
    /\ \A p, q \in Pools : lp_mint[p] = lp_mint[q] => p = q
    /\ \A p \in Pools : observation_key[p] = p
    /\ \A p \in Pools : InitialLp[p] > LOCK_LP_AMOUNT
    /\ \A p \in Pools : InitialLp[p] * InitialLp[p]
                           <= InitialBalance[token_vault[p][0]] * InitialBalance[token_vault[p][1]]

VARIABLES
    balance,                   \* of every token account
    mint_supply,               \* of every LP mint, by its pool
    lp_supply, fees, status,   \* of every PoolState
    observed,                  \* per oracle, the pools whose prices it recorded
    signer                     \* who signed the last instruction

vars == <<balance, mint_supply, lp_supply, fees, status, observed, signer>>

Kinds == {"protocol", "fund"}

----------------------------------------------------------------------------
(***************************************************************************)
(* The constraints, as the accounts they accept.                           *)
(***************************************************************************)
Pairs == [Sides -> TokenAccounts]

\* MUTANT of vaults_of: the second vault is not compared.
vaults_half_checked(pool) == { v \in Pairs : v[0] = token_vault[pool][0] }

\* token_0_vault and token_1_vault of deposit, withdraw and both collections.
vaults_of(pool) == { v \in Pairs : \A s \in Sides : v[s] = token_vault[pool][s] }

\* input_vault and output_vault of a swap: each may be either.
swap_vault_of(pool) == { v \in TokenAccounts : v \in { token_vault[pool][s] : s \in Sides } }

\* MUTANT of lp_mint_of: any LP mint.
any_lp_mint(pool) == Pools

\* An LP mint is named by its pool.
lp_mint_of(pool) == { p \in Pools : lp_mint[p] = lp_mint[pool] }

\* MUTANT of config_of: any config.
any_config(pool) == Configs

config_of(pool) == { c \in Configs : c = amm_config[pool] }

observation_of(pool) == { o \in Pools : o = observation_key[pool] }

\* owner_lp_token.  The input account of a swap has no constraint of its own; the
\* token program asks the same of it.
accounts_of(owner) == { a \in TokenAccounts : account_owner[a] = owner }

\* token_0_account and token_1_account: of deposit, which pays from them, ...
deposit_accounts(owner, vault) ==
    { t \in Pairs : \A s \in Sides : /\ account_mint[t[s]] = account_mint[vault[s]]
                                     /\ account_owner[t[s]] = owner }

\* ... and of withdraw, which pays into them, be they anybody's.
withdraw_accounts(vault) ==
    { t \in Pairs : \A s \in Sides : account_mint[t[s]] = account_mint[vault[s]] }

\* The recipients of a collection are not constrained.  One of another mint passes
\* only if nothing is transferred to it.
recipients(vault) == withdraw_accounts(vault)

collectors(config, kind) ==
    {Admin, IF kind = "protocol" THEN ConfigData[config].protocol_owner
                                 ELSE ConfigData[config].fund_owner}

----------------------------------------------------------------------------
(***************************************************************************)
(* The token program (external).                                           *)
(***************************************************************************)
\* transfer_checked: one mint, the source's owner signs, the source has enough.  The
\* program does not call it for a zero amount.
transfer_accepts(from, to, authority, amount) ==
    amount # 0 =>
        /\ account_mint[from] = account_mint[to]
        /\ account_owner[from] = authority
        /\ amount <= balance[from]

\* To itself an account transfers nothing.
Transferred(b, from, to, amount) ==
    IF from = to THEN b ELSE [b EXCEPT ![from] = @ - amount, ![to] = @ + amount]

----------------------------------------------------------------------------
Init ==
    /\ balance = InitialBalance
    /\ mint_supply = [p \in Pools |-> InitialLp[p] - LOCK_LP_AMOUNT]
    /\ lp_supply = InitialLp
    /\ fees = [p \in Pools |-> [k \in Kinds |-> [s \in Sides |-> 0]]]
    /\ status = [p \in Pools |-> {}]
    /\ observed = [p \in Pools |-> {}]
    /\ signer = Admin

enabled(pool, bit) == bit \notin status[pool]

owed(pool, s) == fees[pool]["protocol"][s] + fees[pool]["fund"][s]

\* What the vault that was passed holds beyond what the pool that was passed owes;
\* the subtraction panics if that is less than nothing.
vault_amount_without_fee(pool, vault, s) == balance[vault[s]] - owed(pool, s)
covers_fees(pool, vault, s) == owed(pool, s) <= balance[vault[s]]

share(pool, vault, lp_amount, round, s) ==
    lp_tokens_to_trading_token(lp_amount, lp_supply[pool],
                               vault_amount_without_fee(pool, vault, s), round)

\* vault, account: the vaults and the owner's accounts that were passed, mint: the
\* pool whose LP mint was passed.
Deposit(owner, pool, vault, mint, lp_token, account, lp_amount) ==
    LET amount(s) == share(pool, vault, lp_amount, "Ceiling", s)
        paid == Transferred(Transferred(balance, account[0], vault[0], amount(0)),
                            account[1], vault[1], amount(1))
    IN  /\ lp_amount > 0
        /\ enabled(pool, "Deposit")
        /\ \A s \in Sides :
              /\ covers_fees(pool, vault, s)
              /\ amount(s) # 0
              /\ transfer_accepts(account[s], vault[s], owner, amount(s))
        /\ account_mint[lp_token] = lp_mint[mint]
        /\ balance' = [paid EXCEPT ![lp_token] = @ + lp_amount]
        /\ mint_supply' = [mint_supply EXCEPT ![mint] = @ + lp_amount]
        /\ lp_supply' = [lp_supply EXCEPT ![pool] = @ + lp_amount]
        /\ signer' = owner
        /\ UNCHANGED <<fees, status, observed>>

Withdraw(owner, pool, vault, mint, lp_token, account, lp_amount) ==
    LET amount(s) == min_of(vault_amount_without_fee(pool, vault, s),
                            share(pool, vault, lp_amount, "Floor", s))
        burnt == [balance EXCEPT ![lp_token] = @ - lp_amount]
    IN  /\ lp_amount > 0
        /\ enabled(pool, "Withdraw")
        /\ lp_amount <= lp_supply[pool]
        /\ lp_amount <= mint_supply[mint]
        /\ account_mint[lp_token] = lp_mint[mint]
        /\ lp_amount <= balance[lp_token]
        /\ \A s \in Sides :
              /\ covers_fees(pool, vault, s)
              /\ amount(s) # 0
              /\ transfer_accepts(vault[s], account[s], Authority, amount(s))
        /\ balance' = Transferred(Transferred(burnt, vault[0], account[0], amount(0)),
                                  vault[1], account[1], amount(1))
        /\ mint_supply' = [mint_supply EXCEPT ![mint] = @ - lp_amount]
        /\ lp_supply' = [lp_supply EXCEPT ![pool] = @ - lp_amount]
        /\ signer' = owner
        /\ UNCHANGED <<fees, status, observed>>

\* MUTANT of swap_pair: whatever is not the first pair is taken for the second.
swap_pair_unchecked(pool, input, vault) == TRUE

\* The handlers' check: the two vaults of the pool, in either order.
swap_pair(pool, input, vault) == \A s \in Sides : vault[s] = token_vault[pool][s]

\* Both swaps.  The caller passed vault[input] as the input vault; from and to are
\* its own accounts; result is what the curve says for the reserves of the vaults.
Swap(payer, pool, input, vault, observation, from, to, result) ==
    LET output == 1 - input
        amount_in == result.source_amount_swapped
        amount_out == result.destination_amount_swapped
    IN  /\ enabled(pool, "Swap")
        /\ swap_pair(pool, input, vault)
        /\ \A s \in Sides : vault_amount_without_fee(pool, vault, s) > 0
        /\ amount_in > 0
        /\ amount_out > 0
        /\ constant_after(result) >= vault_amount_without_fee(pool, vault, 0)
                                       * vault_amount_without_fee(pool, vault, 1)
        /\ transfer_accepts(from, vault[input], payer, amount_in)
        /\ transfer_accepts(vault[output], to, Authority, amount_out)
        /\ balance' = Transferred(Transferred(balance, from, vault[input], amount_in),
                                  vault[output], to, amount_out)
        /\ fees' = [fees EXCEPT ![pool]["protocol"][input] = @ + result.protocol_fee,
                                ![pool]["fund"][input] = @ + result.fund_fee]
        /\ observed' = [observed EXCEPT ![observation] = @ \cup {pool}]
        /\ signer' = payer
        /\ UNCHANGED <<mint_supply, lp_supply, status>>

SwapBaseInput(payer, pool, config, input, vault, observation, from, to, amount_in) ==
    Swap(payer, pool, input, vault, observation, from, to,
         swap_base_input(amount_in, vault_amount_without_fee(pool, vault, input),
                         vault_amount_without_fee(pool, vault, 1 - input),
                         ConfigData[config]))

SwapBaseOutput(payer, pool, config, input, vault, observation, from, to, amount_out) ==
    LET total_output == vault_amount_without_fee(pool, vault, 1 - input)
    IN  /\ swap_base_output_defined(amount_out, total_output)
        /\ Swap(payer, pool, input, vault, observation, from, to,
                swap_base_output(amount_out, vault_amount_without_fee(pool, vault, input),
                                 total_output, ConfigData[config]))

\* Either collection, for its kind of fee.
CollectFee(owner, pool, vault, kind, account, requested) ==
    LET amount(s) == min_of(requested, fees[pool][kind][s])
    IN  /\ \A s \in Sides : transfer_accepts(vault[s], account[s], Authority, amount(s))
        /\ balance' = Transferred(Transferred(balance, vault[0], account[0], amount(0)),
                                  vault[1], account[1], amount(1))
        /\ fees' = [fees EXCEPT ![pool][kind] = [s \in Sides |-> fees[pool][kind][s] - amount(s)]]
        /\ signer' = owner
        /\ UNCHANGED <<mint_supply, lp_supply, status, observed>>

UpdatePoolStatus(authority, pool, new_status) ==
    /\ authority = Admin
    /\ status' = [status EXCEPT ![pool] = new_status]
    /\ signer' = authority
    /\ UNCHANGED <<balance, mint_supply, lp_supply, fees, observed>>

----------------------------------------------------------------------------
\* Somebody passes accounts that satisfy the constraints of an instruction.
DepositWithAnyAccounts ==
    \E owner \in Keys, pool \in Pools, lp_amount \in LpAmounts :
        \E lp_token \in accounts_of(owner), mint \in lp_mint_of(pool), vault \in vaults_of(pool) :
            \E account \in deposit_accounts(owner, vault) :
                Deposit(owner, pool, vault, mint, lp_token, account, lp_amount)

WithdrawWithAnyAccounts ==
    \E owner \in Keys, pool \in Pools, lp_amount \in LpAmounts :
        \E lp_token \in accounts_of(owner), mint \in lp_mint_of(pool), vault \in vaults_of(pool) :
            \E account \in withdraw_accounts(vault) :
                Withdraw(owner, pool, vault, mint, lp_token, account, lp_amount)

SwapWithAnyAccounts ==
    \E payer \in Keys, pool \in Pools, input \in Sides, amount \in TokenAmounts :
        \E config \in config_of(pool), vault \in [Sides -> swap_vault_of(pool)],
           observation \in observation_of(pool) :
            \E from \in accounts_of(payer), to \in TokenAccounts :
                \/ SwapBaseInput(payer, pool, config, input, vault, observation, from, to, amount)
                \/ SwapBaseOutput(payer, pool, config, input, vault, observation, from, to, amount)

CollectWithAnyAccounts ==
    \E pool \in Pools, requested \in Requests, kind \in Kinds :
        \E vault \in vaults_of(pool), config \in config_of(pool) :
            \E owner \in collectors(config, kind), account \in recipients(vault) :
                CollectFee(owner, pool, vault, kind, account, requested)

Next ==
    \/ DepositWithAnyAccounts
    \/ WithdrawWithAnyAccounts
    \/ SwapWithAnyAccounts
    \/ CollectWithAnyAccounts
    \/ \E authority \in Keys, pool \in Pools, new_status \in Statuses :
          UpdatePoolStatus(authority, pool, new_status)

Spec == Init /\ [][Next]_vars

----------------------------------------------------------------------------
\* Every account has the type of its struct.
TypeOK ==
    /\ balance \in [TokenAccounts -> Nat]
    /\ mint_supply \in [Pools -> Nat]
    /\ lp_supply \in [Pools -> Nat]
    /\ fees \in [Pools -> [Kinds -> [Sides -> Nat]]]
    /\ status \in [Pools -> SUBSET StatusBits]
    /\ observed \in [Pools -> SUBSET Pools]
    /\ signer \in Keys

\* Whatever mint is passed to deposit and withdraw, every pool counts the LP tokens
\* of its own mint: all that exist and the locked ones.
LpTokensCounted == \A p \in Pools : lp_supply[p] >= mint_supply[p] + LOCK_LP_AMOUNT

\* What an instruction may do to a pool it was not called for: give it tokens.
Untouched(q) ==
    /\ \A s \in Sides : balance'[token_vault[q][s]] >= balance[token_vault[q][s]]
    /\ mint_supply'[q] = mint_supply[q]
    /\ lp_supply'[q] = lp_supply[q]
    /\ fees'[q] = fees[q]
    /\ status'[q] = status[q]
    /\ observed'[q] = observed[q]

\* No combination of accounts makes an instruction take tokens from the vaults of
\* two pools, or from one while it books on another, although one address signs
\* for all vaults and mints; and no price of a pool reaches another's oracle.
OnlyOnePool == [][\E p \in Pools : \A q \in Pools \ {p} : Untouched(q)]_vars

\* Nobody but the fee owner of the pool's own config, and the admin, lowers what the
\* pool owes: being the owner in another config does not help.
OnlyOwnersCollect ==
    [][\A p \in Pools, k \in Kinds, s \in Sides :
          fees'[p][k][s] < fees[p][k][s] => signer' \in collectors(amm_config[p], k)]_vars

\* Each pool keeps the promise of PoolLedger while the others trade, and are
\* traded in: LP tokens of one pool may lie in the vaults of another.
Ledger(p) == INSTANCE PoolLedger
                 WITH shares   <- lp_supply[p],
                      reserve  <- [s \in Sides |-> balance[token_vault[p][s]] - owed(p, s)],
                      protocol <- fees[p]["protocol"],
                      fund     <- fees[p]["fund"]

EachPoolKeepsLedger == [][\A p \in Pools : [Ledger(p)!Next]_(Ledger(p)!ledger)]_vars
============================================================================
