-------------------------------- MODULE Pool --------------------------------
(***************************************************************************)
(* One constant-product pool: its PoolState account, its two vaults, its   *)
(* LP mint and its price oracle, under every instruction of the program    *)
(* that touches them (instructions/*.rs), and under what the rest of the   *)
(* chain does to the same accounts: time passes, LP tokens are burnt by    *)
(* their holders, tokens are sent straight to a vault.                     *)
(*                                                                         *)
(* One instruction is one action.  The chain runs instructions that write  *)
(* the same accounts one after the other and undoes one that fails, so a   *)
(* require!, an error or a panic is a guard.                               *)
(*                                                                         *)
(* TokenSupply[s] is how much of a token exists, at most u64::MAX in the   *)
(* program.  What is not in the vault is somebody else's to spend.  Checked *)
(* additions in the code that could only overflow for tokens that do not   *)
(* exist need no guard of their own.                                       *)
(***************************************************************************)
EXTENDS AmmConfig, TransferFee, ObservationRing

CONSTANTS
    LOCK_LP_AMOUNT,            \* LP tokens of the first deposit nobody gets, 100
    Q32,                       \* fixed-point scale of prices, 2^32
    FeeReceiverIsTokenAccount, \* create_pool_fee_reveiver::ID is a wrapped-SOL account
    EPOCH_LENGTH,              \* seconds per epoch
    TokenSupply,               \* tokens in existence, per side
    MintFees,                  \* transfer fee configuration of the two mints
    TokenAmounts,              \* token amounts passed to instructions
    LpAmounts,                 \* LP amounts passed to instructions
    Requests,                  \* amounts requested of a fee collection
    Maxima, Minima,            \* slippage limits passed to instructions
    OpenTimes,                 \* opening times passed to initialize
    Statuses,                  \* statuses the admin sets
    MaxTime                    \* bound on the clock

StatusBits == {"Deposit", "Withdraw", "Swap"}

MintFeeConfig == [ older: TransferFeeType, newer: TransferFeeType, newer_epoch: Nat ]

ASSUME PoolAssumption ==
    /\ LOCK_LP_AMOUNT \in Nat \ {0}
    /\ Q32 \in Nat
    /\ FeeReceiverIsTokenAccount \in BOOLEAN
    /\ EPOCH_LENGTH \in Nat \ {0}
    /\ TokenSupply \in [Side -> Nat]
    /\ MintFees \in [Side -> MintFeeConfig]
    /\ TokenAmounts \subseteq Nat
    /\ LpAmounts \subseteq Nat
    /\ Requests \subseteq Nat
    /\ Maxima \subseteq Nat
    /\ Minima \subseteq Nat
    /\ OpenTimes \subseteq Nat
    /\ Statuses \subseteq SUBSET StatusBits
    /\ MaxTime \in Nat

VARIABLES
    created,                   \* the pool exists
    vault,                     \* token balances of the two vaults
    protocol_fees, fund_fees,  \* what the pool owes protocol and fund, per side
    lp_supply,                 \* LP tokens as PoolState counts them
    lp_mint_supply,            \* LP tokens as the mint counts them
    status,                    \* the bits that are set: what is disabled
    open_time, recent_epoch,
    observation_state,
    now                        \* the chain's clock

fee_vars    == <<protocol_fees, fund_fees>>
lp_vars     == <<lp_supply, lp_mint_supply>>
pool_vars   == <<created, vault, protocol_fees, fund_fees, lp_supply, lp_mint_supply,
                 status, open_time, recent_epoch, observation_state>>
vars        == <<amm_config, now, pool_vars>>

epoch == now \div EPOCH_LENGTH

----------------------------------------------------------------------------
(***************************************************************************)
(* PoolState's methods.                                                    *)
(***************************************************************************)
\* bit0, bit1, bit2 set: deposit, withdraw, swap disabled.
get_status_by_bit(bit) == bit \notin status

\* What of a vault belongs to the LP holders.
vault_amount_without_fee(s) == vault[s] - (protocol_fees[s] + fund_fees[s])

\* The checked_sub in vault_amount_without_fee panics otherwise.
VaultsCoverFees == \A s \in Side : protocol_fees[s] + fund_fees[s] <= vault[s]

token_price_x32(s) ==
    (vault_amount_without_fee(1 - s) * Q32) \div vault_amount_without_fee(s)

\* The division in token_price_x32 panics otherwise.
ReservesNotEmpty == \A s \in Side : vault_amount_without_fee(s) > 0

----------------------------------------------------------------------------
(***************************************************************************)
(* The token program.  A transfer of amount credits it less the mint's     *)
(* fee of the epoch; the fee is withheld in the recipient's account.       *)
(***************************************************************************)
epoch_fee(s) == get_epoch_fee(MintFees[s], epoch)

\* transfer_from_user_to_pool_vault: somebody holds amount, the vault gets less.
UserHolds(s, amount) == amount <= TokenSupply[s] - vault[s]
CreditedToVault(s, amount) == amount - get_transfer_fee(epoch_fee(s), amount)

\* transfer_from_pool_vault_to_user: what leaves vault s.  No handler checks that
\* the recipient is not the vault itself, to which a transfer is a no-op; outside
\* holds the sides whose recipient is another account.
LeavesVault(s, amount, outside) == IF s \in outside THEN amount ELSE 0

----------------------------------------------------------------------------
Init ==
    /\ ConfigInit
    /\ created = FALSE
    /\ vault = [s \in Side |-> 0]
    /\ protocol_fees = [s \in Side |-> 0]
    /\ fund_fees = [s \in Side |-> 0]
    /\ lp_supply = 0
    /\ lp_mint_supply = 0
    /\ status = {}
    /\ open_time = 0
    /\ recent_epoch = 0
    /\ observation_state = EmptyObservationState
    /\ now = 0

\* MUTANT of IsIntegerSqrt: rounds up.
IsSqrtRoundedUp(root, n) == n <= root * root /\ (root = 0 \/ (root - 1) * (root - 1) < n)

\* integer_sqrt rounds down.
IsIntegerSqrt(root, n) == root * root <= n /\ n < (root + 1) * (root + 1)

\* MUTANT of minted_to_creator: nothing is locked.
all_minted_to_creator(liquidity) == liquidity

\* The locked part of the first LP tokens is counted but never minted.
minted_to_creator(liquidity) == liquidity - LOCK_LP_AMOUNT

(***************************************************************************)
(* initialize: anyone creates the pool, unless the config forbids it.  The *)
(* LP supply is the integer square root of what the vaults received; the   *)
(* creator gets all of it but the locked part.  The creation fee goes to   *)
(* an account that sync_native accepts only if it holds wrapped SOL.       *)
(***************************************************************************)
Initialize(init_amount, opening) ==
    LET received == [s \in Side |-> CreditedToVault(s, init_amount[s])]
    IN  /\ ~created
        /\ amm_config.exists
        /\ ~amm_config.disable_create_pool
        /\ \A s \in Side : UserHolds(s, init_amount[s])
        /\ validate_supply(received[0], received[1])
        /\ \E liquidity \in 0..received[0] * received[1] :
              /\ IsIntegerSqrt(liquidity, received[0] * received[1])
              /\ liquidity >= LOCK_LP_AMOUNT
              /\ lp_supply' = liquidity
              /\ lp_mint_supply' = minted_to_creator(liquidity)
        /\ amm_config.create_pool_fee # 0 => FeeReceiverIsTokenAccount
        /\ created' = TRUE
        /\ vault' = received
        /\ open_time' = IF opening <= now THEN now + 1 ELSE opening
        /\ recent_epoch' = epoch
        /\ UNCHANGED <<fee_vars, status, observation_state, now, amm_config>>

(***************************************************************************)
(* deposit: lp_amount LP tokens for a share of both reserves rounded up.   *)
(* The user pays the mint's fee on top, so that the vault gets the share.  *)
(***************************************************************************)
Deposit(lp_amount, maximum) ==
    LET amount   == [s \in Side |-> lp_tokens_to_trading_token(lp_amount, lp_supply,
                                        vault_amount_without_fee(s), "Ceiling")]
        transfer == [s \in Side |-> amount[s]
                                      + get_transfer_inverse_fee(epoch_fee(s), amount[s])]
    IN  /\ created
        /\ lp_amount > 0
        /\ get_status_by_bit("Deposit")
        /\ VaultsCoverFees
        /\ \A s \in Side :
              /\ amount[s] # 0
              /\ get_transfer_inverse_fee_defined(epoch_fee(s), amount[s])
              /\ transfer[s] <= maximum[s]
              /\ UserHolds(s, transfer[s])
        /\ vault' = [s \in Side |-> vault[s] + CreditedToVault(s, transfer[s])]
        /\ lp_supply' = lp_supply + lp_amount
        /\ lp_mint_supply' = lp_mint_supply + lp_amount
        /\ recent_epoch' = epoch
        /\ UNCHANGED <<created, fee_vars, status, open_time, observation_state, now,
                       amm_config>>

(***************************************************************************)
(* withdraw: a share of both reserves rounded down for lp_amount LP        *)
(* tokens, which are burnt.                                                *)
(***************************************************************************)
Withdraw(lp_amount, minimum, outside) ==
    LET amount == [s \in Side |->
                      Lesser(vault_amount_without_fee(s),
                             lp_tokens_to_trading_token(lp_amount, lp_supply,
                                 vault_amount_without_fee(s), "Floor"))]
        receive == [s \in Side |-> amount[s] - get_transfer_fee(epoch_fee(s), amount[s])]
    IN  /\ created
        /\ lp_amount > 0
        /\ lp_mint_supply > 0
        /\ get_status_by_bit("Withdraw")
        /\ VaultsCoverFees
        /\ \A s \in Side : amount[s] # 0 /\ receive[s] >= minimum[s]
        /\ lp_amount <= lp_supply
        /\ lp_amount <= lp_mint_supply
        /\ lp_supply' = lp_supply - lp_amount
        /\ lp_mint_supply' = lp_mint_supply - lp_amount
        /\ vault' = [s \in Side |-> vault[s] - LeavesVault(s, amount[s], outside)]
        /\ recent_epoch' = epoch
        /\ UNCHANGED <<created, fee_vars, status, open_time, observation_state, now,
                       amm_config>>

\* MUTANT of SwapAllowed: the opening time is not checked.
SwapAllowedEarly == created /\ get_status_by_bit("Swap") /\ VaultsCoverFees /\ ReservesNotEmpty

(***************************************************************************)
(* Both swaps.  input is the side of the input vault; the handlers reject  *)
(* any other pair of vaults.                                               *)
(***************************************************************************)
SwapAllowed ==
    /\ created
    /\ get_status_by_bit("Swap")
    /\ now >= open_time
    /\ VaultsCoverFees
    /\ ReservesNotEmpty

\* The common end of both handlers: the constant must not fall, the fees are
\* booked on the input token, the tokens move, the price before the swap is
\* offered to the oracle.
FinishSwap(input, result, amount_in, amount_out, outside) ==
    LET output == 1 - input
    IN  /\ constant_after(result) >=
              vault_amount_without_fee(input) * vault_amount_without_fee(output)
        /\ UserHolds(input, amount_in)
        /\ amount_out <= vault[output]
        /\ protocol_fees' = [protocol_fees EXCEPT ![input] = @ + result.protocol_fee]
        /\ fund_fees' = [fund_fees EXCEPT ![input] = @ + result.fund_fee]
        /\ vault' = [vault EXCEPT ![input] = @ + CreditedToVault(input, amount_in),
                                  ![output] = @ - LeavesVault(output, amount_out, outside)]
        /\ observation_state' = update(observation_state, now,
                                       [s \in Side |-> token_price_x32(s)])
        /\ recent_epoch' = epoch
        /\ UNCHANGED <<created, lp_vars, status, open_time, now, amm_config>>

SwapBaseInput(input, amount_in, minimum_amount_out, outside) ==
    LET output == 1 - input
        actual_amount_in == CreditedToVault(input, amount_in)
        result == swap_base_input(actual_amount_in, vault_amount_without_fee(input),
                                  vault_amount_without_fee(output), amm_config)
        amount_out == result.destination_amount_swapped
        amount_received == amount_out - get_transfer_fee(epoch_fee(output), amount_out)
    IN  /\ SwapAllowed
        /\ actual_amount_in > 0
        /\ amount_received > 0
        /\ amount_received >= minimum_amount_out
        /\ FinishSwap(input, result, amount_in, amount_out, outside)

SwapBaseOutput(input, max_amount_in, amount_out_less_fee, outside) ==
    LET output == 1 - input
        actual_amount_out == amount_out_less_fee
            + get_transfer_inverse_fee(epoch_fee(output), amount_out_less_fee)
        result == swap_base_output(actual_amount_out, vault_amount_without_fee(input),
                                   vault_amount_without_fee(output), amm_config)
        source == result.source_amount_swapped
        amount_in == source + get_transfer_inverse_fee(epoch_fee(input), source)
    IN  /\ SwapAllowed
        /\ amount_out_less_fee > 0
        /\ get_transfer_inverse_fee_defined(epoch_fee(output), amount_out_less_fee)
        /\ swap_base_output_defined(actual_amount_out, vault_amount_without_fee(output))
        /\ source > 0
        /\ get_transfer_inverse_fee_defined(epoch_fee(input), source)
        /\ max_amount_in >= amount_in
        /\ FinishSwap(input, result, amount_in, actual_amount_out, outside)

(***************************************************************************)
(* Fee collection: the smaller of what is requested and what is owed.      *)
(***************************************************************************)
CollectProtocolFee(owner, requested, outside) ==
    LET amount == [s \in Side |-> Lesser(requested[s], protocol_fees[s])]
    IN  /\ created
        /\ owner \in {amm_config.protocol_owner, Admin}
        /\ \A s \in Side : amount[s] <= vault[s]
        /\ protocol_fees' = [s \in Side |-> protocol_fees[s] - amount[s]]
        /\ vault' = [s \in Side |-> vault[s] - LeavesVault(s, amount[s], outside)]
        /\ recent_epoch' = epoch
        /\ UNCHANGED <<created, fund_fees, lp_vars, status, open_time, observation_state,
                       now, amm_config>>

\* MUTANT of CollectFundFee: what was paid out is not taken off the books.
CollectFundFeeUnbooked(owner, requested, outside) ==
    LET amount == [s \in Side |-> Lesser(requested[s], fund_fees[s])]
    IN  /\ created
        /\ owner \in {amm_config.fund_owner, Admin}
        /\ \A s \in Side : amount[s] <= vault[s]
        /\ vault' = [s \in Side |-> vault[s] - LeavesVault(s, amount[s], outside)]
        /\ recent_epoch' = epoch
        /\ UNCHANGED <<created, fee_vars, lp_vars, status, open_time, observation_state,
                       now, amm_config>>

CollectFundFee(owner, requested, outside) ==
    LET amount == [s \in Side |-> Lesser(requested[s], fund_fees[s])]
    IN  /\ created
        /\ owner \in {amm_config.fund_owner, Admin}
        /\ \A s \in Side : amount[s] <= vault[s]
        /\ fund_fees' = [s \in Side |-> fund_fees[s] - amount[s]]
        /\ vault' = [s \in Side |-> vault[s] - LeavesVault(s, amount[s], outside)]
        /\ recent_epoch' = epoch
        /\ UNCHANGED <<created, protocol_fees, lp_vars, status, open_time,
                       observation_state, now, amm_config>>

UpdatePoolStatus(authority, new_status) ==
    /\ created
    /\ authority = Admin
    /\ status' = new_status
    /\ recent_epoch' = epoch
    /\ UNCHANGED <<created, vault, fee_vars, lp_vars, open_time, observation_state, now,
                   amm_config>>

----------------------------------------------------------------------------
(***************************************************************************)
(* What others do to the pool's accounts (external).                       *)
(***************************************************************************)
\* A holder burns LP tokens with the token program; the pool is not told.
BurnLp(lp_amount) ==
    /\ created
    /\ lp_amount <= lp_mint_supply
    /\ lp_mint_supply' = lp_mint_supply - lp_amount
    /\ UNCHANGED <<amm_config, now, created, vault, fee_vars, lp_supply, status, open_time,
                   recent_epoch, observation_state>>

\* Somebody transfers tokens to a vault without an instruction of the program.
SendToVault(s, amount) ==
    /\ created
    /\ UserHolds(s, amount)
    /\ vault' = [vault EXCEPT ![s] = @ + CreditedToVault(s, amount)]
    /\ UNCHANGED <<amm_config, now, created, fee_vars, lp_vars, status, open_time,
                   recent_epoch, observation_state>>

\* The clock moves on, up to the bound.
Tick ==
    /\ now < MaxTime
    /\ now' = now + 1
    /\ UNCHANGED <<amm_config, pool_vars>>

----------------------------------------------------------------------------
Next ==
    \/ ConfigNext /\ UNCHANGED <<now, pool_vars>>
    \/ \E init_amount \in [Side -> TokenAmounts], opening \in OpenTimes :
          Initialize(init_amount, opening)
    \/ \E lp_amount \in LpAmounts, maximum \in [Side -> Maxima] :
          Deposit(lp_amount, maximum)
    \/ \E lp_amount \in LpAmounts, minimum \in [Side -> Minima], outside \in SUBSET Side :
          Withdraw(lp_amount, minimum, outside)
    \/ \E input \in Side, amount_in \in TokenAmounts, minimum_amount_out \in Minima :
          \E outside \in SUBSET {1 - input} :
              SwapBaseInput(input, amount_in, minimum_amount_out, outside)
    \/ \E input \in Side, max_amount_in \in Maxima, amount_out_less_fee \in TokenAmounts :
          \E outside \in SUBSET {1 - input} :
              SwapBaseOutput(input, max_amount_in, amount_out_less_fee, outside)
    \/ \E owner \in Keys, requested \in [Side -> Requests], outside \in SUBSET Side :
          CollectProtocolFee(owner, requested, outside)
    \/ \E owner \in Keys, requested \in [Side -> Requests], outside \in SUBSET Side :
          CollectFundFee(owner, requested, outside)
    \/ \E authority \in Keys, new_status \in Statuses :
          UpdatePoolStatus(authority, new_status)
    \/ \E lp_amount \in LpAmounts : BurnLp(lp_amount)
    \/ \E s \in Side, amount \in TokenAmounts : SendToVault(s, amount)
    \/ Tick

Spec == Init /\ [][Next]_vars

----------------------------------------------------------------------------
(***************************************************************************)
(* What must hold.                                                         *)
(***************************************************************************)
\* Every account field has the type of its struct.
TypeOK ==
    /\ ConfigTypeOK
    /\ created \in BOOLEAN
    /\ vault \in [Side -> Nat]
    /\ protocol_fees \in [Side -> Nat]
    /\ fund_fees \in [Side -> Nat]
    /\ lp_supply \in Nat
    /\ lp_mint_supply \in Nat
    /\ status \in SUBSET StatusBits
    /\ open_time \in Nat
    /\ recent_epoch \in Nat
    /\ observation_state \in ObservationState
    /\ now \in Nat

\* Whatever the order of swaps, deposits, withdrawals, collections, rate changes
\* and fee-epoch changes, each vault holds what the pool owes to protocol and
\* fund: the unwrap in vault_amount_without_fee never panics (it would lock the
\* pool), and a collection never fails for lack of tokens.
Solvent == VaultsCoverFees

\* The LP supply never exceeds the geometric mean of the reserves.  Hence no
\* reserve of a created pool is ever emptied, the divisions by the reserves and by
\* lp_supply never panic, and lp_supply fits its u64 whenever the tokens do.
LpSupplyBacked ==
    lp_supply * lp_supply <= vault_amount_without_fee(0) * vault_amount_without_fee(1)

\* The pool counts at least the LP tokens that exist plus the locked ones, even
\* when holders burn theirs behind its back: the checked_sub in withdraw never
\* panics for a holder, and no withdrawal takes the locked share.
LpSupplyCoversMint == created => lp_supply >= lp_mint_supply + LOCK_LP_AMOUNT

\* Before the pool exists nobody is owed anything and there is no LP token.
NothingBeforeCreation ==
    ~created =>
        /\ lp_supply = 0
        /\ \A s \in Side : protocol_fees[s] = 0 /\ fund_fees[s] = 0

\* The inductive invariant of the accounts: solvency alone is not inductive, it needs
\* that the rates share out no more than the trading fee, that a new pool starts
\* without debts, and that lp_supply is not zero in a created pool.
AccountInv ==
    /\ TypeOK
    /\ RatesStayAllowed
    /\ NothingBeforeCreation
    /\ Solvent
    /\ LpSupplyCoversMint

\* The product of the reserves per squared LP token: r0 * r1 / s^2 before and
\* after, compared without division.
ShareValueKept ==
    vault_amount_without_fee(0)' * vault_amount_without_fee(1)' * (lp_supply * lp_supply)
        >= vault_amount_without_fee(0) * vault_amount_without_fee(1)
               * (lp_supply' * lp_supply')

\* No instruction, in any order, makes an LP token worth less: not a deposit or a
\* withdrawal at an unlucky rounding, not a swap of a fee-charging token, not a
\* fee collection or a change of rates in between.
ShareValueNeverFalls == [][created => ShareValueKept]_vars

\* An LP deposit credits each vault with exactly the share the curve asked for,
\* whatever the mint's fee and its maximum: the inverse fee neither short-changes
\* the holders nor overcharges the depositor.
DepositCreditsExactShare ==
    [][created /\ lp_supply' > lp_supply =>
          \A s \in Side :
              vault'[s] - vault[s] =
                  lp_tokens_to_trading_token(lp_supply' - lp_supply, lp_supply,
                      vault_amount_without_fee(s), "Ceiling")]_vars

\* The pool keeps the promise of PoolLedger: the LP holders own what the vaults
\* hold beyond the fees owed.
Ledger == INSTANCE PoolLedger
              WITH shares   <- lp_supply,
                   reserve  <- [s \in Side |-> vault_amount_without_fee(s)],
                   protocol <- protocol_fees,
                   fund     <- fund_fees

\* Every instruction is a transaction the ledger allows, or invisible to it: joining
\* and leaving dilute nobody in either token, a trade books fees in its input token
\* only and never shrinks the product, a collection takes nothing from the holders.
KeepsLedger == Ledger!Spec

\* The oracle learns nothing before the pool opens and nothing of the future,
\* although the swaps that feed it check the time and the oracle does not.
ObservationsInOpenTime ==
    observation_state.initialized =>
        LET newest == Newest(observation_state).block_timestamp
        IN  open_time <= newest /\ newest <= now
============================================================================
