----------------------------- MODULE PoolProofs -----------------------------
(***************************************************************************)
(* What holds of a pool for every fee denominator, transfer fee, token     *)
(* supply, epoch length, ring size and input: its accounts are typed, it   *)
(* can always pay the fees it owes, and it keeps the promises of           *)
(* PoolLedger: no step makes an LP token worth less, the LP supply stays   *)
(* backed, and every step is a transaction of the ledger or none.          *)
(*                                                                         *)
(* AccountInv is inductive.  Each action has a lemma; both swaps share     *)
(* CurveSwap: they credit the input vault with what the curve took as      *)
(* source and send at most the reserve.                                    *)
(*                                                                         *)
(* Deposits, withdrawals, collections and gifts dilute neither token       *)
(* (NoDilution).  A swap does, so it has an argument of its own, from the  *)
(* comparison of the constants in the handlers.                            *)
(***************************************************************************)
EXTENDS Pool, CurveProofs, AmmConfigProofs

(***************************************************************************)
(* Parts of a state.                                                       *)
(***************************************************************************)
\* The other side of a pair is a side.
LEMMA OtherSide ==
    ASSUME NEW s \in Side
    PROVE  1 - s \in Side /\ 1 - s # s
  BY DEF Side

\* The fee of the epoch is one of the mint's two fees.
LEMMA EpochFeeType ==
    ASSUME NEW s \in Side
    PROVE  epoch_fee(s) \in TransferFeeType
<1>1. /\ MintFees[s].older \in TransferFeeType
      /\ MintFees[s].newer \in TransferFeeType
  BY PoolAssumption DEF MintFeeConfig
<1> QED
  BY <1>1 DEF epoch_fee, get_epoch_fee

\* A transfer credits a vault with at most the amount.
LEMMA CreditType ==
    ASSUME NEW s \in Side, NEW amount \in Nat
    PROVE  /\ CreditedToVault(s, amount) \in Nat
           /\ CreditedToVault(s, amount) <= amount
<1>1. epoch_fee(s) \in TransferFeeType
  BY EpochFeeType
<1>2. /\ get_transfer_fee(epoch_fee(s), amount) \in Nat
      /\ get_transfer_fee(epoch_fee(s), amount) <= amount
  BY <1>1, TransferFeeAtMost
<1> QED
  BY <1>2 DEF CreditedToVault

\* What is sent with the inverse fee on top is credited in full.
LEMMA GrossIsCredited ==
    ASSUME NEW s \in Side, NEW amount \in Nat,
           get_transfer_inverse_fee_defined(epoch_fee(s), amount)
    PROVE  LET gross == amount + get_transfer_inverse_fee(epoch_fee(s), amount)
           IN  gross \in Nat /\ CreditedToVault(s, gross) = amount
<1>1. epoch_fee(s) \in TransferFeeType
  BY EpochFeeType
<1>2. LET inverse == get_transfer_inverse_fee(epoch_fee(s), amount)
      IN  /\ inverse \in Nat
          /\ get_transfer_fee(epoch_fee(s), amount + inverse) = inverse
  BY <1>1, InverseFeeCredited
<1> QED
  BY <1>2 DEF CreditedToVault

\* The epoch is a natural number.
LEMMA EpochType ==
    ASSUME now \in Nat
    PROVE  epoch \in Nat
  BY PoolAssumption, DivBounds DEF epoch

\* In a solvent pool the reserves are natural numbers, no larger than the vaults.
LEMMA ReserveType ==
    ASSUME TypeOK, Solvent, NEW s \in Side
    PROVE  /\ vault_amount_without_fee(s) \in Nat
           /\ vault_amount_without_fee(s) <= vault[s]
           /\ vault[s] = vault_amount_without_fee(s) + protocol_fees[s] + fund_fees[s]
  BY DEF TypeOK, Solvent, VaultsCoverFees, vault_amount_without_fee

\* The oracle account stays typed.
LEMMA ObservationType ==
    ASSUME NEW state \in ObservationState, NEW time \in Nat, NEW price \in [Side -> Nat]
    PROVE  update(state, time, price) \in ObservationState
<1> DEFINE index == state.observation_index
           last  == state.observations[index]
           next  == next_observation_index(index)
<1>1. index \in Slots /\ last \in Observation /\ next \in Slots
  BY ObservationAssumption
  DEF ObservationState, Slots, next_observation_index
<1>2. EmptyObservation \in Observation
  BY ObservationAssumption DEF EmptyObservation, Observation
<1>3. [EmptyObservation EXCEPT !.block_timestamp = time] \in Observation
  BY <1>2 DEF Observation
<1>4. NextObservation(last, time, price) \in Observation
  <2>1. saturating_sub(time, last.block_timestamp) \in Nat
    BY <1>1 DEF saturating_sub, Observation
  <2>2. ASSUME NEW s \in Side
        PROVE  (last.cumulative_token_price_x32[s]
                  + price[s] * saturating_sub(time, last.block_timestamp)) % U128_RANGE
                    \in 0..U128_RANGE - 1
    <3>1. last.cumulative_token_price_x32[s] \in Nat
      BY <1>1, ObservationAssumption DEF Observation
    <3>2. price[s] * saturating_sub(time, last.block_timestamp) \in Nat
      BY <2>1
    <3> QED
      BY <3>1, <3>2, ObservationAssumption
  <2> QED
    BY <2>2 DEF NextObservation, Observation
<1> HIDE DEF index, last, next
<1>5. ASSUME ~state.initialized
      PROVE  update(state, time, price) \in ObservationState
  BY <1>1, <1>3, <1>5 DEF update, ObservationState, index
<1>6. ASSUME NEW obs \in Observation
      PROVE  [state EXCEPT !.observation_index = next, !.observations[next] = obs]
                 \in ObservationState
  BY <1>1 DEF ObservationState
<1> QED
  BY <1>4, <1>5, <1>6 DEF update, index, last, next

(***************************************************************************)
(* Initially, and when only the config or the clock moves.                 *)
(***************************************************************************)
\* Nothing is owed at the start.
LEMMA AccountInvInit ==
    ASSUME Init
    PROVE  AccountInv
<1>1. ConfigTypeOK /\ RatesStayAllowed
  BY ConfigInitially DEF Init
<1>2. observation_state \in ObservationState
  BY ObservationAssumption
  DEF Init, EmptyObservationState, EmptyObservation, ObservationState, Observation, Slots
<1>3. TypeOK
  BY <1>1, <1>2 DEF Init, TypeOK
<1>4. NothingBeforeCreation /\ Solvent /\ LpSupplyCoversMint
  BY DEF Init, NothingBeforeCreation, Solvent, VaultsCoverFees, LpSupplyCoversMint
<1> QED
  BY <1>1, <1>3, <1>4 DEF AccountInv

\* A change of the config leaves the pool's accounts alone.
LEMMA ConfigAccountInv ==
    ASSUME AccountInv, ConfigNext, UNCHANGED <<now, pool_vars>>
    PROVE  AccountInv'
<1>1. ConfigTypeOK' /\ RatesStayAllowed'
  BY ConfigStep DEF AccountInv, TypeOK
<1> QED
  BY <1>1
  DEF AccountInv, TypeOK, pool_vars, NothingBeforeCreation, Solvent, VaultsCoverFees,
      LpSupplyCoversMint

\* The rates depend on the config alone.
LEMMA ConfigUnchanged ==
    ASSUME ConfigTypeOK, RatesStayAllowed, UNCHANGED amm_config
    PROVE  ConfigTypeOK' /\ RatesStayAllowed'
  BY DEF ConfigTypeOK, RatesStayAllowed

(***************************************************************************)
(* The instructions.                                                       *)
(***************************************************************************)
\* The LP supply starts at no less than the locked amount.
LEMMA InitializeAccountInv ==
    ASSUME AccountInv, NEW init_amount \in [Side -> Nat], NEW opening \in Nat,
           Initialize(init_amount, opening)
    PROVE  AccountInv'
<1> DEFINE received == [s \in Side |-> CreditedToVault(s, init_amount[s])]
<1>1. \A s \in Side : received[s] \in Nat
  BY CreditType, PoolAssumption
<1>2. PICK liquidity \in 0..received[0] * received[1] :
         /\ liquidity >= LOCK_LP_AMOUNT
         /\ lp_supply' = liquidity
         /\ lp_mint_supply' = liquidity - LOCK_LP_AMOUNT
  BY DEF Initialize, minted_to_creator
<1>3. lp_supply' \in Nat /\ lp_mint_supply' \in Nat
  BY <1>2, PoolAssumption
<1>4. vault' \in [Side -> Nat]
  BY <1>1 DEF Initialize
<1>5. \A s \in Side : protocol_fees[s] = 0 /\ fund_fees[s] = 0
  BY DEF Initialize, AccountInv, NothingBeforeCreation
<1>6. open_time' \in Nat /\ recent_epoch' \in Nat
  BY EpochType, PoolAssumption DEF Initialize, AccountInv, TypeOK
<1>7. Solvent'
  BY <1>4, <1>5 DEF Initialize, Solvent, VaultsCoverFees, fee_vars
<1>8. LpSupplyCoversMint'
  BY <1>2, PoolAssumption DEF LpSupplyCoversMint
<1>9. TypeOK'
  BY <1>3, <1>4, <1>6, ConfigUnchanged DEF Initialize, AccountInv, TypeOK, fee_vars
<1> QED
  BY <1>7, <1>8, <1>9, ConfigUnchanged
  DEF Initialize, AccountInv, NothingBeforeCreation, TypeOK

\* A deposit only adds to the vaults.
LEMMA DepositAccountInv ==
    ASSUME AccountInv, NEW lp_amount \in Nat, NEW maximum \in [Side -> Nat],
           Deposit(lp_amount, maximum)
    PROVE  AccountInv'
<1> DEFINE amount == [s \in Side |-> lp_tokens_to_trading_token(lp_amount, lp_supply,
                                         vault_amount_without_fee(s), "Ceiling")]
           transfer == [s \in Side |-> amount[s]
                                    + get_transfer_inverse_fee(epoch_fee(s), amount[s])]
<1>1. lp_amount \in Nat /\ lp_supply \in Nat \ {0} /\ created
  BY PoolAssumption DEF Deposit, AccountInv, TypeOK, LpSupplyCoversMint
<1>2. \A s \in Side : amount[s] \in Nat
  BY <1>1, ReserveType, ShareType DEF AccountInv
<1>3. \A s \in Side : CreditedToVault(s, transfer[s]) \in Nat
  BY <1>2, GrossIsCredited DEF Deposit
<1>4. vault' = [s \in Side |-> vault[s] + CreditedToVault(s, transfer[s])]
  BY DEF Deposit
<1> HIDE DEF amount, transfer
<1>5. vault' \in [Side -> Nat] /\ \A s \in Side : vault'[s] >= vault[s]
  BY <1>3, <1>4 DEF AccountInv, TypeOK
<1>6. recent_epoch' \in Nat
  BY EpochType DEF Deposit, AccountInv, TypeOK
<1>7. TypeOK'
  BY <1>1, <1>5, <1>6, ConfigUnchanged DEF Deposit, AccountInv, TypeOK, fee_vars
<1>8. Solvent'
  BY <1>5 DEF Deposit, AccountInv, TypeOK, Solvent, VaultsCoverFees, fee_vars
<1>9. LpSupplyCoversMint'
  BY <1>1, PoolAssumption DEF Deposit, AccountInv, TypeOK, LpSupplyCoversMint
<1> QED
  BY <1>1, <1>7, <1>8, <1>9, ConfigUnchanged
  DEF Deposit, AccountInv, NothingBeforeCreation, TypeOK

\* A withdrawal takes at most the reserves.
LEMMA WithdrawAccountInv ==
    ASSUME AccountInv, NEW lp_amount \in Nat, NEW minimum \in [Side -> Nat],
           NEW outside \in SUBSET Side, Withdraw(lp_amount, minimum, outside)
    PROVE  AccountInv'
<1> DEFINE share(s) == lp_tokens_to_trading_token(lp_amount, lp_supply,
                           vault_amount_without_fee(s), "Floor")
           amount == [s \in Side |-> Lesser(vault_amount_without_fee(s), share(s))]
<1>1. lp_amount \in Nat /\ lp_supply \in Nat \ {0} /\ created
  BY PoolAssumption DEF Withdraw, AccountInv, TypeOK, LpSupplyCoversMint
<1>2. \A s \in Side : share(s) \in Nat
  BY <1>1, ReserveType, ShareType DEF AccountInv
<1>3. \A s \in Side : amount[s] \in Nat /\ amount[s] <= vault_amount_without_fee(s)
  BY <1>2, ReserveType DEF AccountInv, Lesser
<1>4. vault' = [s \in Side |-> vault[s] - LeavesVault(s, amount[s], outside)]
  BY DEF Withdraw
<1> HIDE DEF amount
<1>5. \A s \in Side : vault'[s] \in Nat /\ vault'[s] >= protocol_fees[s] + fund_fees[s]
  BY <1>3, <1>4, ReserveType DEF AccountInv, TypeOK, LeavesVault
<1>6. recent_epoch' \in Nat
  BY EpochType DEF Withdraw, AccountInv, TypeOK
<1>7. lp_supply' \in Nat /\ lp_mint_supply' \in Nat
  BY <1>1 DEF Withdraw, AccountInv, TypeOK
<1>8. TypeOK'
  BY <1>4, <1>5, <1>6, <1>7, ConfigUnchanged DEF Withdraw, AccountInv, TypeOK, fee_vars
<1>9. Solvent'
  BY <1>5 DEF Withdraw, Solvent, VaultsCoverFees, fee_vars
<1>10. LpSupplyCoversMint'
  BY <1>1, PoolAssumption DEF Withdraw, AccountInv, TypeOK, LpSupplyCoversMint
<1> QED
  BY <1>1, <1>8, <1>9, <1>10, ConfigUnchanged
  DEF Withdraw, AccountInv, NothingBeforeCreation, TypeOK

\* Both swaps, from what they know of the curve's result: the fees booked are within
\* what the input vault is credited, the output within the output reserve.
LEMMA FinishSwapAccountInv ==
    ASSUME AccountInv, SwapAllowed, NEW input \in Side, NEW result,
           NEW amount_in \in Nat, NEW amount_out \in Nat, NEW outside \in SUBSET Side,
           result.protocol_fee \in Nat, result.fund_fee \in Nat,
           result.protocol_fee + result.fund_fee <= CreditedToVault(input, amount_in),
           amount_out <= vault_amount_without_fee(1 - input),
           FinishSwap(input, result, amount_in, amount_out, outside)
    PROVE  AccountInv'
<1> DEFINE output == 1 - input
           credit == CreditedToVault(input, amount_in)
           leaves == LeavesVault(output, amount_out, outside)
           price  == [s \in Side |-> token_price_x32(s)]
<1>1. output \in Side /\ output # input /\ \A s \in Side : s = input \/ s = output
  BY DEF Side
<1>2. credit \in Nat /\ leaves \in Nat /\ leaves <= amount_out
  BY CreditType DEF LeavesVault
<1>3. /\ vault_amount_without_fee(output) \in Nat
      /\ vault[output] = vault_amount_without_fee(output)
                            + protocol_fees[output] + fund_fees[output]
  BY <1>1, ReserveType DEF AccountInv
<1>4. /\ vault' = [vault EXCEPT ![input] = @ + credit, ![output] = @ - leaves]
      /\ protocol_fees' = [protocol_fees EXCEPT ![input] = @ + result.protocol_fee]
      /\ fund_fees' = [fund_fees EXCEPT ![input] = @ + result.fund_fee]
      /\ observation_state' = update(observation_state, now, price)
      /\ recent_epoch' = epoch
      /\ UNCHANGED <<created, lp_supply, lp_mint_supply, status, open_time, now, amm_config>>
  BY DEF FinishSwap, lp_vars
<1>5. /\ vault'[input] = vault[input] + credit
      /\ vault'[output] = vault[output] - leaves
      /\ protocol_fees'[output] = protocol_fees[output]
      /\ fund_fees'[output] = fund_fees[output]
      /\ protocol_fees'[input] = protocol_fees[input] + result.protocol_fee
      /\ fund_fees'[input] = fund_fees[input] + result.fund_fee
  BY <1>1, <1>4 DEF AccountInv, TypeOK
<1>6. /\ vault \in [Side -> Nat]
      /\ protocol_fees \in [Side -> Nat]
      /\ fund_fees \in [Side -> Nat]
      /\ \A s \in Side : protocol_fees[s] + fund_fees[s] <= vault[s]
  BY DEF AccountInv, TypeOK, Solvent, VaultsCoverFees
<1>7. \A s \in Side : vault'[s] \in Nat /\ protocol_fees'[s] + fund_fees'[s] <= vault'[s]
  <2>1. vault'[input] \in Nat /\ protocol_fees'[input] + fund_fees'[input] <= vault'[input]
    BY <1>2, <1>5, <1>6
  <2>2. vault'[output] \in Nat
          /\ protocol_fees'[output] + fund_fees'[output] <= vault'[output]
    BY <1>1, <1>2, <1>3, <1>5, <1>6
  <2> QED
    BY <1>1, <2>1, <2>2
<1>8. price \in [Side -> Nat]
  <2>1. ASSUME NEW s \in Side
        PROVE  token_price_x32(s) \in Nat
    <3>1. /\ vault_amount_without_fee(s) \in Nat \ {0}
          /\ vault_amount_without_fee(1 - s) \in Nat
      BY ReserveType, OtherSide DEF SwapAllowed, ReservesNotEmpty, AccountInv
    <3>2. vault_amount_without_fee(1 - s) * Q32 \in Nat
      BY <3>1, PoolAssumption
    <3> QED
      BY <3>1, <3>2, DivBounds DEF token_price_x32
  <2> QED
    BY <2>1
<1> HIDE DEF output, credit, leaves, price
<1>9. observation_state' \in ObservationState
  BY <1>4, <1>8, ObservationType DEF AccountInv, TypeOK
<1>10. /\ vault' \in [Side -> Nat]
       /\ protocol_fees' \in [Side -> Nat]
       /\ fund_fees' \in [Side -> Nat]
  BY <1>1, <1>4, <1>6, <1>7
<1>11. recent_epoch' \in Nat
  BY <1>4, EpochType DEF AccountInv, TypeOK
<1>12. TypeOK'
  BY <1>4, <1>9, <1>10, <1>11, ConfigUnchanged DEF AccountInv, TypeOK
<1>13. Solvent'
  BY <1>7 DEF Solvent, VaultsCoverFees
<1>14. LpSupplyCoversMint'
  BY <1>4 DEF AccountInv, LpSupplyCoversMint
<1> QED
  BY <1>4, <1>12, <1>13, <1>14, ConfigUnchanged
  DEF AccountInv, NothingBeforeCreation, TypeOK, SwapAllowed

\* The rates of the config are allowed ones.
LEMMA ConfigRatesFit ==
    ASSUME ConfigTypeOK, RatesStayAllowed
    PROVE  RatesFit(amm_config)
  BY FeeDenominatorAssumption
  DEF ConfigTypeOK, AmmConfigType, RatesStayAllowed, RatesAllowed, RatesFit

\* Whatever the amount swapped, the fees of a SwapResult are within it.
LEMMA SwapResultFees ==
    ASSUME ConfigTypeOK, RatesStayAllowed, NEW source \in Nat, NEW destination,
           NEW swap_source, NEW swap_destination
    PROVE  LET result == SwapResult(source, destination, swap_source, swap_destination,
                                    amm_config)
           IN  /\ result.trade_fee \in Nat /\ result.trade_fee <= source
               /\ result.protocol_fee \in Nat /\ result.fund_fee \in Nat
               /\ result.protocol_fee + result.fund_fee <= result.trade_fee
  BY ConfigRatesFit, ResultFeesWithin

\* What both swaps are: the input vault is credited with source tokens, destination
\* tokens of the reserve are sent, the fees are those of a SwapResult.
CurveSwap(input, source, destination, amount_in, outside) ==
    /\ SwapAllowed
    /\ CreditedToVault(input, amount_in) = source
    /\ 0 < destination /\ destination <= vault_amount_without_fee(1 - input)
    /\ FinishSwap(input,
                  SwapResult(source, destination, vault_amount_without_fee(input),
                             vault_amount_without_fee(1 - input), amm_config),
                  amount_in, destination, outside)

\* A swap of an exact input.
LEMMA SwapBaseInputIsCurveSwap ==
    ASSUME AccountInv, NEW input \in Side, NEW amount_in \in Nat,
           NEW minimum \in Nat, NEW outside \in SUBSET Side,
           SwapBaseInput(input, amount_in, minimum, outside)
    PROVE  \E source, destination \in Nat :
               CurveSwap(input, source, destination, amount_in, outside)
<1> DEFINE x == vault_amount_without_fee(input)
           y == vault_amount_without_fee(1 - input)
           credit == CreditedToVault(input, amount_in)
           less_fees == credit - trading_fee(credit, amm_config.trade_fee_rate)
           destination == swap_base_input_without_fees(less_fees, x, y)
           result == SwapResult(credit, destination, x, y, amm_config)
<1>1. amount_in \in Nat /\ credit \in Nat
  BY CreditType, PoolAssumption
<1>2. x \in Nat \ {0} /\ y \in Nat
  BY ReserveType, OtherSide DEF SwapBaseInput, SwapAllowed, ReservesNotEmpty, AccountInv
<1>3. ConfigTypeOK /\ RatesStayAllowed
  BY DEF AccountInv, TypeOK
<1>4. result.trade_fee \in Nat /\ result.trade_fee <= credit
  BY <1>1, <1>3, SwapResultFees
<1>5. less_fees \in Nat
  BY <1>1, <1>4 DEF SwapResult
<1>6. destination \in Nat /\ destination <= y
  BY <1>2, <1>5, InputSwapOutput
<1>7. SwapAllowed /\ FinishSwap(input, result, amount_in, destination, outside)
  BY DEF SwapBaseInput, swap_base_input, SwapResult
<1>8. destination - get_transfer_fee(epoch_fee(1 - input), destination) > 0
  BY DEF SwapBaseInput, swap_base_input, SwapResult
<1> HIDE DEF destination, less_fees
<1>9. get_transfer_fee(epoch_fee(1 - input), destination) \in Nat
  BY <1>6, OtherSide, EpochFeeType, TransferFeeAtMost
<1>10. destination > 0
  BY <1>6, <1>8, <1>9
<1>11. CurveSwap(input, credit, destination, amount_in, outside)
  BY <1>6, <1>7, <1>10 DEF CurveSwap
<1> QED
  BY <1>1, <1>6, <1>11

\* The price of an exact output is a natural number.
LEMMA OutputSwapSource ==
    ASSUME ConfigTypeOK, RatesStayAllowed, NEW dy \in Nat, NEW x \in Nat, NEW y \in Nat,
           dy < y
    PROVE  calculate_pre_fee_amount(swap_base_output_without_fees(dy, x, y),
                                    amm_config.trade_fee_rate) \in Nat
<1> DEFINE price == swap_base_output_without_fees(dy, x, y)
<1>1. price \in Nat
  BY PriceOfOutput
<1>2. amm_config.trade_fee_rate \in 0..FEE_RATE_DENOMINATOR_VALUE - 1
  BY ConfigRatesFit DEF RatesFit
<1> HIDE DEF price
<1>3. calculate_pre_fee_amount(price, amm_config.trade_fee_rate) \in Nat
  BY <1>1, <1>2, PreFeeExact
<1> QED
  BY <1>3 DEF price

\* A swap for an exact output: what the user sends, transfer fee included, credits the
\* vault with exactly what the curve asked for.
LEMMA SwapBaseOutputIsCurveSwap ==
    ASSUME AccountInv, NEW input \in Side, NEW maximum \in Nat,
           NEW amount_out \in Nat, NEW outside \in SUBSET Side,
           SwapBaseOutput(input, maximum, amount_out, outside)
    PROVE  \E source, destination, amount_in \in Nat :
               CurveSwap(input, source, destination, amount_in, outside)
<1> DEFINE output == 1 - input
           x == vault_amount_without_fee(input)
           y == vault_amount_without_fee(output)
           inverse == get_transfer_inverse_fee(epoch_fee(output), amount_out)
           actual == amount_out + inverse
           source == calculate_pre_fee_amount(swap_base_output_without_fees(actual, x, y),
                                              amm_config.trade_fee_rate)
           amount_in == source + get_transfer_inverse_fee(epoch_fee(input), source)
           result == SwapResult(source, actual, x, y, amm_config)
<1>1. output \in Side
  BY OtherSide
<1>2. x \in Nat /\ y \in Nat
  BY <1>1, ReserveType DEF AccountInv
<1>3. ConfigTypeOK /\ RatesStayAllowed
  BY DEF AccountInv, TypeOK
<1>4. /\ SwapAllowed
      /\ amount_out > 0
      /\ get_transfer_inverse_fee_defined(epoch_fee(output), amount_out)
      /\ actual < y
      /\ get_transfer_inverse_fee_defined(epoch_fee(input), source)
      /\ FinishSwap(input, result, amount_in, actual, outside)
  BY DEF SwapBaseOutput, swap_base_output, swap_base_output_defined, SwapResult
<1>5. amount_out \in Nat
  BY PoolAssumption
<1> HIDE DEF output
<1>6. inverse \in Nat
  BY <1>1, <1>4, <1>5, EpochFeeType, InverseFeeCredited
<1>7. actual \in Nat /\ actual > 0
  BY <1>4, <1>5, <1>6
<1> HIDE DEF actual
<1>8. source \in Nat
  BY <1>2, <1>3, <1>4, <1>7, OutputSwapSource
<1> HIDE DEF source
<1>9. amount_in \in Nat /\ CreditedToVault(input, amount_in) = source
  BY <1>4, <1>8, GrossIsCredited
<1> HIDE DEF amount_in
<1>10. CurveSwap(input, source, actual, amount_in, outside)
  BY <1>2, <1>4, <1>7, <1>9 DEF CurveSwap, output
<1> QED
  BY <1>7, <1>8, <1>9, <1>10

\* Either swap keeps the accounts in order.
LEMMA CurveSwapAccountInv ==
    ASSUME AccountInv, NEW input \in Side, NEW source \in Nat, NEW destination \in Nat,
           NEW amount_in \in Nat, NEW outside \in SUBSET Side,
           CurveSwap(input, source, destination, amount_in, outside)
    PROVE  AccountInv'
<1> DEFINE result == SwapResult(source, destination, vault_amount_without_fee(input),
                                vault_amount_without_fee(1 - input), amm_config)
<1>1. /\ SwapAllowed
      /\ CreditedToVault(input, amount_in) = source
      /\ destination <= vault_amount_without_fee(1 - input)
      /\ FinishSwap(input, result, amount_in, destination, outside)
  BY DEF CurveSwap
<1>2. /\ result.trade_fee \in Nat /\ result.trade_fee <= source
      /\ result.protocol_fee \in Nat /\ result.fund_fee \in Nat
      /\ result.protocol_fee + result.fund_fee <= result.trade_fee
  BY SwapResultFees DEF AccountInv, TypeOK
<1> HIDE DEF result
<1>3. result.protocol_fee + result.fund_fee <= CreditedToVault(input, amount_in)
  BY <1>1, <1>2
<1> QED
  BY <1>1, <1>2, <1>3, FinishSwapAccountInv

\* Collections lower what is owed by what they may take out, or by more.
LEMMA CollectProtocolFeeAccountInv ==
    ASSUME AccountInv, NEW owner \in Keys, NEW requested \in [Side -> Nat],
           NEW outside \in SUBSET Side, CollectProtocolFee(owner, requested, outside)
    PROVE  AccountInv'
<1> DEFINE amount == [s \in Side |-> Lesser(requested[s], protocol_fees[s])]
<1>1. \A s \in Side : amount[s] \in Nat /\ amount[s] <= protocol_fees[s]
  <2>1. \A s \in Side : requested[s] \in Nat /\ protocol_fees[s] \in Nat
    BY PoolAssumption DEF AccountInv, TypeOK
  <2> QED
    BY <2>1 DEF Lesser
<1>2. /\ vault' = [s \in Side |-> vault[s] - LeavesVault(s, amount[s], outside)]
      /\ protocol_fees' = [s \in Side |-> protocol_fees[s] - amount[s]]
  BY DEF CollectProtocolFee
<1> HIDE DEF amount
<1>3. \A s \in Side : LeavesVault(s, amount[s], outside) \in {0, amount[s]}
  BY DEF LeavesVault
<1>4. \A s \in Side : /\ vault'[s] \in Nat /\ protocol_fees'[s] \in Nat
                      /\ protocol_fees'[s] + fund_fees[s] <= vault'[s]
  BY <1>1, <1>2, <1>3 DEF AccountInv, TypeOK, Solvent, VaultsCoverFees
<1>5. recent_epoch' \in Nat
  BY EpochType DEF CollectProtocolFee, AccountInv, TypeOK
<1>6. TypeOK'
  BY <1>2, <1>4, <1>5, ConfigUnchanged DEF CollectProtocolFee, AccountInv, TypeOK, lp_vars
<1>7. Solvent' /\ LpSupplyCoversMint'
  BY <1>4
  DEF CollectProtocolFee, lp_vars, AccountInv, Solvent, VaultsCoverFees, LpSupplyCoversMint
<1> QED
  BY <1>6, <1>7, ConfigUnchanged
  DEF CollectProtocolFee, AccountInv, NothingBeforeCreation, TypeOK

\* The same for the fund's part.
LEMMA CollectFundFeeAccountInv ==
    ASSUME AccountInv, NEW owner \in Keys, NEW requested \in [Side -> Nat],
           NEW outside \in SUBSET Side, CollectFundFee(owner, requested, outside)
    PROVE  AccountInv'
<1> DEFINE amount == [s \in Side |-> Lesser(requested[s], fund_fees[s])]
<1>1. \A s \in Side : amount[s] \in Nat /\ amount[s] <= fund_fees[s]
  <2>1. \A s \in Side : requested[s] \in Nat /\ fund_fees[s] \in Nat
    BY PoolAssumption DEF AccountInv, TypeOK
  <2> QED
    BY <2>1 DEF Lesser
<1>2. /\ vault' = [s \in Side |-> vault[s] - LeavesVault(s, amount[s], outside)]
      /\ fund_fees' = [s \in Side |-> fund_fees[s] - amount[s]]
  BY DEF CollectFundFee
<1> HIDE DEF amount
<1>3. \A s \in Side : LeavesVault(s, amount[s], outside) \in {0, amount[s]}
  BY DEF LeavesVault
<1>4. \A s \in Side : /\ vault'[s] \in Nat /\ fund_fees'[s] \in Nat
                      /\ protocol_fees[s] + fund_fees'[s] <= vault'[s]
  BY <1>1, <1>2, <1>3 DEF AccountInv, TypeOK, Solvent, VaultsCoverFees
<1>5. recent_epoch' \in Nat
  BY EpochType DEF CollectFundFee, AccountInv, TypeOK
<1>6. TypeOK'
  BY <1>2, <1>4, <1>5, ConfigUnchanged DEF CollectFundFee, AccountInv, TypeOK, lp_vars
<1>7. Solvent' /\ LpSupplyCoversMint'
  BY <1>4
  DEF CollectFundFee, lp_vars, AccountInv, Solvent, VaultsCoverFees, LpSupplyCoversMint
<1> QED
  BY <1>6, <1>7, ConfigUnchanged
  DEF CollectFundFee, AccountInv, NothingBeforeCreation, TypeOK

\* A change of status moves no tokens.
LEMMA UpdatePoolStatusAccountInv ==
    ASSUME AccountInv, NEW authority \in Keys, NEW new_status \in Statuses,
           UpdatePoolStatus(authority, new_status)
    PROVE  AccountInv'
<1>1. recent_epoch' \in Nat
  BY EpochType DEF UpdatePoolStatus, AccountInv, TypeOK
<1>2. TypeOK'
  BY <1>1, ConfigUnchanged, PoolAssumption
  DEF UpdatePoolStatus, AccountInv, TypeOK, lp_vars, fee_vars
<1> QED
  BY <1>2, ConfigUnchanged
  DEF UpdatePoolStatus, AccountInv, TypeOK, lp_vars, fee_vars, NothingBeforeCreation,
      Solvent, VaultsCoverFees, LpSupplyCoversMint

(***************************************************************************)
(* The rest of the chain.                                                  *)
(***************************************************************************)
\* Burning LP tokens behind the pool's back leaves it with more than the mint has.
LEMMA BurnLpAccountInv ==
    ASSUME AccountInv, NEW lp_amount \in Nat, BurnLp(lp_amount)
    PROVE  AccountInv'
<1>1. lp_mint_supply' \in Nat /\ lp_mint_supply' <= lp_mint_supply
  BY PoolAssumption DEF BurnLp, AccountInv, TypeOK
<1>2. LpSupplyCoversMint'
  BY <1>1, PoolAssumption DEF BurnLp, AccountInv, TypeOK, LpSupplyCoversMint
<1> QED
  BY <1>1, <1>2, ConfigUnchanged
  DEF BurnLp, AccountInv, TypeOK, fee_vars, NothingBeforeCreation, Solvent, VaultsCoverFees

\* Tokens sent to a vault make it richer.
LEMMA SendToVaultAccountInv ==
    ASSUME AccountInv, NEW s \in Side, NEW amount \in Nat, SendToVault(s, amount)
    PROVE  AccountInv'
<1>1. CreditedToVault(s, amount) \in Nat
  BY CreditType, PoolAssumption
<1>2. vault' \in [Side -> Nat] /\ \A t \in Side : vault'[t] >= vault[t]
  BY <1>1 DEF SendToVault, AccountInv, TypeOK
<1>3. Solvent'
  BY <1>2
  DEF SendToVault, AccountInv, TypeOK, fee_vars, Solvent, VaultsCoverFees
<1> QED
  BY <1>2, <1>3, ConfigUnchanged
  DEF SendToVault, AccountInv, TypeOK, fee_vars, lp_vars, NothingBeforeCreation,
      LpSupplyCoversMint

\* Time passes, or nothing happens.
LEMMA TickAccountInv ==
    ASSUME AccountInv, Tick \/ UNCHANGED vars
    PROVE  AccountInv'
<1>1. UNCHANGED <<amm_config, pool_vars>> /\ now' \in Nat
  BY DEF Tick, vars, AccountInv, TypeOK
<1> QED
  BY <1>1, ConfigUnchanged
  DEF pool_vars, AccountInv, TypeOK, NothingBeforeCreation, Solvent, VaultsCoverFees,
      LpSupplyCoversMint

(***************************************************************************)
(* The theorems.                                                           *)
(***************************************************************************)
(* Steps.                                                                  *)
(***************************************************************************)
\* A step with whatever amounts, limits and times: Next without the sets they are from.
AnyStep ==
    \/ ConfigNext /\ UNCHANGED <<now, pool_vars>>
    \/ \E init_amount \in [Side -> Nat], opening \in Nat : Initialize(init_amount, opening)
    \/ \E lp_amount \in Nat, maximum \in [Side -> Nat] : Deposit(lp_amount, maximum)
    \/ \E lp_amount \in Nat, minimum \in [Side -> Nat], outside \in SUBSET Side :
          Withdraw(lp_amount, minimum, outside)
    \/ \E input \in Side, amount_in \in Nat, minimum \in Nat, outside \in SUBSET Side :
          SwapBaseInput(input, amount_in, minimum, outside)
    \/ \E input \in Side, maximum \in Nat, amount_out \in Nat, outside \in SUBSET Side :
          SwapBaseOutput(input, maximum, amount_out, outside)
    \/ \E owner \in Keys, requested \in [Side -> Nat], outside \in SUBSET Side :
          \/ CollectProtocolFee(owner, requested, outside)
          \/ CollectFundFee(owner, requested, outside)
    \/ \E authority \in Keys, new_status \in Statuses : UpdatePoolStatus(authority, new_status)
    \/ \E lp_amount \in Nat : BurnLp(lp_amount)
    \/ \E s \in Side, amount \in Nat : SendToVault(s, amount)
    \/ Tick

\* Every step of a pool is one with some amounts.
LEMMA NextIsAnyStep ==
    ASSUME Next
    PROVE  AnyStep
<1>1. /\ TokenAmounts \subseteq Nat /\ LpAmounts \subseteq Nat /\ Requests \subseteq Nat
      /\ Maxima \subseteq Nat /\ Minima \subseteq Nat /\ OpenTimes \subseteq Nat
  BY PoolAssumption
<1>2. /\ [Side -> TokenAmounts] \subseteq [Side -> Nat]
      /\ [Side -> Requests] \subseteq [Side -> Nat]
      /\ [Side -> Maxima] \subseteq [Side -> Nat]
      /\ [Side -> Minima] \subseteq [Side -> Nat]
  BY <1>1
<1>3. \A input \in Side : SUBSET {1 - input} \subseteq SUBSET Side
  BY OtherSide
<1> QED
  BY <1>1, <1>2, <1>3 DEF Next, AnyStep

(***************************************************************************)
\* AccountInv is inductive, whatever the amounts.
LEMMA AccountInvStep == AccountInv /\ [AnyStep]_vars => AccountInv'
<1> SUFFICES ASSUME AccountInv, [AnyStep]_vars
             PROVE  AccountInv'
  OBVIOUS
<1>1. CASE ConfigNext /\ UNCHANGED <<now, pool_vars>>
  BY <1>1, ConfigAccountInv
<1>2. ASSUME NEW init_amount \in [Side -> Nat], NEW opening \in Nat,
             Initialize(init_amount, opening)
      PROVE  AccountInv'
  BY <1>2, InitializeAccountInv
<1>3. ASSUME NEW lp_amount \in Nat, NEW maximum \in [Side -> Nat],
             Deposit(lp_amount, maximum)
      PROVE  AccountInv'
  BY <1>3, DepositAccountInv
<1>4. ASSUME NEW lp_amount \in Nat, NEW minimum \in [Side -> Nat],
             NEW outside \in SUBSET Side, Withdraw(lp_amount, minimum, outside)
      PROVE  AccountInv'
  BY <1>4, WithdrawAccountInv
<1>5. ASSUME NEW input \in Side, NEW amount_in \in Nat, NEW minimum \in Nat,
             NEW outside \in SUBSET Side,
             SwapBaseInput(input, amount_in, minimum, outside)
      PROVE  AccountInv'
  <2>1. PICK source \in Nat, destination \in Nat :
               CurveSwap(input, source, destination, amount_in, outside)
    BY <1>5, SwapBaseInputIsCurveSwap
  <2> QED
    BY <2>1, CurveSwapAccountInv
<1>6. ASSUME NEW input \in Side, NEW maximum \in Nat, NEW amount_out \in Nat,
             NEW outside \in SUBSET Side,
             SwapBaseOutput(input, maximum, amount_out, outside)
      PROVE  AccountInv'
  <2>1. PICK source \in Nat, destination \in Nat, amount_in \in Nat :
               CurveSwap(input, source, destination, amount_in, outside)
    BY <1>6, SwapBaseOutputIsCurveSwap
  <2> QED
    BY <2>1, CurveSwapAccountInv
<1>7. ASSUME NEW owner \in Keys, NEW requested \in [Side -> Nat],
             NEW outside \in SUBSET Side, CollectProtocolFee(owner, requested, outside)
      PROVE  AccountInv'
  BY <1>7, CollectProtocolFeeAccountInv
<1>8. ASSUME NEW owner \in Keys, NEW requested \in [Side -> Nat],
             NEW outside \in SUBSET Side, CollectFundFee(owner, requested, outside)
      PROVE  AccountInv'
  BY <1>8, CollectFundFeeAccountInv
<1>9. ASSUME NEW authority \in Keys, NEW new_status \in Statuses,
             UpdatePoolStatus(authority, new_status)
      PROVE  AccountInv'
  BY <1>9, UpdatePoolStatusAccountInv
<1>10. ASSUME NEW lp_amount \in Nat, BurnLp(lp_amount)
       PROVE  AccountInv'
  BY <1>10, BurnLpAccountInv
<1>11. ASSUME NEW s \in Side, NEW amount \in Nat, SendToVault(s, amount)
       PROVE  AccountInv'
  BY <1>11, SendToVaultAccountInv
<1>12. CASE Tick \/ UNCHANGED vars
  BY <1>12, TickAccountInv
<1> QED
  BY <1>1, <1>2, <1>3, <1>4, <1>5, <1>6, <1>7, <1>8, <1>9, <1>10, <1>11, <1>12 DEF AnyStep

\* The inductive invariant holds throughout.
THEOREM AccountInvAlways == Spec => []AccountInv
<1>1. Init => AccountInv
  BY AccountInvInit
<1>2. AccountInv /\ [Next]_vars => AccountInv'
  BY AccountInvStep, NextIsAnyStep
<1> QED
  BY <1>1, <1>2, PTL DEF Spec

\* Every account keeps the type of its struct.
THEOREM TypeCorrect == Spec => []TypeOK
<1>1. AccountInv => TypeOK
  BY DEF AccountInv
<1> QED
  BY <1>1, AccountInvAlways, PTL

\* Each vault always covers what the pool owes to protocol and fund:
\* vault_amount_without_fee never panics, whatever the instructions and their order.
THEOREM AlwaysSolvent == Spec => []Solvent
<1>1. AccountInv => Solvent
  BY DEF AccountInv
<1> QED
  BY <1>1, AccountInvAlways, PTL

\* The pool never counts fewer LP tokens than exist, the locked ones included.
THEOREM SupplyCoversMint == Spec => []LpSupplyCoversMint
<1>1. AccountInv => LpSupplyCoversMint
  BY DEF AccountInv
<1> QED
  BY <1>1, AccountInvAlways, PTL

(***************************************************************************)
(* The oracle.                                                             *)
(***************************************************************************)
\* Only what update does to the newest observation matters: it is the old one, or
\* one of the time of the call.
LEMMA UpdateNewest ==
    ASSUME NEW state \in ObservationState, NEW time \in Nat, NEW price
    PROVE  LET after == update(state, time, price)
           IN  \/ Newest(after).block_timestamp = time
               \/ after = state
<1> DEFINE index == state.observation_index
           next  == next_observation_index(index)
           last  == state.observations[index]
<1>1. index \in Slots /\ next \in Slots
  BY ObservationAssumption DEF ObservationState, Slots, next_observation_index
<1>2. ASSUME NEW slot \in Slots, NEW obs
      PROVE  [state.observations EXCEPT ![slot] = obs][slot] = obs
  BY DEF ObservationState
<1> HIDE DEF index, next
<1>3. CASE ~state.initialized
  <2>1. Newest(update(state, time, price))
            = [EmptyObservation EXCEPT !.block_timestamp = time]
    BY <1>1, <1>2, <1>3 DEF update, Newest, index, ObservationState
  <2> QED
    BY <2>1 DEF EmptyObservation
<1>4. CASE /\ state.initialized
           /\ ~(saturating_sub(time, last.block_timestamp)
                    < OBSERVATION_UPDATE_DURATION_DEFAULT)
  <2>1. Newest(update(state, time, price)) = NextObservation(last, time, price)
    BY <1>1, <1>2, <1>4 DEF update, Newest, index, next, ObservationState
  <2> QED
    BY <2>1 DEF NextObservation
<1> QED
  BY <1>3, <1>4 DEF update, index, next

\* An oracle that was never written says nothing; the first to write it is a swap, and
\* so comes after creation.
OracleInv == (observation_state.initialized => created) /\ ObservationsInOpenTime

\* A swap writes the time of the swap, which the handler compared with open_time.
LEMMA SwapOracleInv ==
    ASSUME TypeOK, OracleInv, SwapAllowed,
           NEW price, observation_state' = update(observation_state, now, price),
           UNCHANGED <<created, open_time, now>>
    PROVE  OracleInv'
<1>1. \/ Newest(observation_state').block_timestamp = now
      \/ observation_state' = observation_state
  BY UpdateNewest DEF TypeOK
<1>2. open_time <= now
  BY DEF SwapAllowed, TypeOK
<1> QED
  BY <1>1, <1>2 DEF OracleInv, ObservationsInOpenTime, SwapAllowed, TypeOK

\* What leaves the oracle, the opening time and the clock alone cannot break it, nor
\* can the clock moving on.
LEMMA QuietOracleInv ==
    ASSUME TypeOK, OracleInv, UNCHANGED <<observation_state, open_time>>,
           now' \in Nat, now <= now', created => created'
    PROVE  OracleInv'
<1>1. ASSUME observation_state.initialized
      PROVE  Newest(observation_state).block_timestamp \in Nat
  BY DEF TypeOK, ObservationState, Observation, Newest
<1> QED
  BY <1>1 DEF OracleInv, ObservationsInOpenTime, TypeOK

LEMMA OracleInvStep ==
    ASSUME AccountInv, OracleInv, [AnyStep]_vars
    PROVE  OracleInv'
<1> USE DEF AccountInv
<1>0. now \in Nat /\ now <= now
  BY DEF TypeOK
<1>1. ASSUME UNCHANGED <<created, open_time, observation_state, now>>
      PROVE  OracleInv'
  BY <1>0, <1>1, QuietOracleInv
<1>2. CASE ConfigNext /\ UNCHANGED <<now, pool_vars>>
  BY <1>1, <1>2 DEF pool_vars
<1>3. ASSUME NEW init_amount \in [Side -> Nat], NEW opening \in Nat,
             Initialize(init_amount, opening)
      PROVE  OracleInv'
  BY <1>3 DEF Initialize, OracleInv, ObservationsInOpenTime
<1>4. ASSUME NEW lp_amount \in Nat, NEW maximum \in [Side -> Nat],
             Deposit(lp_amount, maximum)
      PROVE  OracleInv'
  BY <1>1, <1>4 DEF Deposit
<1>5. ASSUME NEW lp_amount \in Nat, NEW minimum \in [Side -> Nat],
             NEW outside \in SUBSET Side, Withdraw(lp_amount, minimum, outside)
      PROVE  OracleInv'
  BY <1>1, <1>5 DEF Withdraw
<1>6. ASSUME NEW input \in Side, NEW amount_in \in Nat, NEW minimum \in Nat,
             NEW outside \in SUBSET Side,
             SwapBaseInput(input, amount_in, minimum, outside)
      PROVE  OracleInv'
  BY <1>6, SwapOracleInv DEF SwapBaseInput, FinishSwap
<1>7. ASSUME NEW input \in Side, NEW maximum \in Nat, NEW amount_out \in Nat,
             NEW outside \in SUBSET Side,
             SwapBaseOutput(input, maximum, amount_out, outside)
      PROVE  OracleInv'
  BY <1>7, SwapOracleInv DEF SwapBaseOutput, FinishSwap
<1>8. ASSUME NEW owner \in Keys, NEW requested \in [Side -> Nat],
             NEW outside \in SUBSET Side,
             CollectProtocolFee(owner, requested, outside)
                 \/ CollectFundFee(owner, requested, outside)
      PROVE  OracleInv'
  BY <1>1, <1>8 DEF CollectProtocolFee, CollectFundFee
<1>9. ASSUME NEW authority \in Keys, NEW new_status \in Statuses,
             UpdatePoolStatus(authority, new_status)
      PROVE  OracleInv'
  BY <1>1, <1>9 DEF UpdatePoolStatus
<1>10. ASSUME NEW lp_amount \in Nat, BurnLp(lp_amount)
       PROVE  OracleInv'
  BY <1>1, <1>10 DEF BurnLp
<1>11. ASSUME NEW s \in Side, NEW amount \in Nat, SendToVault(s, amount)
       PROVE  OracleInv'
  BY <1>1, <1>11 DEF SendToVault
<1>12. CASE Tick
  <2>1. now' \in Nat /\ now <= now'
    BY <1>0, <1>12 DEF Tick
  <2> QED
    BY <1>12, <2>1, QuietOracleInv DEF Tick, pool_vars
<1>13. CASE UNCHANGED vars
  BY <1>1, <1>13 DEF vars, pool_vars
<1> QED
  BY <1>2, <1>3, <1>4, <1>5, <1>6, <1>7, <1>8, <1>9, <1>10, <1>11, <1>12, <1>13 DEF AnyStep

\* The oracle records nothing from before the opening, and nothing of the future.
THEOREM OracleInOpenTime == Spec => []ObservationsInOpenTime
<1>1. Init => OracleInv
  BY DEF Init, EmptyObservationState, OracleInv, ObservationsInOpenTime
<1>2. AccountInv /\ OracleInv /\ [Next]_vars => OracleInv'
  BY OracleInvStep, NextIsAnyStep
<1>3. OracleInv => ObservationsInOpenTime
  BY DEF OracleInv
<1> QED
  BY <1>1, <1>2, <1>3, AccountInvAlways, PTL DEF Spec

----------------------------------------------------------------------------
(***************************************************************************)
(* The promises of the ledger.                                             *)
(***************************************************************************)
\* Per token, the LP tokens after a step are backed as well as those before.
NoDilution ==
    \A s \in Side : vault_amount_without_fee(s)' * lp_supply
                        >= vault_amount_without_fee(s) * lp_supply'

(***************************************************************************)
(* Arithmetic.                                                             *)
(***************************************************************************)
\* If neither of two tokens is diluted, neither is their product.
LEMMA ProductNotDiluted ==
    ASSUME NEW a \in Nat, NEW b \in Nat, NEW s \in Nat,
           NEW c \in Nat, NEW d \in Nat, NEW t \in Nat,
           a * t <= c * s, b * t <= d * s
    PROVE  a * b * (t * t) <= c * d * (s * s)
<1>1. (a * t) * (b * t) <= (c * s) * (d * s)
  BY ProductMonotone
<1> QED
  BY <1>1

(***************************************************************************)
(* What each instruction does to the reserves.                             *)
(***************************************************************************)
\* A created pool has LP tokens, the locked ones at least.
LEMMA CreatedHasSupply ==
    ASSUME AccountInv, created
    PROVE  lp_supply \in Nat \ {0}
  BY PoolAssumption DEF AccountInv, TypeOK, LpSupplyCoversMint

\* Who leaves neither token diluted keeps the value of an LP token.
LEMMA NoDilutionKeepsValue ==
    ASSUME AccountInv, AccountInv', NoDilution
    PROVE  ShareValueKept
<1> DEFINE r0 == vault_amount_without_fee(0)
           r1 == vault_amount_without_fee(1)
<1>1. 0 \in Side /\ 1 \in Side
  BY DEF Side
<1>2. r0 \in Nat /\ r1 \in Nat /\ lp_supply \in Nat
  BY <1>1, ReserveType DEF AccountInv, TypeOK
<1>3. r0' \in Nat /\ r1' \in Nat /\ lp_supply' \in Nat
  BY <1>1 DEF AccountInv, TypeOK, Solvent, VaultsCoverFees, vault_amount_without_fee
<1>4. r0 * lp_supply' <= r0' * lp_supply /\ r1 * lp_supply' <= r1' * lp_supply
  BY <1>1, <1>2, <1>3 DEF NoDilution
<1> HIDE DEF r0, r1
<1>5. r0 * r1 * (lp_supply' * lp_supply') <= r0' * r1' * (lp_supply * lp_supply)
  BY <1>2, <1>3, <1>4, ProductNotDiluted
<1> QED
  BY <1>2, <1>3, <1>5 DEF ShareValueKept, r0, r1

\* A deposit pays for its LP tokens in both tokens.
LEMMA DepositNoDilution ==
    ASSUME AccountInv, NEW lp_amount \in Nat, NEW maximum \in [Side -> Nat],
           Deposit(lp_amount, maximum)
    PROVE  NoDilution /\ lp_supply \in Nat \ {0} /\ lp_supply' > lp_supply
<1> DEFINE amount == [s \in Side |-> lp_tokens_to_trading_token(lp_amount, lp_supply,
                                         vault_amount_without_fee(s), "Ceiling")]
           transfer == [s \in Side |-> amount[s]
                                    + get_transfer_inverse_fee(epoch_fee(s), amount[s])]
<1>1. lp_amount \in Nat /\ lp_amount > 0 /\ lp_supply \in Nat \ {0}
  BY CreatedHasSupply, PoolAssumption DEF Deposit
<1>2. \A s \in Side : /\ vault_amount_without_fee(s) \in Nat
                      /\ amount[s] \in Nat /\ amount[s] # 0
  BY <1>1, ReserveType, ShareType DEF AccountInv, Deposit
<1>3. \A s \in Side : CreditedToVault(s, transfer[s]) = amount[s]
  BY <1>2, GrossIsCredited DEF Deposit
<1>4. \A s \in Side : lp_amount * vault_amount_without_fee(s) <= amount[s] * lp_supply
  BY <1>1, <1>2, CeilingShare
<1>5. /\ vault' = [s \in Side |-> vault[s] + CreditedToVault(s, transfer[s])]
      /\ lp_supply' = lp_supply + lp_amount
      /\ UNCHANGED <<protocol_fees, fund_fees>>
  BY DEF Deposit, fee_vars
<1> HIDE DEF amount, transfer
<1>6. ASSUME NEW s \in Side
      PROVE  vault_amount_without_fee(s)' * lp_supply
                 >= vault_amount_without_fee(s) * lp_supply'
  <2> DEFINE r == vault_amount_without_fee(s)
  <2>1. vault_amount_without_fee(s)' = r + amount[s]
    BY <1>2, <1>3, <1>5 DEF vault_amount_without_fee, AccountInv, TypeOK
  <2>2. r \in Nat /\ amount[s] \in Nat /\ lp_amount * r <= amount[s] * lp_supply
    BY <1>2, <1>4
  <2> HIDE DEF r
  <2>3. (r + amount[s]) * lp_supply >= r * (lp_supply + lp_amount)
    BY <1>1, <2>2, PaidSharesKeep
  <2> QED
    BY <1>5, <2>1, <2>3 DEF r
<1> QED
  BY <1>1, <1>5, <1>6 DEF NoDilution

\* A withdrawal takes no more of either token than its LP tokens are worth.
LEMMA WithdrawNoDilution ==
    ASSUME AccountInv, NEW lp_amount \in Nat, NEW minimum \in [Side -> Nat],
           NEW outside \in SUBSET Side, Withdraw(lp_amount, minimum, outside)
    PROVE  NoDilution /\ lp_supply \in Nat \ {0} /\ lp_supply' < lp_supply
<1> DEFINE share(s) == lp_tokens_to_trading_token(lp_amount, lp_supply,
                           vault_amount_without_fee(s), "Floor")
           amount == [s \in Side |-> Lesser(vault_amount_without_fee(s), share(s))]
           leaves(s) == LeavesVault(s, amount[s], outside)
<1>1. /\ lp_amount \in Nat /\ lp_amount > 0 /\ lp_amount <= lp_supply
      /\ lp_supply \in Nat \ {0}
  BY CreatedHasSupply, PoolAssumption DEF Withdraw
<1>2. \A s \in Side : vault_amount_without_fee(s) \in Nat /\ share(s) \in Nat
  BY <1>1, ReserveType, ShareType DEF AccountInv
<1>3. \A s \in Side : amount[s] \in Nat /\ amount[s] <= share(s)
  BY <1>2 DEF Lesser
<1>4. \A s \in Side : share(s) * lp_supply <= lp_amount * vault_amount_without_fee(s)
  BY <1>1, <1>2, FloorShare
<1>5. /\ vault' = [s \in Side |-> vault[s] - leaves(s)]
      /\ lp_supply' = lp_supply - lp_amount
      /\ UNCHANGED <<protocol_fees, fund_fees>>
  BY DEF Withdraw, fee_vars
<1> HIDE DEF amount, share
<1>6. \A s \in Side : leaves(s) \in Nat /\ leaves(s) <= share(s)
  BY <1>2, <1>3 DEF LeavesVault
<1> HIDE DEF leaves
<1>7. ASSUME NEW s \in Side
      PROVE  vault_amount_without_fee(s)' * lp_supply
                 >= vault_amount_without_fee(s) * lp_supply'
  <2> DEFINE r == vault_amount_without_fee(s)
  <2>1. vault_amount_without_fee(s)' = r - leaves(s)
    BY <1>5, <1>6 DEF vault_amount_without_fee, AccountInv, TypeOK
  <2>2. r \in Nat /\ leaves(s) \in Nat /\ leaves(s) * lp_supply <= share(s) * lp_supply
    BY <1>1, <1>2, <1>6, MulMonotone
  <2>3. leaves(s) * lp_supply <= lp_amount * r
    BY <1>1, <1>2, <1>4, <2>2
  <2> HIDE DEF r
  <2>4. (r - leaves(s)) * lp_supply >= r * (lp_supply - lp_amount)
    BY <1>1, <2>2, <2>3, BurntSharesKeep
  <2> QED
    BY <1>5, <2>1, <2>4 DEF r
<1> QED
  BY <1>1, <1>5, <1>7 DEF NoDilution

\* A swap is a trade: the input reserve grows by more than the fees booked on it, the
\* output reserve does not, and the constant compared by the handlers bounds the product.
LEMMA CurveSwapTrades ==
    ASSUME AccountInv, NEW input \in Side, NEW source \in Nat, NEW destination \in Nat,
           NEW amount_in \in Nat, NEW outside \in SUBSET Side,
           CurveSwap(input, source, destination, amount_in, outside)
    PROVE  LET output == 1 - input
               x == vault_amount_without_fee(input)
               y == vault_amount_without_fee(output)
           IN  /\ x' > x /\ y' <= y /\ x' * y' >= x * y
               /\ protocol_fees'[input] >= protocol_fees[input]
               /\ protocol_fees'[output] = protocol_fees[output]
               /\ fund_fees'[input] >= fund_fees[input]
               /\ fund_fees'[output] = fund_fees[output]
               /\ created /\ UNCHANGED <<created, lp_supply>>
<1> DEFINE output == 1 - input
           x == vault_amount_without_fee(input)
           y == vault_amount_without_fee(output)
           result == SwapResult(source, destination, x, y, amm_config)
           fee == result.trade_fee
           leaves == LeavesVault(output, destination, outside)
<1>1. output \in Side /\ output # input
  BY DEF Side
<1>2. /\ SwapAllowed
      /\ CreditedToVault(input, amount_in) = source
      /\ destination > 0 /\ destination <= y
      /\ FinishSwap(input, result, amount_in, destination, outside)
  BY DEF CurveSwap
<1>3. x \in Nat \ {0} /\ y \in Nat
  BY <1>1, <1>2, ReserveType DEF AccountInv, SwapAllowed, ReservesNotEmpty
<1>4. /\ fee \in Nat /\ fee <= source
      /\ result.protocol_fee \in Nat /\ result.fund_fee \in Nat
      /\ result.protocol_fee + result.fund_fee <= fee
  BY SwapResultFees DEF AccountInv, TypeOK
<1>5. (x + (source - fee)) * (y - destination) >= x * y
  <2>1. constant_after(result) >= x * y
    BY <1>2 DEF FinishSwap
  <2>2. constant_after(result) = ((x + source) - fee) * (y - destination)
    BY ConstantAfterSwap
  <2>3. (x + source) - fee = x + (source - fee)
    BY <1>3, <1>4
  <2> HIDE DEF result, fee, x, y
  <2> QED
    BY <2>1, <2>2, <2>3
<1>6. leaves \in Nat /\ leaves <= destination
  BY DEF LeavesVault
<1>7. /\ vault' = [vault EXCEPT ![input] = @ + source, ![output] = @ - leaves]
      /\ protocol_fees' = [protocol_fees EXCEPT ![input] = @ + result.protocol_fee]
      /\ fund_fees' = [fund_fees EXCEPT ![input] = @ + result.fund_fee]
      /\ created /\ UNCHANGED <<created, lp_supply>>
  BY <1>2 DEF FinishSwap, lp_vars, SwapAllowed
<1> HIDE DEF output, result, fee, leaves
<1>8. /\ vault'[input] = vault[input] + source
      /\ vault'[output] = vault[output] - leaves
      /\ protocol_fees'[input] = protocol_fees[input] + result.protocol_fee
      /\ protocol_fees'[output] = protocol_fees[output]
      /\ fund_fees'[input] = fund_fees[input] + result.fund_fee
      /\ fund_fees'[output] = fund_fees[output]
  BY <1>1, <1>7 DEF AccountInv, TypeOK
<1>9. /\ vault \in [Side -> Nat]
      /\ protocol_fees \in [Side -> Nat]
      /\ fund_fees \in [Side -> Nat]
  BY DEF AccountInv, TypeOK
<1>10. x' = x + source - result.protocol_fee - result.fund_fee
  BY <1>4, <1>8, <1>9 DEF vault_amount_without_fee
<1>11. y' = y - leaves
  BY <1>1, <1>6, <1>8, <1>9 DEF vault_amount_without_fee
<1> HIDE DEF x, y
<1>12. x' \in Nat /\ y' \in Nat /\ x' >= x + (source - fee)
  BY <1>2, <1>3, <1>4, <1>6, <1>10, <1>11
<1>13. ASSUME NEW xp \in Nat, NEW yp \in Nat, xp >= x + (source - fee), yp = y - leaves
       PROVE  xp > x /\ yp <= y /\ xp * yp >= x * y
  <2>1. source - fee \in Int /\ destination \in Nat \ {0} /\ leaves \in 0..destination
    BY <1>2, <1>4, <1>6
  <2> QED
    BY <1>2, <1>3, <1>5, <1>13, <2>1, TradeArithmetic
<1>14. x' > x /\ y' <= y /\ x' * y' >= x * y
  BY <1>11, <1>12, <1>13
<1> QED
  BY <1>4, <1>7, <1>8, <1>9, <1>14 DEF x, y, output

\* What only adds to the reserves, or leaves them, and leaves the LP supply, dilutes
\* nobody.
LEMMA MoreReservesNoDilution ==
    ASSUME AccountInv, AccountInv', UNCHANGED lp_supply,
           \A s \in Side : vault_amount_without_fee(s)' >= vault_amount_without_fee(s)
    PROVE  NoDilution
<1>1. ASSUME NEW s \in Side
      PROVE  vault_amount_without_fee(s)' * lp_supply
                 >= vault_amount_without_fee(s) * lp_supply'
  <2>1. vault_amount_without_fee(s) \in Nat /\ lp_supply \in Nat
    BY ReserveType DEF AccountInv, TypeOK
  <2>2. vault_amount_without_fee(s)' \in Nat
    BY DEF AccountInv, TypeOK, Solvent, VaultsCoverFees, vault_amount_without_fee
  <2>3. vault_amount_without_fee(s) <= vault_amount_without_fee(s)'
    BY <2>1, <2>2
  <2>4. vault_amount_without_fee(s) * lp_supply <= vault_amount_without_fee(s)' * lp_supply
    BY <2>1, <2>2, <2>3, MulMonotone
  <2>5. /\ vault_amount_without_fee(s) * lp_supply \in Nat
        /\ vault_amount_without_fee(s)' * lp_supply \in Nat
    BY <2>1, <2>2
  <2> QED
    BY <2>4, <2>5
<1> QED
  BY <1>1 DEF NoDilution

\* A collection takes what was owed, or less, and no reserve.
LEMMA CollectProtocolFeeReserves ==
    ASSUME AccountInv, NEW owner \in Keys, NEW requested \in [Side -> Nat],
           NEW outside \in SUBSET Side, CollectProtocolFee(owner, requested, outside)
    PROVE  \A s \in Side : /\ vault_amount_without_fee(s)' >= vault_amount_without_fee(s)
                           /\ protocol_fees'[s] <= protocol_fees[s]
<1> DEFINE amount == [s \in Side |-> Lesser(requested[s], protocol_fees[s])]
           leaves(s) == LeavesVault(s, amount[s], outside)
<1>1. /\ vault' = [s \in Side |-> vault[s] - leaves(s)]
      /\ protocol_fees' = [s \in Side |-> protocol_fees[s] - amount[s]]
      /\ UNCHANGED fund_fees
  BY DEF CollectProtocolFee
<1>2. \A s \in Side : amount[s] \in Nat
  <2>1. \A s \in Side : requested[s] \in Nat /\ protocol_fees[s] \in Nat
    BY PoolAssumption DEF AccountInv, TypeOK
  <2> QED
    BY <2>1 DEF Lesser
<1> HIDE DEF amount
<1>3. \A s \in Side : leaves(s) \in Nat /\ leaves(s) <= amount[s]
  BY <1>2 DEF LeavesVault
<1> HIDE DEF leaves
<1> QED
  BY <1>1, <1>2, <1>3 DEF vault_amount_without_fee, AccountInv, TypeOK

\* The same for the fund's part.
LEMMA CollectFundFeeReserves ==
    ASSUME AccountInv, NEW owner \in Keys, NEW requested \in [Side -> Nat],
           NEW outside \in SUBSET Side, CollectFundFee(owner, requested, outside)
    PROVE  \A s \in Side : /\ vault_amount_without_fee(s)' >= vault_amount_without_fee(s)
                           /\ fund_fees'[s] <= fund_fees[s]
<1> DEFINE amount == [s \in Side |-> Lesser(requested[s], fund_fees[s])]
           leaves(s) == LeavesVault(s, amount[s], outside)
<1>1. /\ vault' = [s \in Side |-> vault[s] - leaves(s)]
      /\ fund_fees' = [s \in Side |-> fund_fees[s] - amount[s]]
      /\ UNCHANGED protocol_fees
  BY DEF CollectFundFee
<1>2. \A s \in Side : amount[s] \in Nat
  <2>1. \A s \in Side : requested[s] \in Nat /\ fund_fees[s] \in Nat
    BY PoolAssumption DEF AccountInv, TypeOK
  <2> QED
    BY <2>1 DEF Lesser
<1> HIDE DEF amount
<1>3. \A s \in Side : leaves(s) \in Nat /\ leaves(s) <= amount[s]
  BY <1>2 DEF LeavesVault
<1> HIDE DEF leaves
<1> QED
  BY <1>1, <1>2, <1>3 DEF vault_amount_without_fee, AccountInv, TypeOK

\* Tokens sent to a vault belong to the LP holders.
LEMMA SendToVaultReserves ==
    ASSUME AccountInv, NEW t \in Side, NEW amount \in Nat, SendToVault(t, amount)
    PROVE  \A s \in Side : vault_amount_without_fee(s)' >= vault_amount_without_fee(s)
<1>1. CreditedToVault(t, amount) \in Nat
  BY CreditType, PoolAssumption
<1> QED
  BY <1>1 DEF SendToVault, vault_amount_without_fee, fee_vars, AccountInv, TypeOK

(***************************************************************************)
(* The instructions as transactions of the ledger.                         *)
(***************************************************************************)
\* A pool that does not exist has no LP tokens, one that does has some.
LEMMA SharesOfPool ==
    ASSUME AccountInv
    PROVE  /\ lp_supply \in Nat
           /\ created => lp_supply > 0
           /\ ~created => lp_supply = 0
  BY CreatedHasSupply DEF AccountInv, TypeOK, NothingBeforeCreation

\* The reserves are naturals, before and after.
LEMMA Reserves ==
    ASSUME AccountInv
    PROVE  /\ 0 \in Side /\ 1 \in Side
           /\ \A s \in Side : vault_amount_without_fee(s) \in Nat
  BY ReserveType DEF AccountInv, Side

\* The first LP tokens are the root of what the vaults received, all of it reserves.
LEMMA InitializeOpens ==
    ASSUME AccountInv, NEW init_amount \in [Side -> Nat], NEW opening \in Nat,
           Initialize(init_amount, opening)
    PROVE  Ledger!Open
<1> DEFINE received == [s \in Side |-> CreditedToVault(s, init_amount[s])]
<1>1. \A s \in Side : received[s] \in Nat
  BY CreditType, PoolAssumption
<1>2. PICK liquidity \in 0..received[0] * received[1] :
         /\ IsIntegerSqrt(liquidity, received[0] * received[1])
         /\ liquidity >= LOCK_LP_AMOUNT
         /\ lp_supply' = liquidity
  BY DEF Initialize
<1>3. vault' = received /\ UNCHANGED <<protocol_fees, fund_fees>> /\ ~created
  BY DEF Initialize, fee_vars
<1> HIDE DEF received
<1>4. lp_supply = 0 /\ \A s \in Side : protocol_fees[s] = 0 /\ fund_fees[s] = 0
  BY <1>3 DEF AccountInv, NothingBeforeCreation
<1>5. \A s \in Side : vault_amount_without_fee(s)' = received[s]
  BY <1>1, <1>3, <1>4 DEF vault_amount_without_fee
<1>6. lp_supply' > 0 /\ lp_supply' * lp_supply' <= received[0] * received[1]
  BY <1>2, PoolAssumption DEF IsIntegerSqrt
<1> QED
  BY <1>3, <1>4, <1>5, <1>6 DEF Ledger!Open, Side

\* A deposit joins the holders.
LEMMA DepositJoins ==
    ASSUME AccountInv, NEW lp_amount \in Nat, NEW maximum \in [Side -> Nat],
           Deposit(lp_amount, maximum)
    PROVE  Ledger!Join
<1>1. NoDilution /\ lp_supply \in Nat \ {0} /\ lp_supply' > lp_supply
  BY DepositNoDilution
<1>2. UNCHANGED <<protocol_fees, fund_fees>>
  BY DEF Deposit, fee_vars
<1> QED
  BY <1>1, <1>2 DEF NoDilution, Ledger!Join, Ledger!NoDilution, Ledger!Sides, Side

\* A withdrawal leaves the locked LP tokens at least.
LEMMA WithdrawLeaves ==
    ASSUME AccountInv, NEW lp_amount \in Nat, NEW minimum \in [Side -> Nat],
           NEW outside \in SUBSET Side, Withdraw(lp_amount, minimum, outside)
    PROVE  Ledger!Leave
<1>1. NoDilution /\ lp_supply \in Nat \ {0} /\ lp_supply' < lp_supply
  BY WithdrawNoDilution
<1>2. UNCHANGED <<protocol_fees, fund_fees>>
  BY DEF Withdraw, fee_vars
<1>3. lp_supply' > 0
  <2>1. lp_supply' = lp_supply - lp_amount /\ lp_amount <= lp_mint_supply /\ created
    BY DEF Withdraw
  <2>2. lp_amount \in Nat /\ LOCK_LP_AMOUNT \in Nat /\ LOCK_LP_AMOUNT > 0
    BY PoolAssumption
  <2>3. /\ lp_supply \in Nat /\ lp_mint_supply \in Nat
        /\ lp_supply >= lp_mint_supply + LOCK_LP_AMOUNT
    BY <2>1 DEF AccountInv, TypeOK, LpSupplyCoversMint
  <2> QED
    BY <2>1, <2>2, <2>3
<1> QED
  BY <1>1, <1>2, <1>3 DEF NoDilution, Ledger!Leave, Ledger!NoDilution, Ledger!Sides, Side

\* A swap trades, whichever token comes in.
LEMMA CurveSwapIsTrade ==
    ASSUME AccountInv, AccountInv', NEW input \in Side, NEW source \in Nat,
           NEW destination \in Nat, NEW amount_in \in Nat, NEW outside \in SUBSET Side,
           CurveSwap(input, source, destination, amount_in, outside)
    PROVE  \E token \in Ledger!Sides : Ledger!Trade(token)
<1> DEFINE r(s) == vault_amount_without_fee(s)
           output == 1 - input
<1>1. /\ r(input)' > r(input) /\ r(output)' <= r(output)
      /\ r(input)' * r(output)' >= r(input) * r(output)
      /\ protocol_fees'[input] >= protocol_fees[input]
      /\ protocol_fees'[output] = protocol_fees[output]
      /\ fund_fees'[input] >= fund_fees[input]
      /\ fund_fees'[output] = fund_fees[output]
      /\ created /\ UNCHANGED <<created, lp_supply>>
  BY CurveSwapTrades
<1>2. output \in Side /\ \A s \in Side : r(s) \in Nat /\ r(s)' \in Nat
  BY OtherSide, Reserves DEF AccountInv, TypeOK, Solvent, VaultsCoverFees,
                             vault_amount_without_fee
<1>3. lp_supply > 0
  BY <1>1, SharesOfPool
<1> HIDE DEF r
<1>4. r(0)' * r(1)' >= r(0) * r(1)
  <2>1. CASE input = 0
    BY <1>1, <2>1
  <2>2. CASE input = 1
    BY <1>1, <1>2, <2>2 DEF Side
  <2> QED
    BY <2>1, <2>2 DEF Side
<1> QED
  BY <1>1, <1>2, <1>3, <1>4 DEF Ledger!Trade, Ledger!Sides, Side, r

\* Nothing the ledger sees.
LEMMA LedgerStutters ==
    ASSUME UNCHANGED <<vault, protocol_fees, fund_fees, lp_supply>>
    PROVE  UNCHANGED Ledger!ledger
  BY DEF Ledger!ledger, vault_amount_without_fee

\* Every step of a pool is a transaction of the ledger, or nothing it sees.
LEMMA LedgerStep ==
    AccountInv /\ AccountInv' /\ [AnyStep]_vars => [Ledger!Next]_(Ledger!ledger)
<1> SUFFICES ASSUME AccountInv, AccountInv', [AnyStep]_vars
             PROVE  Ledger!Next \/ UNCHANGED Ledger!ledger
  OBVIOUS
<1>1. CASE ConfigNext /\ UNCHANGED <<now, pool_vars>>
  BY <1>1, LedgerStutters DEF pool_vars
<1>2. ASSUME NEW init_amount \in [Side -> Nat], NEW opening \in Nat,
             Initialize(init_amount, opening)
      PROVE  Ledger!Next
  BY <1>2, InitializeOpens DEF Ledger!Next
<1>3. ASSUME NEW lp_amount \in Nat, NEW maximum \in [Side -> Nat],
             Deposit(lp_amount, maximum)
      PROVE  Ledger!Next
  BY <1>3, DepositJoins DEF Ledger!Next
<1>4. ASSUME NEW lp_amount \in Nat, NEW minimum \in [Side -> Nat],
             NEW outside \in SUBSET Side, Withdraw(lp_amount, minimum, outside)
      PROVE  Ledger!Next
  BY <1>4, WithdrawLeaves DEF Ledger!Next
<1>5. ASSUME NEW input \in Side, NEW amount_in \in Nat, NEW minimum \in Nat,
             NEW outside \in SUBSET Side,
             SwapBaseInput(input, amount_in, minimum, outside)
      PROVE  Ledger!Next
  <2>1. PICK source \in Nat, destination \in Nat :
               CurveSwap(input, source, destination, amount_in, outside)
    BY <1>5, SwapBaseInputIsCurveSwap
  <2> QED
    BY <2>1, CurveSwapIsTrade DEF Ledger!Next
<1>6. ASSUME NEW input \in Side, NEW maximum \in Nat, NEW amount_out \in Nat,
             NEW outside \in SUBSET Side,
             SwapBaseOutput(input, maximum, amount_out, outside)
      PROVE  Ledger!Next
  <2>1. PICK source \in Nat, destination \in Nat, amount_in \in Nat :
               CurveSwap(input, source, destination, amount_in, outside)
    BY <1>6, SwapBaseOutputIsCurveSwap
  <2> QED
    BY <2>1, CurveSwapIsTrade DEF Ledger!Next
<1>7. ASSUME NEW owner \in Keys, NEW requested \in [Side -> Nat],
             NEW outside \in SUBSET Side, CollectProtocolFee(owner, requested, outside)
      PROVE  Ledger!Next
  <2>1. Ledger!PayProtocol
    BY <1>7, CollectProtocolFeeReserves
    DEF CollectProtocolFee, lp_vars, Ledger!PayProtocol, Ledger!ReservesKept,
        Ledger!Sides, Side
  <2> QED
    BY <2>1 DEF Ledger!Next
<1>8. ASSUME NEW owner \in Keys, NEW requested \in [Side -> Nat],
             NEW outside \in SUBSET Side, CollectFundFee(owner, requested, outside)
      PROVE  Ledger!Next
  <2>1. Ledger!PayFund
    BY <1>8, CollectFundFeeReserves
    DEF CollectFundFee, lp_vars, Ledger!PayFund, Ledger!ReservesKept, Ledger!Sides, Side
  <2> QED
    BY <2>1 DEF Ledger!Next
<1>9. ASSUME NEW authority \in Keys, NEW new_status \in Statuses,
             UpdatePoolStatus(authority, new_status)
      PROVE  UNCHANGED Ledger!ledger
  BY <1>9, LedgerStutters DEF UpdatePoolStatus, fee_vars, lp_vars
<1>10. ASSUME NEW lp_amount \in Nat, BurnLp(lp_amount)
       PROVE  UNCHANGED Ledger!ledger
  BY <1>10, LedgerStutters DEF BurnLp, fee_vars
<1>11. ASSUME NEW s \in Side, NEW amount \in Nat, SendToVault(s, amount)
       PROVE  Ledger!Next
  <2>1. lp_supply > 0
    BY <1>11, SharesOfPool DEF SendToVault
  <2>2. Ledger!Gift
    BY <1>11, <2>1, SendToVaultReserves
    DEF SendToVault, fee_vars, lp_vars, Ledger!Gift, Ledger!ReservesKept, Ledger!Sides, Side
  <2> QED
    BY <2>2 DEF Ledger!Next
<1>12. CASE Tick \/ UNCHANGED vars
  BY <1>12, LedgerStutters DEF Tick, vars, pool_vars
<1> QED
  BY <1>1, <1>2, <1>3, <1>4, <1>5, <1>6, <1>7, <1>8, <1>9, <1>10, <1>11, <1>12 DEF AnyStep

(***************************************************************************)
(* What the ledger's transactions do to the value of an LP token.          *)
(***************************************************************************)
\* The reserves after a step, when the accounts are in order after it.
LEMMA ReservesAfter ==
    ASSUME AccountInv'
    PROVE  /\ lp_supply' \in Nat
           /\ \A s \in Side : vault_amount_without_fee(s)' \in Nat
  BY DEF AccountInv, TypeOK, Solvent, VaultsCoverFees, vault_amount_without_fee

\* Who leaves the shares alone and the product of the reserves no smaller keeps the
\* value of an LP token.
LEMMA ProductKeepsValue ==
    ASSUME AccountInv, AccountInv', UNCHANGED lp_supply,
           vault_amount_without_fee(0)' * vault_amount_without_fee(1)'
               >= vault_amount_without_fee(0) * vault_amount_without_fee(1)
    PROVE  ShareValueKept
<1> DEFINE before == vault_amount_without_fee(0) * vault_amount_without_fee(1)
           after  == vault_amount_without_fee(0)' * vault_amount_without_fee(1)'
           square == lp_supply * lp_supply
<1>1. before \in Nat /\ after \in Nat /\ square \in Nat
  BY Reserves, ReservesAfter DEF AccountInv, TypeOK
<1> HIDE DEF before, after, square
<1>2. before <= after
  BY <1>1 DEF before, after
<1>3. before * square <= after * square
  BY <1>1, <1>2, MulMonotone
<1>4. before * square \in Nat /\ after * square \in Nat
  BY <1>1
<1>5. after * square >= before * square
  BY <1>3, <1>4
<1> QED
  BY <1>5 DEF ShareValueKept, before, after, square

\* Reserves that only grow do not dilute.
LEMMA ReservesKeptKeepsValue ==
    ASSUME AccountInv, AccountInv', UNCHANGED lp_supply, Ledger!ReservesKept
    PROVE  ShareValueKept
<1>1. \A s \in Side : vault_amount_without_fee(s)' >= vault_amount_without_fee(s)
  BY DEF Ledger!ReservesKept, Ledger!Sides, Side
<1> QED
  BY <1>1, MoreReservesNoDilution, NoDilutionKeepsValue

\* No transaction of a pool that has LP tokens makes one of them worth less.
LEMMA ShareValueStep ==
    ASSUME AccountInv, AccountInv', lp_supply > 0,
           Ledger!Next \/ UNCHANGED Ledger!ledger
    PROVE  ShareValueKept
<1>1. CASE Ledger!Open
  BY <1>1, SharesOfPool DEF Ledger!Open
<1>2. CASE Ledger!Join \/ Ledger!Leave
  <2>1. NoDilution
    BY <1>2 DEF Ledger!Join, Ledger!Leave, Ledger!NoDilution, Ledger!Sides, NoDilution, Side
  <2> QED
    BY <2>1, NoDilutionKeepsValue
<1>3. ASSUME NEW input \in Ledger!Sides, Ledger!Trade(input)
      PROVE  ShareValueKept
  <2>1. /\ UNCHANGED lp_supply
        /\ vault_amount_without_fee(0)' * vault_amount_without_fee(1)'
               >= vault_amount_without_fee(0) * vault_amount_without_fee(1)
    BY <1>3 DEF Ledger!Trade, Side
  <2> QED
    BY <2>1, ProductKeepsValue
<1>4. CASE Ledger!PayProtocol \/ Ledger!PayFund \/ Ledger!Gift
  BY <1>4, ReservesKeptKeepsValue DEF Ledger!PayProtocol, Ledger!PayFund, Ledger!Gift
<1>5. CASE UNCHANGED Ledger!ledger
  <2>1. /\ UNCHANGED lp_supply
        /\ \A s \in Side : vault_amount_without_fee(s)' = vault_amount_without_fee(s)
    BY <1>5 DEF Ledger!ledger
  <2>2. \A s \in Side : vault_amount_without_fee(s)' >= vault_amount_without_fee(s)
    BY <2>1, Reserves
  <2> QED
    BY <2>1, <2>2, MoreReservesNoDilution, NoDilutionKeepsValue
<1> QED
  BY <1>1, <1>2, <1>3, <1>4, <1>5 DEF Ledger!Next

\* A kept value keeps the LP tokens backed.
LEMMA KeptValueBacks ==
    ASSUME NEW p \in Nat, NEW s \in Nat \ {0}, NEW q \in Nat, NEW t \in Nat,
           s * s <= p, q * (s * s) >= p * (t * t)
    PROVE  t * t <= q
<1> DEFINE ss == s * s
           tt == t * t
<1>1. ss \in Nat \ {0} /\ tt \in Nat
  OBVIOUS
<1> HIDE DEF ss, tt
<1>2. ss * tt <= p * tt
  BY <1>1, MulMonotone DEF ss
<1>3. tt * ss <= q * ss
  <2>1. ss * tt \in Nat /\ p * tt \in Nat /\ q * ss \in Nat /\ ss * tt = tt * ss
    BY <1>1
  <2>2. q * ss >= p * tt
    BY DEF ss, tt
  <2> QED
    BY <1>2, <2>1, <2>2
<1>4. ASSUME tt > q
      PROVE  FALSE
  <2>1. tt >= q + 1 /\ (q + 1) * ss = q * ss + ss
    BY <1>1, <1>4
  <2>2. (q + 1) * ss <= tt * ss
    BY <1>1, <2>1, MulMonotone
  <2> QED
    BY <1>1, <1>3, <2>1, <2>2
<1>5. tt <= q
  BY <1>1, <1>4
<1> QED
  BY <1>5 DEF tt

\* Every transaction leaves the LP tokens backed by the reserves.
LEMMA BackedStep ==
    ASSUME AccountInv, AccountInv', LpSupplyBacked,
           Ledger!Next \/ UNCHANGED Ledger!ledger
    PROVE  LpSupplyBacked'
<1> DEFINE before == vault_amount_without_fee(0) * vault_amount_without_fee(1)
           after  == vault_amount_without_fee(0)' * vault_amount_without_fee(1)'
<1>1. before \in Nat /\ after \in Nat /\ lp_supply \in Nat /\ lp_supply' \in Nat
  BY Reserves, ReservesAfter, SharesOfPool
<1>2. CASE lp_supply > 0
  <2>1. ShareValueKept
    BY <1>2, ShareValueStep
  <2>2. /\ lp_supply * lp_supply <= before
        /\ after * (lp_supply * lp_supply) >= before * (lp_supply' * lp_supply')
    BY <2>1 DEF LpSupplyBacked, ShareValueKept
  <2>3. lp_supply \in Nat \ {0}
    BY <1>1, <1>2
  <2> HIDE DEF before, after
  <2>4. lp_supply' * lp_supply' <= after
    BY <1>1, <2>2, <2>3, KeptValueBacks, Zenon
  <2> QED
    BY <2>4 DEF LpSupplyBacked, after
<1>3. CASE lp_supply = 0
  <2>1. CASE Ledger!Open
    BY <2>1 DEF Ledger!Open, LpSupplyBacked, Side
  <2>2. CASE ~Ledger!Open
    <3>1. lp_supply' = 0
      BY <1>1, <1>3, <2>2
      DEF Ledger!Next, Ledger!Join, Ledger!Leave, Ledger!Trade, Ledger!PayProtocol,
          Ledger!PayFund, Ledger!Gift, Ledger!ledger
    <3>2. lp_supply' * lp_supply' = 0
      BY <3>1
    <3> HIDE DEF after
    <3>3. 0 <= after
      BY <1>1
    <3>4. lp_supply' * lp_supply' <= after
      BY <3>2, <3>3, Zenon
    <3> QED
      BY <3>4 DEF LpSupplyBacked, after
  <2> QED
    BY <2>1, <2>2
<1> QED
  BY <1>1, <1>2, <1>3

(***************************************************************************)
(* The theorems.                                                           *)
(***************************************************************************)
\* A pool starts as an empty ledger, whose LP tokens, none, are backed.
LEMMA LedgerInitially ==
    ASSUME Init
    PROVE  Ledger!Init /\ LpSupplyBacked
<1>1. /\ lp_supply = 0
      /\ \A s \in Side : vault_amount_without_fee(s) = 0
      /\ protocol_fees = [s \in Side |-> 0] /\ fund_fees = [s \in Side |-> 0]
  BY DEF Init, vault_amount_without_fee
<1>2. LpSupplyBacked
  BY <1>1 DEF LpSupplyBacked, Side
<1> QED
  BY <1>1, <1>2 DEF Ledger!Init, Ledger!NothingOwed, Ledger!Sides, Side

\* A pool implements the ledger: every instruction, and whatever else happens to the
\* accounts, is one transaction the ledger allows or invisible to it.
THEOREM ImplementsLedger == Spec => KeepsLedger
<1>1. Init => Ledger!Init
  BY LedgerInitially
<1>2. AccountInv /\ AccountInv' /\ [Next]_vars => [Ledger!Next]_(Ledger!ledger)
  BY LedgerStep, NextIsAnyStep
<1> QED
  BY <1>1, <1>2, AccountInvAlways, PTL DEF Spec, KeepsLedger, Ledger!Spec

\* No step makes an LP token worth less, whatever the fees, the rates and the rounding.
THEOREM ShareValueAlwaysKept == Spec => ShareValueNeverFalls
<1>1. AccountInv /\ AccountInv' /\ [Next]_vars => [created => ShareValueKept]_vars
  <2> SUFFICES ASSUME AccountInv, AccountInv', [Next]_vars, created
               PROVE  ShareValueKept
    OBVIOUS
  <2>1. Ledger!Next \/ UNCHANGED Ledger!ledger
    BY LedgerStep, NextIsAnyStep
  <2> QED
    BY <2>1, SharesOfPool, ShareValueStep
<1> QED
  BY <1>1, AccountInvAlways, PTL DEF Spec, ShareValueNeverFalls

\* The LP supply never exceeds the geometric mean of the reserves.
THEOREM AlwaysBacked == Spec => []LpSupplyBacked
<1>1. Init => LpSupplyBacked
  BY LedgerInitially
<1>2. AccountInv /\ AccountInv' /\ LpSupplyBacked /\ [Next]_vars => LpSupplyBacked'
  <2> SUFFICES ASSUME AccountInv, AccountInv', LpSupplyBacked, [Next]_vars
               PROVE  LpSupplyBacked'
    OBVIOUS
  <2>1. Ledger!Next \/ UNCHANGED Ledger!ledger
    BY LedgerStep, NextIsAnyStep
  <2> QED
    BY <2>1, BackedStep
<1> QED
  BY <1>1, <1>2, AccountInvAlways, PTL DEF Spec

(***************************************************************************)
(* Deposits.                                                               *)
(***************************************************************************)
\* What a deposit sends, transfer fee included, credits each vault with its share.
LEMMA DepositCredits ==
    ASSUME AccountInv, NEW lp_amount \in Nat, NEW maximum \in [Side -> Nat],
           Deposit(lp_amount, maximum), NEW s \in Side
    PROVE  vault'[s] - vault[s] = lp_tokens_to_trading_token(lp_supply' - lp_supply,
                                      lp_supply, vault_amount_without_fee(s), "Ceiling")
<1> DEFINE share == lp_tokens_to_trading_token(lp_amount, lp_supply,
                                               vault_amount_without_fee(s), "Ceiling")
           gross == share + get_transfer_inverse_fee(epoch_fee(s), share)
<1>1. lp_amount \in Nat /\ lp_supply \in Nat \ {0} /\ vault[s] \in Nat
  BY CreatedHasSupply, PoolAssumption DEF Deposit, AccountInv, TypeOK
<1>2. share \in Nat
  BY <1>1, ReserveType, ShareType DEF AccountInv
<1>3. /\ get_transfer_inverse_fee_defined(epoch_fee(s), share)
      /\ vault'[s] = vault[s] + CreditedToVault(s, gross)
      /\ lp_supply' = lp_supply + lp_amount
  BY DEF Deposit
<1>4. CreditedToVault(s, gross) = share
  BY <1>2, <1>3, GrossIsCredited
<1>5. vault'[s] - vault[s] = share /\ lp_supply' - lp_supply = lp_amount
  <2> HIDE DEF share, gross
  <2> QED
    BY <1>1, <1>2, <1>3, <1>4
<1> QED
  BY <1>5

\* Only a deposit adds to the LP supply of a pool that exists.
LEMMA OnlyDepositAdds ==
    ASSUME AccountInv, [AnyStep]_vars, created, lp_supply' > lp_supply
    PROVE  \E lp_amount \in Nat, maximum \in [Side -> Nat] :
               Deposit(lp_amount, maximum)
<1>1. lp_supply \in Nat /\ lp_supply' # lp_supply
  BY DEF AccountInv, TypeOK
<1>2. ASSUME NEW lp_amount \in Nat, NEW minimum \in [Side -> Nat],
             NEW outside \in SUBSET Side, Withdraw(lp_amount, minimum, outside)
      PROVE  FALSE
  <2>1. lp_supply' = lp_supply - lp_amount /\ lp_amount \in Nat
    BY <1>2, PoolAssumption DEF Withdraw
  <2> QED
    BY <1>1, <2>1
<1>3. ASSUME NEW input, NEW result, NEW amount_in, NEW amount_out, NEW outside,
             FinishSwap(input, result, amount_in, amount_out, outside)
      PROVE  FALSE
  BY <1>1, <1>3 DEF FinishSwap, lp_vars
<1>4. /\ \A input, amount_in, minimum, outside :
            ~SwapBaseInput(input, amount_in, minimum, outside)
      /\ \A input, maximum, amount_out, outside :
            ~SwapBaseOutput(input, maximum, amount_out, outside)
  BY <1>3, Zenon DEF SwapBaseInput, SwapBaseOutput
<1>5. /\ \A init_amount, opening : ~Initialize(init_amount, opening)
      /\ \A owner, requested, outside : ~CollectProtocolFee(owner, requested, outside)
      /\ \A owner, requested, outside : ~CollectFundFee(owner, requested, outside)
      /\ \A authority, new_status : ~UpdatePoolStatus(authority, new_status)
      /\ \A lp_amount : ~BurnLp(lp_amount)
      /\ \A s, amount : ~SendToVault(s, amount)
  BY <1>1, Zenon
  DEF Initialize, CollectProtocolFee, CollectFundFee, UpdatePoolStatus, BurnLp, SendToVault,
      lp_vars
<1>6. ~Tick /\ ~UNCHANGED vars /\ ~UNCHANGED pool_vars
  BY <1>1 DEF Tick, vars, pool_vars
<1>7. ~UNCHANGED <<now, pool_vars>>
  BY <1>6
<1> QED
  BY <1>2, <1>4, <1>5, <1>6, <1>7, Zenon DEF AnyStep

\* A deposit credits each vault with exactly the share the curve asks for, whatever the
\* mint's fee, its maximum and the epoch.
THEOREM DepositsCreditExactly == Spec => DepositCreditsExactShare
<1> DEFINE Exact == \A s \in Side :
               vault'[s] - vault[s] =
                   lp_tokens_to_trading_token(lp_supply' - lp_supply, lp_supply,
                       vault_amount_without_fee(s), "Ceiling")
<1>1. AccountInv /\ [Next]_vars => [created /\ lp_supply' > lp_supply => Exact]_vars
  BY OnlyDepositAdds, DepositCredits, NextIsAnyStep
<1> QED
  BY <1>1, AccountInvAlways, PTL DEF Spec, DepositCreditsExactShare
=============================================================================
