----------------------------- MODULE CurveMath -----------------------------
(***************************************************************************)
(* The arithmetic of the pool: curve/fees.rs, curve/constant_product.rs,   *)
(* curve/calculator.rs and utils/math.rs as pure operators.                *)
(*                                                                         *)
(* The operators return the value the code computes when none of its       *)
(* checked operations fails.  Where a check can fail for tokens that       *)
(* exist, it is an operator of its own (swap_base_output_defined), and a   *)
(* state machine uses it as a guard.  Operators keep the names of the      *)
(* functions they stand for.                                               *)
(***************************************************************************)
EXTENDS Integers

CONSTANT FEE_RATE_DENOMINATOR_VALUE     \* 1_000_000 in the program

ASSUME FeeDenominatorAssumption == FEE_RATE_DENOMINATOR_VALUE \in Nat \ {0}

(***************************************************************************)
(* curve/fees.rs: the trading fee is rounded up, what the protocol and the *)
(* fund take out of it is rounded down.                                    *)
(***************************************************************************)
ceil_div(amount, numerator, denominator) ==
    (amount * numerator + denominator - 1) \div denominator

floor_div(amount, numerator, denominator) ==
    (amount * numerator) \div denominator

trading_fee(amount, rate)  == ceil_div(amount, rate, FEE_RATE_DENOMINATOR_VALUE)
protocol_fee(amount, rate) == floor_div(amount, rate, FEE_RATE_DENOMINATOR_VALUE)
fund_fee(amount, rate)     == floor_div(amount, rate, FEE_RATE_DENOMINATOR_VALUE)

\* MUTANT of calculate_pre_fee_amount: rounds down.
calculate_pre_fee_amount_floor(post_fee_amount, rate) ==
    (post_fee_amount * FEE_RATE_DENOMINATOR_VALUE) \div (FEE_RATE_DENOMINATOR_VALUE - rate)

\* The amount whose trading fee leaves post_fee_amount.
calculate_pre_fee_amount(post_fee_amount, rate) ==
    IF rate = 0
    THEN post_fee_amount
    ELSE LET denominator == FEE_RATE_DENOMINATOR_VALUE - rate
         IN  (post_fee_amount * FEE_RATE_DENOMINATOR_VALUE + denominator - 1)
                 \div denominator

(***************************************************************************)
(* utils/math.rs: division rounded up, except that a quotient below one    *)
(* half is rounded to zero ("avoid dividing a small number by a big one    *)
(* and returning 1").                                                      *)
(***************************************************************************)
\* MUTANT of checked_ceil_div: the remainder is forgotten.
checked_floor_div(dividend, rhs) == dividend \div rhs

checked_ceil_div(dividend, rhs) ==
    LET quotient == dividend \div rhs
    IN  IF quotient = 0
        THEN IF 2 * dividend >= rhs THEN 1 ELSE 0
        ELSE IF dividend % rhs > 0 THEN quotient + 1 ELSE quotient

(***************************************************************************)
(* curve/constant_product.rs: (x + dx) * (y - dy) = x * y.                 *)
(***************************************************************************)
swap_base_input_without_fees(source_amount, swap_source, swap_destination) ==
    (source_amount * swap_destination) \div (swap_source + source_amount)

swap_base_output_without_fees(destination_amount, swap_source, swap_destination) ==
    checked_ceil_div(swap_source * destination_amount,
                     swap_destination - destination_amount)

\* MUTANT of lp_tokens_to_trading_token: the rounding direction is ignored.
lp_tokens_rounded_down(lp_amount, lp_supply, swap_amount, round) ==
    (lp_amount * swap_amount) \div lp_supply

\* One token's share of lp_amount pool tokens.  Rounding up leaves a share
\* that rounds down to zero at zero; the callers reject it.
lp_tokens_to_trading_token(lp_amount, lp_supply, swap_amount, round) ==
    LET amount    == (lp_amount * swap_amount) \div lp_supply
        remainder == (lp_amount * swap_amount) % lp_supply
    IN  IF round = "Ceiling" /\ remainder > 0 /\ amount > 0
        THEN amount + 1
        ELSE amount

(***************************************************************************)
(* curve/calculator.rs: the curve with the fees taken from the source      *)
(* token.  config is any record with the three fee rates of AmmConfig.     *)
(***************************************************************************)
SwapResult(source_amount, destination_amount, swap_source, swap_destination, config) ==
    LET fee == trading_fee(source_amount, config.trade_fee_rate)
    IN  [ new_swap_source_amount      |-> swap_source + source_amount,
          new_swap_destination_amount |-> swap_destination - destination_amount,
          source_amount_swapped       |-> source_amount,
          destination_amount_swapped  |-> destination_amount,
          trade_fee                   |-> fee,
          protocol_fee                |-> protocol_fee(fee, config.protocol_fee_rate),
          fund_fee                    |-> fund_fee(fee, config.fund_fee_rate) ]

swap_base_input(source_amount, swap_source, swap_destination, config) ==
    LET less_fees == source_amount - trading_fee(source_amount, config.trade_fee_rate)
    IN  SwapResult(source_amount,
                   swap_base_input_without_fees(less_fees, swap_source, swap_destination),
                   swap_source, swap_destination, config)

\* The code panics when the pool does not hold more than what is asked for.
swap_base_output_defined(destination_amount, swap_destination) ==
    destination_amount < swap_destination

swap_base_output(destination_amount, swap_source, swap_destination, config) ==
    LET swapped == swap_base_output_without_fees(destination_amount, swap_source,
                                                 swap_destination)
    IN  SwapResult(calculate_pre_fee_amount(swapped, config.trade_fee_rate),
                   destination_amount, swap_source, swap_destination, config)

\* What both swap handlers compare with the product before the swap.
constant_after(result) ==
    (result.new_swap_source_amount - result.trade_fee)
        * result.new_swap_destination_amount

validate_supply(token_0_amount, token_1_amount) ==
    token_0_amount # 0 /\ token_1_amount # 0
============================================================================
