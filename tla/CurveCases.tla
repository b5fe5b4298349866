----------------------------- MODULE CurveCases -----------------------------
(***************************************************************************)
(* The pure operators of CurveMath and TransferFee under every input of a  *)
(* bounded range, compared with what they are to mean: reference           *)
(* definitions by quantification, and the claims of the tests in           *)
(* curve/calculator.rs.                                                    *)
(*                                                                         *)
(* The fee rates are those of a config, after any updates by the admin     *)
(* (AmmConfig).  A behaviour ends with one operation: on a pool of the     *)
(* config, or on a mint with a transfer fee, which needs no config.        *)
(***************************************************************************)
EXTENDS AmmConfig, TransferFee

CONSTANTS
    MaxReserve,                \* bound on reserves and LP supply
    MaxAmount,                 \* bound on the amount of an operation on a pool
    MaximumFees,               \* maximum fees of a mint
    MaxTransfer                \* bound on the amount of a transfer

ASSUME CurveCasesAssumption == MaximumFees \subseteq Nat

VARIABLES
    reserve_in, reserve_out,   \* the pool's two reserves, 0 if there is no pool
    lp_supply,
    mint_fee,                  \* the transfer fee of a mint
    amount                     \* the amount of the operation, 0 until picked

pool_vars == <<reserve_in, reserve_out, lp_supply>>
vars      == <<amm_config, pool_vars, mint_fee, amount>>

Reserves == 1..MaxReserve

Init ==
    /\ ConfigInit
    /\ reserve_in = 0 /\ reserve_out = 0 /\ lp_supply = 0
    /\ mint_fee = NoFee
    /\ amount = 0

Administer == amount = 0 /\ ConfigNext /\ UNCHANGED <<pool_vars, mint_fee, amount>>

\* A pool of the config, whose LP supply is backed.
PickPool ==
    /\ amount = 0
    /\ amm_config.exists /\ ~amm_config.disable_create_pool
    /\ reserve_in' \in Reserves
    /\ reserve_out' \in Reserves
    /\ lp_supply' \in { s \in Reserves : s * s <= reserve_in' * reserve_out' }
    /\ amount' \in 1..MaxAmount
    /\ UNCHANGED <<amm_config, mint_fee>>

PickTransfer ==
    /\ amount = 0
    /\ ~amm_config.exists
    /\ mint_fee' \in [ basis_points: 0..MAX_FEE_BASIS_POINTS, maximum_fee: MaximumFees ]
    /\ amount' \in 1..MaxTransfer
    /\ UNCHANGED <<amm_config, pool_vars>>

Next == Administer \/ PickPool \/ PickTransfer

Spec == Init /\ [][Next]_vars

----------------------------------------------------------------------------
pool_picked     == reserve_in > 0
transfer_picked == reserve_in = 0 /\ amount > 0

SwapIn  == swap_base_input(amount, reserve_in, reserve_out, amm_config)
SwapOut == swap_base_output(amount, reserve_in, reserve_out, amm_config)

\* A base-output swap is carried out if the reserve suffices and it costs something.
OutputSwapped ==
    /\ swap_base_output_defined(amount, reserve_out)
    /\ SwapOut.source_amount_swapped > 0

\* Neither kind of swap lets the product of the reserves fall once the whole trading
\* fee is taken out: the require_gte! on the constants in both handlers never fires.
ConstantNeverFalls ==
    pool_picked =>
        /\ constant_after(SwapIn) >= reserve_in * reserve_out
        /\ OutputSwapped => constant_after(SwapOut) >= reserve_in * reserve_out

\* What protocol and fund take stays within the trading fee, and the trading fee
\* within the amount, for every rounding: the vault can pay what it books.
FeesWithinAmount ==
    pool_picked =>
        \A swap \in {SwapIn} \cup (IF OutputSwapped THEN {SwapOut} ELSE {}) :
            /\ swap.protocol_fee + swap.fund_fee <= swap.trade_fee
            /\ swap.trade_fee <= swap.source_amount_swapped

\* The price of a base-output swap is the least input for which a base-input swap
\* pays as much: the two instructions agree, and neither rounding of the fee nor of
\* the curve makes the user pay a token too much or the pool get one too few.
OutputPricedExactly ==
    pool_picked /\ OutputSwapped =>
        LET cost == SwapOut.source_amount_swapped
            paid(input) == swap_base_input(input, reserve_in, reserve_out, amm_config)
                               .destination_amount_swapped
        IN  /\ paid(cost) >= amount
            /\ \A less \in 1..cost - 1 : paid(less) < amount

\* The test helpers of calculator.rs: per token, what a deposit of LP tokens adds and
\* what a withdrawal leaves is worth at least the LP tokens, and the rounding is less
\* than one token.  A deposit whose share rounds down to nothing is rejected.
SharesRoundedForPool ==
    pool_picked =>
        LET share(round) == lp_tokens_to_trading_token(amount, lp_supply, reserve_in, round)
        IN  /\ share("Floor") * lp_supply <= amount * reserve_in
            /\ amount * reserve_in < (share("Floor") + 1) * lp_supply
            /\ share("Ceiling") # 0 =>
                  /\ share("Ceiling") * lp_supply >= amount * reserve_in
                  /\ (share("Ceiling") - 1) * lp_supply < amount * reserve_in

\* For every fee and maximum the token program charges exactly the inverse fee on the
\* grossed-up amount, so the recheck in get_transfer_inverse_fee never fails and the
\* recipient gets exactly what was asked for; and a token less would not do.
InverseFeeExact ==
    transfer_picked =>
        LET gross     == amount + get_transfer_inverse_fee(mint_fee, amount)
            net(sent) == sent - get_transfer_fee(mint_fee, sent)
        IN  /\ inverse_fee_matches(mint_fee, amount)
            /\ net(gross) = amount
            /\ net(gross - 1) < amount
============================================================================
