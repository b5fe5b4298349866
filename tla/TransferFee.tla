---------------------------- MODULE TransferFee ----------------------------
(***************************************************************************)
(* Transfer fees of token-2022 mints: the fee arithmetic of the token      *)
(* program (external to the repository) and the two helpers of             *)
(* utils/token.rs that ask it what a transfer costs.                       *)
(*                                                                         *)
(* A fee is [basis_points, maximum_fee].  A mint of the classic token      *)
(* program, or without the extension, has fee NoFee.                       *)
(***************************************************************************)
EXTENDS Integers

CONSTANT MAX_FEE_BASIS_POINTS           \* 10_000 in the token program

ASSUME BasisPointsAssumption == MAX_FEE_BASIS_POINTS \in Nat \ {0}

TransferFeeType == [ basis_points: 0..MAX_FEE_BASIS_POINTS, maximum_fee: Nat ]

NoFee == [ basis_points |-> 0, maximum_fee |-> 0 ]

\* MUTANT of Lesser: the other one.
Greater(a, b) == IF a >= b THEN a ELSE b

Lesser(a, b) == IF a <= b THEN a ELSE b

(***************************************************************************)
(* The token program (external).                                           *)
(***************************************************************************)
\* The older fee holds until the epoch the newer one starts at.
get_epoch_fee(mint, epoch) ==
    IF epoch >= mint.newer_epoch THEN mint.newer ELSE mint.older

calculate_fee(fee, pre_fee_amount) ==
    Lesser((pre_fee_amount * fee.basis_points + MAX_FEE_BASIS_POINTS - 1)
               \div MAX_FEE_BASIS_POINTS,
           fee.maximum_fee)

\* fee.basis_points < MAX_FEE_BASIS_POINTS: the helper below treats 100% itself.
token_pre_fee_amount(fee, post_fee_amount) ==
    LET denominator == MAX_FEE_BASIS_POINTS - fee.basis_points
        raw == (post_fee_amount * MAX_FEE_BASIS_POINTS + denominator - 1)
                   \div denominator
    IN  IF raw - post_fee_amount >= fee.maximum_fee
        THEN post_fee_amount + fee.maximum_fee
        ELSE raw

calculate_inverse_fee(fee, post_fee_amount) ==
    calculate_fee(fee, token_pre_fee_amount(fee, post_fee_amount))

(***************************************************************************)
(* utils/token.rs                                                          *)
(***************************************************************************)
get_transfer_fee(fee, pre_fee_amount) == calculate_fee(fee, pre_fee_amount)

\* MUTANT of get_transfer_inverse_fee: the fee of the amount that is to arrive.
fee_of_net_amount(fee, post_fee_amount) == calculate_fee(fee, post_fee_amount)

\* MUTANT of get_transfer_inverse_fee: 100% is taken for no fee.
inverse_fee_without_full(fee, post_fee_amount) ==
    IF fee.basis_points = MAX_FEE_BASIS_POINTS
    THEN 0
    ELSE calculate_inverse_fee(fee, post_fee_amount)

get_transfer_inverse_fee(fee, post_fee_amount) ==
    IF fee.basis_points = MAX_FEE_BASIS_POINTS
    THEN fee.maximum_fee
    ELSE calculate_inverse_fee(fee, post_fee_amount)

\* The two errors of get_transfer_inverse_fee: a zero amount, and an inverse
\* fee that the token program would not charge (TransferFeeCalculateNotMatch).
inverse_fee_matches(fee, post_fee_amount) ==
    fee.basis_points # MAX_FEE_BASIS_POINTS =>
        LET inverse == calculate_inverse_fee(fee, post_fee_amount)
        IN  calculate_fee(fee, post_fee_amount + inverse) = inverse

get_transfer_inverse_fee_defined(fee, post_fee_amount) ==
    post_fee_amount # 0 /\ inverse_fee_matches(fee, post_fee_amount)
============================================================================
