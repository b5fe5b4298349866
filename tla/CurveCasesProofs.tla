-------------------------- MODULE CurveCasesProofs --------------------------
(***************************************************************************)
(* What CurveCases checks on small numbers, for every fee denominator,     *)
(* every config the admin can reach, every pool and every amount.          *)
(*                                                                         *)
(* The arithmetic is in CurveProofs; it needs the rates of the config to   *)
(* be allowed (AmmConfigProofs).  PickedInv is inductive and adds what     *)
(* kind of numbers a behaviour ends with.                                  *)
(***************************************************************************)
EXTENDS CurveCases, CurveProofs, AmmConfigProofs

\* A pool that was picked has reserves and LP tokens, and an amount to handle.
PickedInv ==
    /\ ConfigTypeOK
    /\ RatesStayAllowed
    /\ {reserve_in, reserve_out, lp_supply, amount} \subseteq Nat
    /\ pool_picked => 0 \notin {reserve_out, lp_supply, amount}
    /\ mint_fee \in TransferFeeType

\* Nothing is picked at the start.
LEMMA PickedInitially ==
    ASSUME Init
    PROVE  PickedInv
<1>1. ConfigTypeOK /\ RatesStayAllowed
  BY ConfigInitially DEF Init
<1> QED
  BY <1>1, BasisPointsAssumption DEF Init, PickedInv, pool_picked, NoFee, TransferFeeType

\* The config changes only while nothing is picked, and picking does not change it.
LEMMA PickedStep ==
    ASSUME PickedInv, [Next]_vars
    PROVE  PickedInv'
<1>1. CASE Administer
  <2>1. ConfigTypeOK' /\ RatesStayAllowed'
    BY <1>1, ConfigStep DEF Administer, PickedInv
  <2> QED
    BY <1>1, <2>1 DEF Administer, PickedInv, pool_vars, pool_picked
<1>2. CASE PickPool
  BY <1>2 DEF PickPool, PickedInv, pool_picked, Reserves, ConfigTypeOK, RatesStayAllowed
<1>3. CASE PickTransfer
  <2>1. mint_fee' \in TransferFeeType
    BY <1>3, CurveCasesAssumption DEF PickTransfer, TransferFeeType
  <2> QED
    BY <1>3, <2>1 DEF PickTransfer, PickedInv, pool_vars, pool_picked, ConfigTypeOK,
                      RatesStayAllowed
<1>4. CASE UNCHANGED vars
  BY <1>4 DEF vars, pool_vars, PickedInv, pool_picked, ConfigTypeOK, RatesStayAllowed
<1> QED
  BY <1>1, <1>2, <1>3, <1>4 DEF Next

LEMMA PickedAlways == Spec => []PickedInv
<1>1. Init => PickedInv
  BY PickedInitially
<1>2. PickedInv /\ [Next]_vars => PickedInv'
  BY PickedStep
<1> QED
  BY <1>1, <1>2, PTL DEF Spec

\* The rates of the config are ones the arithmetic is right for.
LEMMA PickedRates ==
    ASSUME PickedInv
    PROVE  RatesFit(amm_config)
  BY FeeDenominatorAssumption
  DEF PickedInv, ConfigTypeOK, AmmConfigType, RatesStayAllowed, RatesAllowed, RatesFit

\* What a picked pool consists of.
LEMMA PickedPool ==
    ASSUME PickedInv, pool_picked
    PROVE  /\ reserve_in \in Nat \ {0} /\ reserve_out \in Nat \ {0}
           /\ lp_supply \in Nat \ {0} /\ amount \in Nat \ {0}
  BY DEF PickedInv, pool_picked

----------------------------------------------------------------------------
\* The comparison of the constants in the swap handlers never fails on a result of the
\* curve, at any fee rate the config can get: a swap is never rejected there.
THEOREM ConstantNeverFallsAlways == Spec => []ConstantNeverFalls
<1>1. ASSUME PickedInv
      PROVE  ConstantNeverFalls
  <2> SUFFICES ASSUME pool_picked
               PROVE  /\ constant_after(SwapIn) >= reserve_in * reserve_out
                      /\ OutputSwapped =>
                            constant_after(SwapOut) >= reserve_in * reserve_out
    BY DEF ConstantNeverFalls
  <2>1. RatesFit(amm_config)
    BY <1>1, PickedRates
  <2>2. /\ reserve_in \in Nat \ {0} /\ reserve_out \in Nat /\ amount \in Nat
    BY <1>1, PickedPool
  <2>3. constant_after(SwapIn) >= reserve_in * reserve_out
    BY <2>1, <2>2, InputSwapKeepsConstant DEF SwapIn
  <2>4. OutputSwapped => constant_after(SwapOut) >= reserve_in * reserve_out
    BY <2>1, <2>2, OutputSwapKeepsConstant DEF SwapOut, OutputSwapped,
       swap_base_output_defined
  <2> QED
    BY <2>3, <2>4
<1> QED
  BY <1>1, PickedAlways, PTL

\* Whatever is swapped at whatever rates, the fees booked are within the trading fee,
\* and that within the amount.
THEOREM FeesAlwaysWithinAmount == Spec => []FeesWithinAmount
<1>1. ASSUME PickedInv
      PROVE  FeesWithinAmount
  <2> DEFINE Within(swap) == /\ swap.protocol_fee + swap.fund_fee <= swap.trade_fee
                             /\ swap.trade_fee <= swap.source_amount_swapped
  <2> SUFFICES ASSUME pool_picked
               PROVE  Within(SwapIn) /\ (OutputSwapped => Within(SwapOut))
    BY DEF FeesWithinAmount
  <2>1. RatesFit(amm_config)
    BY <1>1, PickedRates
  <2>2. reserve_in \in Nat /\ reserve_out \in Nat /\ amount \in Nat
    BY <1>1, PickedPool
  <2>3. ASSUME NEW source \in Nat, NEW destination
        PROVE  Within(SwapResult(source, destination, reserve_in, reserve_out, amm_config))
    BY <2>1, <2>3, ResultFeesWithin
  <2>4. Within(SwapIn)
    BY <2>2, <2>3 DEF SwapIn, swap_base_input
  <2>5. ASSUME OutputSwapped
        PROVE  Within(SwapOut)
    <3>1. amount < reserve_out
      BY <2>5 DEF OutputSwapped, swap_base_output_defined
    <3>2. /\ SwapOut.source_amount_swapped \in Nat
          /\ SwapOut = SwapResult(SwapOut.source_amount_swapped, amount, reserve_in,
                                  reserve_out, amm_config)
      BY <2>1, <2>2, <3>1, OutputSwapPrice DEF SwapOut
    <3> QED
      BY <2>3, <3>2
  <2> QED
    BY <2>4, <2>5
<1> QED
  BY <1>1, PickedAlways, PTL

\* The two swap instructions agree on the price, to the token, at every size of pool.
THEOREM OutputAlwaysPricedExactly == Spec => []OutputPricedExactly
<1>1. ASSUME PickedInv
      PROVE  OutputPricedExactly
  <2> DEFINE cost == SwapOut.source_amount_swapped
             paid(input) == swap_base_input(input, reserve_in, reserve_out, amm_config)
                                .destination_amount_swapped
  <2> SUFFICES ASSUME pool_picked, OutputSwapped
               PROVE  paid(cost) >= amount /\ \A less \in 1..cost - 1 : paid(less) < amount
    BY DEF OutputPricedExactly
  <2>1. RatesFit(amm_config)
    BY <1>1, PickedRates
  <2>2. /\ reserve_in \in Nat \ {0} /\ reserve_out \in Nat /\ amount \in Nat
        /\ amount < reserve_out /\ cost > 0
    BY <1>1, PickedPool DEF OutputSwapped, swap_base_output_defined
  <2>3. cost \in Nat
    BY <2>1, <2>2, OutputSwapPrice DEF SwapOut
  <2>4. ASSUME NEW input \in Nat
        PROVE  (input = cost => paid(input) >= amount) /\ (input < cost => paid(input) < amount)
    BY <2>1, <2>2, <2>4, OutputSwapPricedExactly DEF SwapOut
  <2> HIDE DEF cost, paid
  <2> QED
    BY <2>3, <2>4
<1> QED
  BY <1>1, PickedAlways, PTL

\* Per token, deposits and withdrawals are rounded for the pool, by less than a token.
THEOREM SharesAlwaysRoundedForPool == Spec => []SharesRoundedForPool
<1>1. ASSUME PickedInv
      PROVE  SharesRoundedForPool
  <2> SUFFICES ASSUME pool_picked
               PROVE  SharesRoundedForPool
    BY DEF SharesRoundedForPool
  <2>1. reserve_in \in Nat /\ lp_supply \in Nat \ {0} /\ amount \in Nat
    BY <1>1, PickedPool
  <2> QED
    BY <2>1, FloorShare, CeilingShare, ShareWithinOne DEF SharesRoundedForPool
<1> QED
  BY <1>1, PickedAlways, PTL

\* For every basis points and maximum, what get_transfer_inverse_fee adds is exactly
\* what the token program takes: its recheck never fails.
THEOREM InverseFeeAlwaysExact == Spec => []InverseFeeExact
<1>1. ASSUME PickedInv
      PROVE  InverseFeeExact
  <2> SUFFICES ASSUME transfer_picked
               PROVE  InverseFeeExact
    BY DEF InverseFeeExact
  <2>1. mint_fee \in TransferFeeType /\ amount \in Nat \ {0}
    BY <1>1 DEF PickedInv, transfer_picked
  <2> QED
    BY <2>1, InverseFeeIsLeast DEF InverseFeeExact
<1> QED
  BY <1>1, PickedAlways, PTL
============================================================================
