---------------------------- MODULE CurveProofs ----------------------------
(***************************************************************************)
(* Lemmas about the arithmetic of CurveMath and TransferFee, for every     *)
(* value of the constants and of the arguments.                            *)
(***************************************************************************)
EXTENDS CurveMath, TransferFee, TLAPS

(***************************************************************************)
(* Division.                                                               *)
(***************************************************************************)
\* The two bounds that characterise the quotient rounded down.
LEMMA DivBounds ==
    ASSUME NEW a \in Nat, NEW b \in Nat \ {0}
    PROVE  /\ a \div b \in Nat
           /\ (a \div b) * b <= a
           /\ a < (a \div b) * b + b
    OBVIOUS

\* A common factor of an inequality can be cancelled.
LEMMA CancelFactor ==
    ASSUME NEW a \in Int, NEW b \in Int, NEW c \in Nat \ {0}, a * c < b * c
    PROVE  a < b
<1>1. CASE a >= b
  <2>1. PICK d \in Nat : a = b + d
    BY <1>1
  <2>2. a * c = b * c + d * c
    BY <2>1
  <2>3. d * c >= 0
    OBVIOUS
  <2> QED
    BY <2>2, <2>3
<1> QED
  BY <1>1

\* Multiplication by a natural number keeps the order.
LEMMA MulMonotone ==
    ASSUME NEW a \in Int, NEW b \in Int, NEW c \in Nat, a <= b
    PROVE  a * c <= b * c
    OBVIOUS

\* Products of naturals keep the order.
LEMMA ProductMonotone ==
    ASSUME NEW a \in Nat, NEW b \in Nat, NEW c \in Nat, NEW d \in Nat, a <= b, c <= d
    PROVE  a * c <= b * d
<1>1. a * c <= b * c
  BY MulMonotone
<1>2. c * b <= d * b
  BY MulMonotone
<1> QED
  BY <1>1, <1>2

\* A quotient is at most what its dividend is a multiple of.
LEMMA DivAtMost ==
    ASSUME NEW a \in Nat, NEW b \in Nat \ {0}, NEW q \in Nat, a < q * b + b
    PROVE  a \div b <= q
<1>1. (a \div b) * b < (q + 1) * b
  BY DivBounds
<1>2. a \div b < q + 1
  BY <1>1, DivBounds, CancelFactor
<1> QED
  BY <1>2, DivBounds

\* Division rounded up, as ceil_div and the token program write it.
LEMMA CeilBounds ==
    ASSUME NEW a \in Nat, NEW b \in Nat \ {0}
    PROVE  /\ (a + b - 1) \div b \in Nat
           /\ a <= ((a + b - 1) \div b) * b
           /\ ((a + b - 1) \div b) * b < a + b
  BY DivBounds, a + b - 1 \in Nat

\* A part of an amount, rounded up, is at most the amount.
LEMMA CeilPartAtMost ==
    ASSUME NEW a \in Nat, NEW n \in Nat, NEW d \in Nat \ {0}, n <= d
    PROVE  /\ (a * n + d - 1) \div d \in Nat
           /\ (a * n + d - 1) \div d <= a
<1>1. a * n \in Nat /\ a * n <= a * d
  BY MulMonotone
<1>2. a * n + d - 1 \in Nat /\ a * n + d - 1 < a * d + d
  BY <1>1
<1> QED
  BY <1>2, DivBounds, DivAtMost

(***************************************************************************)
(* Quotients.                                                              *)
(***************************************************************************)
\* What division leaves.
LEMMA QuotientAndRemainder ==
    ASSUME NEW a \in Nat, NEW b \in Nat \ {0}
    PROVE  a = (a \div b) * b + (a % b)
    OBVIOUS

\* A quotient is at least what its dividend holds a multiple of.
LEMMA DivAtLeast ==
    ASSUME NEW a \in Nat, NEW b \in Nat \ {0}, NEW q \in Nat, q * b <= a
    PROVE  q <= a \div b
<1>1. a \div b \in Nat /\ a < (a \div b) * b + b
  BY DivBounds
<1>2. ((a \div b) + 1) * b = (a \div b) * b + b
  BY <1>1
<1>3. q * b < ((a \div b) + 1) * b
  BY <1>1, <1>2
<1>4. q < (a \div b) + 1
  <2> DEFINE next == (a \div b) + 1
  <2>1. next \in Int /\ q * b < next * b
    BY <1>1, <1>3
  <2> HIDE DEF next
  <2>2. q < next
    BY <2>1, CancelFactor
  <2> QED
    BY <2>2 DEF next
<1> QED
  BY <1>1, <1>4

\* And less than what its dividend stays below a multiple of.
LEMMA DivBelow ==
    ASSUME NEW a \in Nat, NEW b \in Nat \ {0}, NEW q \in Nat, a < q * b
    PROVE  a \div b < q
<1>1. a \div b \in Nat /\ (a \div b) * b <= a
  BY DivBounds
<1>2. (a \div b) * b < q * b
  BY <1>1
<1> QED
  BY <1>1, <1>2, CancelFactor

\* The bounds of DivBounds determine the quotient.
LEMMA DivUnique ==
    ASSUME NEW a \in Nat, NEW b \in Nat \ {0}, NEW q \in Nat, q * b <= a, a < q * b + b
    PROVE  a \div b = q
  BY DivAtLeast, DivAtMost, DivBounds

\* What a part rounded up leaves of an amount is the other part rounded down.
LEMMA CeilPartLeaves ==
    ASSUME NEW a \in Nat, NEW n \in Nat, NEW d \in Nat \ {0}, n <= d
    PROVE  a - ((a * n + d - 1) \div d) = (a * (d - n)) \div d
<1> DEFINE part == (a * n + d - 1) \div d
<1>1. a * n \in Nat /\ a * d \in Nat /\ a * (d - n) = a * d - a * n /\ a * (d - n) \in Nat
  OBVIOUS
<1>2. part \in Nat /\ part <= a /\ a * n <= part * d /\ part * d < a * n + d
  BY <1>1, CeilBounds, CeilPartAtMost
<1> HIDE DEF part
<1>3. a - part \in Nat /\ (a - part) * d = a * d - part * d
  BY <1>2
<1>4. (a - part) * d <= a * (d - n) /\ a * (d - n) < (a - part) * d + d
  BY <1>1, <1>2, <1>3
<1>5. (a * (d - n)) \div d = a - part
  BY <1>1, <1>3, <1>4, DivUnique
<1> QED
  BY <1>5 DEF part

\* The amount grossed up for a part k / d to leave net is the least that does, and
\* leaves net exactly.
LEMMA GrossedUp ==
    ASSUME NEW net \in Nat, NEW d \in Nat \ {0}, NEW k \in 1..d
    PROVE  LET gross == (net * d + k - 1) \div k
           IN  /\ gross \in Nat
               /\ (gross * k) \div d = net
               /\ net * d <= gross * k
               /\ \A less \in Nat : less < gross => less * k < net * d
<1> DEFINE gross == (net * d + k - 1) \div k
<1>1. k \in Nat \ {0} /\ k <= d /\ net * d \in Nat
  OBVIOUS
<1>2. gross \in Nat /\ net * d <= gross * k /\ gross * k < net * d + k
  BY <1>1, CeilBounds
<1> HIDE DEF gross
<1>3. gross * k \in Nat /\ gross * k < net * d + d
  BY <1>1, <1>2
<1>4. (gross * k) \div d = net
  BY <1>2, <1>3, DivUnique
<1>5. ASSUME NEW less \in Nat, less < gross
      PROVE  less * k < net * d
  <2>1. less * k <= (gross - 1) * k
    BY <1>1, <1>2, <1>5, MulMonotone
  <2>2. (gross - 1) * k = gross * k - k /\ less * k \in Nat
    BY <1>1, <1>2
  <2> QED
    BY <1>1, <1>2, <1>3, <2>1, <2>2
<1> QED
  BY <1>2, <1>4, <1>5 DEF gross

\* A share of a reserve is a natural number, whichever way it is rounded.
LEMMA ShareType ==
    ASSUME NEW lp \in Nat, NEW supply \in Nat \ {0}, NEW reserve \in Nat, NEW round
    PROVE  lp_tokens_to_trading_token(lp, supply, reserve, round) \in Nat
<1>1. lp * reserve \in Nat
  OBVIOUS
<1>2. (lp * reserve) \div supply \in Nat
  BY <1>1, DivBounds
<1> QED
  BY <1>2 DEF lp_tokens_to_trading_token

(***************************************************************************)
(* The fees of a swap (curve/fees.rs).                                     *)
(***************************************************************************)
\* The trading fee is at most the amount it is taken from.
LEMMA TradingFeeAtMost ==
    ASSUME NEW amount \in Nat, NEW rate \in 0..FEE_RATE_DENOMINATOR_VALUE
    PROVE  /\ trading_fee(amount, rate) \in Nat
           /\ trading_fee(amount, rate) <= amount
  BY CeilPartAtMost, FeeDenominatorAssumption DEF trading_fee, ceil_div

\* Two parts of a fee whose rates share out no more than the whole, each rounded
\* down, are together at most the fee.
LEMMA FeeSplitAtMost ==
    ASSUME NEW fee \in Nat, NEW p \in Nat, NEW f \in Nat,
           f + p <= FEE_RATE_DENOMINATOR_VALUE
    PROVE  /\ protocol_fee(fee, p) \in Nat
           /\ fund_fee(fee, f) \in Nat
           /\ protocol_fee(fee, p) + fund_fee(fee, f) <= fee
<1> DEFINE D == FEE_RATE_DENOMINATOR_VALUE
           P == (fee * p) \div D
           F == (fee * f) \div D
<1>1. D \in Nat \ {0}
  BY FeeDenominatorAssumption
<1>2. fee * p \in Nat /\ fee * f \in Nat /\ fee * p + fee * f = fee * (f + p)
  OBVIOUS
<1>3. P \in Nat /\ F \in Nat /\ P * D <= fee * p /\ F * D <= fee * f
  BY <1>1, <1>2, DivBounds
<1>4. (f + p) * fee <= D * fee
  BY <1>1, MulMonotone
<1>5. (P + F) * D <= fee * D
  <2>1. (P + F) * D = P * D + F * D
    BY <1>1, <1>3
  <2> QED
    BY <2>1, <1>1, <1>2, <1>3, <1>4
<1>6. P + F < fee + 1
  <2>1. (fee + 1) * D = fee * D + D
    BY <1>1
  <2>2. (P + F) * D < (fee + 1) * D
    BY <2>1, <1>1, <1>3, <1>5
  <2> HIDE DEF P, F, D
  <2> QED
    BY <2>2, <1>1, <1>3, CancelFactor
<1> QED
  BY <1>3, <1>6 DEF protocol_fee, fund_fee, floor_div

\* What the trading fee leaves of an amount.
LEMMA AfterTradingFee ==
    ASSUME NEW amount \in Nat, NEW rate \in 0..FEE_RATE_DENOMINATOR_VALUE
    PROVE  amount - trading_fee(amount, rate)
               = (amount * (FEE_RATE_DENOMINATOR_VALUE - rate)) \div FEE_RATE_DENOMINATOR_VALUE
<1>1. rate \in Nat /\ rate <= FEE_RATE_DENOMINATOR_VALUE
  BY FeeDenominatorAssumption
<1> QED
  BY <1>1, CeilPartLeaves, FeeDenominatorAssumption DEF trading_fee, ceil_div

\* The pre-fee amount leaves exactly the post-fee amount, and nothing less does.
LEMMA PreFeeExact ==
    ASSUME NEW post \in Nat, NEW rate \in 0..FEE_RATE_DENOMINATOR_VALUE - 1
    PROVE  LET pre == calculate_pre_fee_amount(post, rate)
           IN  /\ pre \in Nat
               /\ pre - trading_fee(pre, rate) = post
               /\ \A less \in Nat : less < pre => less - trading_fee(less, rate) < post
<1> DEFINE D == FEE_RATE_DENOMINATOR_VALUE
           k == D - rate
           gross == (post * D + k - 1) \div k
<1>1. D \in Nat \ {0} /\ k \in 1..D /\ rate \in 0..D
  BY FeeDenominatorAssumption
<1>2. /\ gross \in Nat
      /\ (gross * k) \div D = post
      /\ \A less \in Nat : less < gross => less * k < post * D
  BY <1>1, GrossedUp
<1>3. calculate_pre_fee_amount(post, rate) = gross
  <2>1. CASE rate = 0
    <3>1. post * D \in Nat /\ post * D + D - 1 \in Nat /\ k = D
      BY <1>1, <2>1
    <3>2. post * D <= post * D + D - 1 /\ post * D + D - 1 < post * D + D
      BY <1>1, <3>1
    <3>3. (post * D + D - 1) \div D = post
      BY <1>1, <3>1, <3>2, DivUnique
    <3> QED
      BY <2>1, <3>1, <3>3 DEF calculate_pre_fee_amount
  <2>2. CASE rate # 0
    BY <2>2 DEF calculate_pre_fee_amount
  <2> QED
    BY <2>1, <2>2
<1> HIDE DEF gross
<1>4. gross - trading_fee(gross, rate) = post
  BY <1>1, <1>2, AfterTradingFee
<1>5. ASSUME NEW less \in Nat, less < gross
      PROVE  less - trading_fee(less, rate) < post
  <2>1. less * k \in Nat /\ less * k < post * D
    BY <1>1, <1>2, <1>5
  <2>2. (less * k) \div D < post
    BY <1>1, <2>1, DivBelow
  <2> QED
    BY <1>1, <2>2, AfterTradingFee
<1> QED
  BY <1>2, <1>3, <1>4, <1>5

(***************************************************************************)
(* The curve (curve/constant_product.rs).                                  *)
(***************************************************************************)
\* checked_ceil_div, where it is not zero, is the quotient rounded up.
LEMMA CheckedCeilDiv ==
    ASSUME NEW n \in Nat, NEW r \in Nat \ {0}
    PROVE  LET c == checked_ceil_div(n, r)
           IN  /\ c \in Nat
               /\ c # 0 => n <= c * r /\ (c - 1) * r < n
<1> DEFINE q == n \div r
           c == checked_ceil_div(n, r)
<1>1. q \in Nat /\ q * r <= n /\ n < q * r + r /\ n % r \in 0..r - 1 /\ n = q * r + (n % r)
  BY DivBounds, QuotientAndRemainder
<1>2. CASE q = 0
  <2>1. c = IF 2 * n >= r THEN 1 ELSE 0
    BY <1>2 DEF checked_ceil_div
  <2>2. n < r
    BY <1>1, <1>2
  <2> QED
    BY <2>1, <2>2
<1>3. CASE q # 0
  <2>1. c = IF n % r > 0 THEN q + 1 ELSE q
    BY <1>3 DEF checked_ceil_div
  <2> HIDE DEF q, c
  <2>2. (q + 1) * r = q * r + r /\ (q - 1) * r = q * r - r
    BY <1>1
  <2>3. CASE n % r > 0
    BY <1>1, <2>1, <2>2, <2>3 DEF c
  <2>4. CASE ~(n % r > 0)
    <3>1. c = q /\ n = q * r
      BY <1>1, <2>1, <2>4
    <3> QED
      BY <1>1, <2>2, <3>1 DEF c
  <2> QED
    BY <2>3, <2>4
<1> QED
  BY <1>2, <1>3

\* The curve pays out at most the reserve.
LEMMA InputSwapOutput ==
    ASSUME NEW dx \in Nat, NEW x \in Nat \ {0}, NEW y \in Nat
    PROVE  /\ swap_base_input_without_fees(dx, x, y) \in Nat
           /\ swap_base_input_without_fees(dx, x, y) <= y
<1>1. dx * y \in Nat /\ x + dx \in Nat \ {0}
  OBVIOUS
<1>2. dx * y < y * (x + dx) + (x + dx)
  <2>1. y * (x + dx) = y * x + dx * y /\ y * x \in Nat
    OBVIOUS
  <2> QED
    BY <2>1
<1> QED
  BY <1>1, <1>2, DivBounds, DivAtMost DEF swap_base_input_without_fees

\* The curve pays a tokens for dx exactly if dx covers their price x * a / (y - a).
LEMMA PaysForPrice ==
    ASSUME NEW dx \in Nat, NEW x \in Nat \ {0}, NEW y \in Nat, NEW a \in Nat, a <= y
    PROVE  LET paid == swap_base_input_without_fees(dx, x, y)
           IN  /\ paid \in Nat
               /\ x * a <= dx * (y - a) => a <= paid
               /\ dx * (y - a) < x * a => paid < a
<1> DEFINE n == dx * y
           r == x + dx
<1>1. n \in Nat /\ r \in Nat \ {0} /\ n \div r \in Nat
  BY DivBounds
<1>2. dx * (y - a) = n - dx * a /\ a * r = x * a + dx * a /\ dx * a \in Nat /\ x * a \in Nat
  OBVIOUS
<1>3. ASSUME x * a <= dx * (y - a)
      PROVE  a <= n \div r
  BY <1>1, <1>2, <1>3, DivAtLeast
<1>4. ASSUME dx * (y - a) < x * a
      PROVE  n \div r < a
  BY <1>1, <1>2, <1>4, DivBelow
<1> QED
  BY <1>1, <1>3, <1>4 DEF swap_base_input_without_fees

\* What an exact output costs before fees is the least input that covers its price,
\* unless it is rounded down to nothing.
LEMMA PriceOfOutput ==
    ASSUME NEW a \in Nat, NEW x \in Nat, NEW y \in Nat, a < y
    PROVE  LET price == swap_base_output_without_fees(a, x, y)
           IN  /\ price \in Nat
               /\ price # 0 => /\ x * a <= price * (y - a)
                               /\ (price - 1) * (y - a) < x * a
<1>1. x * a \in Nat /\ y - a \in Nat \ {0}
  OBVIOUS
<1> QED
  BY <1>1, CheckedCeilDiv DEF swap_base_output_without_fees

\* Trading dx for at most what the curve pays for it keeps the product.
LEMMA CurveKeepsProduct ==
    ASSUME NEW dx \in Nat, NEW x \in Nat \ {0}, NEW y \in Nat
    PROVE  (x + dx) * (y - swap_base_input_without_fees(dx, x, y)) >= x * y
<1> DEFINE paid == swap_base_input_without_fees(dx, x, y)
<1>1. dx * y \in Nat /\ x + dx \in Nat \ {0}
  OBVIOUS
<1>2. paid \in Nat /\ paid * (x + dx) <= dx * y
  BY <1>1, DivBounds DEF swap_base_input_without_fees
<1> HIDE DEF paid
<1>3. (x + dx) * (y - paid) = x * y + dx * y - paid * (x + dx)
  BY <1>2
<1>4. x * y \in Nat /\ paid * (x + dx) \in Nat
  BY <1>2
<1>5. (x + dx) * (y - paid) >= x * y
  BY <1>1, <1>2, <1>3, <1>4
<1> QED
  BY <1>5 DEF paid

(***************************************************************************)
(* Swaps and shares (curve/calculator.rs).                                 *)
(***************************************************************************)
\* The rates of config are ones create_amm_config accepts.
RatesFit(config) ==
    /\ config.trade_fee_rate \in 0..FEE_RATE_DENOMINATOR_VALUE - 1
    /\ config.protocol_fee_rate \in Nat
    /\ config.fund_fee_rate \in Nat
    /\ config.fund_fee_rate + config.protocol_fee_rate <= FEE_RATE_DENOMINATOR_VALUE

\* Whatever the amount swapped, the fees of a SwapResult are within it.
LEMMA ResultFeesWithin ==
    ASSUME NEW config, RatesFit(config), NEW source \in Nat, NEW destination, NEW x, NEW y
    PROVE  LET result == SwapResult(source, destination, x, y, config)
           IN  /\ result.source_amount_swapped = source
               /\ result.destination_amount_swapped = destination
               /\ result.trade_fee \in Nat /\ result.trade_fee <= source
               /\ result.protocol_fee \in Nat /\ result.fund_fee \in Nat
               /\ result.protocol_fee + result.fund_fee <= result.trade_fee
<1> DEFINE fee == trading_fee(source, config.trade_fee_rate)
<1>1. /\ config.trade_fee_rate \in 0..FEE_RATE_DENOMINATOR_VALUE
      /\ config.protocol_fee_rate \in Nat
      /\ config.fund_fee_rate \in Nat
      /\ config.fund_fee_rate + config.protocol_fee_rate <= FEE_RATE_DENOMINATOR_VALUE
  BY FeeDenominatorAssumption DEF RatesFit
<1>2. fee \in Nat /\ fee <= source
  BY <1>1, TradingFeeAtMost
<1>3. /\ protocol_fee(fee, config.protocol_fee_rate) \in Nat
      /\ fund_fee(fee, config.fund_fee_rate) \in Nat
      /\ protocol_fee(fee, config.protocol_fee_rate) + fund_fee(fee, config.fund_fee_rate)
            <= fee
  BY <1>1, <1>2, FeeSplitAtMost
<1> QED
  BY <1>2, <1>3 DEF SwapResult

\* A fee of nothing is nothing.
LEMMA NothingLeavesNothing ==
    ASSUME NEW config, RatesFit(config)
    PROVE  0 - trading_fee(0, config.trade_fee_rate) = 0
<1>1. config.trade_fee_rate \in 0..FEE_RATE_DENOMINATOR_VALUE
  BY FeeDenominatorAssumption DEF RatesFit
<1> DEFINE fee == trading_fee(0, config.trade_fee_rate)
<1>2. fee \in Nat /\ fee <= 0
  BY <1>1, TradingFeeAtMost
<1> HIDE DEF fee
<1>3. 0 - fee = 0
  BY <1>2
<1> QED
  BY <1>3 DEF fee

\* What the handlers compare with the product of the reserves.
LEMMA ConstantAfterSwap ==
    ASSUME NEW source, NEW destination, NEW x, NEW y, NEW config
    PROVE  LET result == SwapResult(source, destination, x, y, config)
           IN  constant_after(result)
                   = ((x + source) - result.trade_fee) * (y - destination)
<1> DEFINE result == SwapResult(source, destination, x, y, config)
<1>1. /\ result.new_swap_source_amount = x + source
      /\ result.new_swap_destination_amount = y - destination
  BY DEF SwapResult
<1> HIDE DEF result
<1>2. constant_after(result) = ((x + source) - result.trade_fee) * (y - destination)
  BY <1>1, Zenon DEF constant_after
<1> QED
  BY <1>2 DEF result

\* With the whole trading fee taken out, what is left of the source is traded.
LEMMA ConstantOfNet ==
    ASSUME NEW config, RatesFit(config), NEW source \in Nat, NEW destination \in Int,
           NEW x \in Nat, NEW y \in Nat
    PROVE  /\ source - trading_fee(source, config.trade_fee_rate) \in Nat
           /\ constant_after(SwapResult(source, destination, x, y, config))
                  = (x + (source - trading_fee(source, config.trade_fee_rate)))
                        * (y - destination)
<1> DEFINE result == SwapResult(source, destination, x, y, config)
           fee == trading_fee(source, config.trade_fee_rate)
<1>1. result.trade_fee = fee /\ fee \in Nat /\ fee <= source
  BY ResultFeesWithin DEF SwapResult
<1>2. constant_after(result) = ((x + source) - fee) * (y - destination)
  BY <1>1, ConstantAfterSwap
<1> HIDE DEF result, fee
<1>3. (x + source) - fee = x + (source - fee)
  BY <1>1
<1> QED
  BY <1>1, <1>2, <1>3 DEF result, fee

\* A swap of an exact input keeps the product of the reserves.
LEMMA InputSwapKeepsConstant ==
    ASSUME NEW config, RatesFit(config), NEW source \in Nat, NEW x \in Nat \ {0}, NEW y \in Nat
    PROVE  constant_after(swap_base_input(source, x, y, config)) >= x * y
<1> DEFINE net == source - trading_fee(source, config.trade_fee_rate)
           paid == swap_base_input_without_fees(net, x, y)
<1>1. net \in Nat
  BY ConstantOfNet
<1>2. paid \in Nat /\ (x + net) * (y - paid) >= x * y
  BY <1>1, PaysForPrice, CurveKeepsProduct
<1>3. constant_after(SwapResult(source, paid, x, y, config)) = (x + net) * (y - paid)
  BY <1>2, ConstantOfNet
<1> QED
  BY <1>2, <1>3 DEF swap_base_input

\* The price of an exact output, fees included: what it leaves after the trading fee
\* is the price of the curve, and nothing less leaves as much.
LEMMA OutputSwapPrice ==
    ASSUME NEW config, RatesFit(config), NEW a \in Nat, NEW x \in Nat, NEW y \in Nat, a < y
    PROVE  LET price == swap_base_output_without_fees(a, x, y)
               cost  == swap_base_output(a, x, y, config).source_amount_swapped
           IN  /\ price \in Nat /\ cost \in Nat
               /\ cost - trading_fee(cost, config.trade_fee_rate) = price
               /\ \A less \in Nat :
                     less < cost => less - trading_fee(less, config.trade_fee_rate) < price
               /\ swap_base_output(a, x, y, config) = SwapResult(cost, a, x, y, config)
<1> DEFINE price == swap_base_output_without_fees(a, x, y)
           pre   == calculate_pre_fee_amount(price, config.trade_fee_rate)
<1>1. price \in Nat
  BY PriceOfOutput
<1>2. swap_base_output(a, x, y, config) = SwapResult(pre, a, x, y, config)
  BY DEF swap_base_output
<1>3. SwapResult(pre, a, x, y, config).source_amount_swapped = pre
  BY DEF SwapResult
<1> HIDE DEF price
<1> QED
  BY <1>1, <1>2, <1>3, PreFeeExact DEF RatesFit, price

\* A swap for an exact output that costs something keeps the product of the reserves.
LEMMA OutputSwapKeepsConstant ==
    ASSUME NEW config, RatesFit(config), NEW a \in Nat, NEW x \in Nat, NEW y \in Nat, a < y,
           swap_base_output(a, x, y, config).source_amount_swapped > 0
    PROVE  constant_after(swap_base_output(a, x, y, config)) >= x * y
<1> DEFINE price == swap_base_output_without_fees(a, x, y)
           cost  == swap_base_output(a, x, y, config).source_amount_swapped
<1>1. /\ price \in Nat /\ cost \in Nat /\ cost > 0
      /\ cost - trading_fee(cost, config.trade_fee_rate) = price
      /\ \A less \in Nat :
            less < cost => less - trading_fee(less, config.trade_fee_rate) < price
      /\ swap_base_output(a, x, y, config) = SwapResult(cost, a, x, y, config)
  BY OutputSwapPrice
<1> HIDE DEF cost
<1>2. price # 0
  <2>1. 0 - trading_fee(0, config.trade_fee_rate) < price
    BY <1>1
  <2>2. 0 - trading_fee(0, config.trade_fee_rate) = 0
    BY NothingLeavesNothing
  <2> QED
    BY <2>1, <2>2
<1>3. x * a <= price * (y - a)
  BY <1>2, PriceOfOutput
<1>4. constant_after(SwapResult(cost, a, x, y, config)) = (x + price) * (y - a)
  BY <1>1, ConstantOfNet
<1> HIDE DEF price
<1>5. (x + price) * (y - a) = x * y - x * a + price * (y - a)
  BY <1>1
<1>6. x * y \in Nat /\ x * a \in Nat /\ price * (y - a) \in Nat /\ y - a \in Nat
  BY <1>1
<1>7. (x + price) * (y - a) >= x * y
  BY <1>3, <1>5, <1>6
<1> QED
  BY <1>1, <1>4, <1>7

\* A swap for an exact output costs the least input for which the curve pays as much.
LEMMA OutputSwapPricedExactly ==
    ASSUME NEW config, RatesFit(config), NEW a \in Nat, NEW x \in Nat \ {0}, NEW y \in Nat,
           a < y, swap_base_output(a, x, y, config).source_amount_swapped > 0,
           NEW input \in Nat
    PROVE  LET cost == swap_base_output(a, x, y, config).source_amount_swapped
               paid == swap_base_input(input, x, y, config).destination_amount_swapped
           IN  /\ input = cost => paid >= a
               /\ input < cost => paid < a
<1> DEFINE price == swap_base_output_without_fees(a, x, y)
           cost  == swap_base_output(a, x, y, config).source_amount_swapped
           net   == input - trading_fee(input, config.trade_fee_rate)
           paid  == swap_base_input_without_fees(net, x, y)
<1>1. swap_base_input(input, x, y, config).destination_amount_swapped = paid
  BY DEF swap_base_input, SwapResult
<1>2. /\ price \in Nat /\ cost \in Nat /\ cost > 0
      /\ input = cost => net = price
      /\ input < cost => net < price
      /\ cost > 0 => price > 0
  <2>1. /\ price \in Nat /\ cost \in Nat
        /\ cost - trading_fee(cost, config.trade_fee_rate) = price
        /\ \A less \in Nat :
              less < cost => less - trading_fee(less, config.trade_fee_rate) < price
    BY OutputSwapPrice
  <2>2. 0 - trading_fee(0, config.trade_fee_rate) = 0
    BY NothingLeavesNothing
  <2> HIDE DEF price, cost
  <2>3. cost > 0 => price > 0
    BY <2>1, <2>2
  <2> QED
    BY <2>1, <2>3 DEF cost
<1>3. net \in Nat
  BY ConstantOfNet, a \in Int, x \in Nat, y \in Nat
<1>4. x * a <= price * (y - a) /\ (price - 1) * (y - a) < x * a
  BY <1>2, PriceOfOutput, x \in Nat, price # 0
<1> HIDE DEF price, cost, net
<1>5. paid \in Nat
  BY <1>3, PaysForPrice, a <= y
<1>6. ASSUME input = cost
      PROVE  paid >= a
  BY <1>2, <1>3, <1>4, <1>5, <1>6, PaysForPrice
<1>7. ASSUME input < cost
      PROVE  paid < a
  <2>1. net <= price - 1 /\ y - a \in Nat
    BY <1>2, <1>3, <1>7
  <2>2. net * (y - a) <= (price - 1) * (y - a)
    BY <1>2, <1>3, <2>1, MulMonotone
  <2>3. net * (y - a) < x * a
    BY <1>2, <1>3, <1>4, <2>1, <2>2
  <2> QED
    BY <1>3, <2>3, PaysForPrice
<1> QED
  BY <1>1, <1>6, <1>7 DEF cost

\* A share rounded up, unless it is zero, is worth at least the LP tokens.
LEMMA CeilingShare ==
    ASSUME NEW lp \in Nat, NEW supply \in Nat \ {0}, NEW reserve \in Nat,
           lp_tokens_to_trading_token(lp, supply, reserve, "Ceiling") # 0
    PROVE  lp * reserve <= lp_tokens_to_trading_token(lp, supply, reserve, "Ceiling") * supply
<1> DEFINE n == lp * reserve
           q == n \div supply
<1>1. n \in Nat
  OBVIOUS
<1>2. q \in Nat /\ n < q * supply + supply
  BY <1>1, DivBounds
<1>3. CASE n % supply > 0 /\ q > 0
  <2>1. lp_tokens_to_trading_token(lp, supply, reserve, "Ceiling") = q + 1
    BY <1>3 DEF lp_tokens_to_trading_token
  <2>2. (q + 1) * supply = q * supply + supply
    BY <1>2
  <2> QED
    BY <1>1, <1>2, <2>1, <2>2
<1>4. CASE ~(n % supply > 0 /\ q > 0)
  <2>1. lp_tokens_to_trading_token(lp, supply, reserve, "Ceiling") = q
    BY <1>4 DEF lp_tokens_to_trading_token
  <2>2. q > 0
    BY <1>2, <2>1
  <2>3. n % supply = 0
    BY <1>1, <1>4, <2>2
  <2>4. n = q * supply + (n % supply)
    BY <1>1, QuotientAndRemainder
  <2> QED
    BY <1>1, <1>2, <2>1, <2>3, <2>4
<1> QED
  BY <1>3, <1>4

\* A share rounded down is worth at most the LP tokens.
LEMMA FloorShare ==
    ASSUME NEW lp \in Nat, NEW supply \in Nat \ {0}, NEW reserve \in Nat
    PROVE  lp_tokens_to_trading_token(lp, supply, reserve, "Floor") * supply <= lp * reserve
<1>1. lp * reserve \in Nat
  OBVIOUS
<1>2. ((lp * reserve) \div supply) * supply <= lp * reserve
  BY <1>1, DivBounds
<1> QED
  BY <1>2 DEF lp_tokens_to_trading_token

\* Neither rounding moves a share by a whole token.
LEMMA ShareWithinOne ==
    ASSUME NEW lp \in Nat, NEW supply \in Nat \ {0}, NEW reserve \in Nat
    PROVE  LET share(round) == lp_tokens_to_trading_token(lp, supply, reserve, round)
           IN  /\ lp * reserve < (share("Floor") + 1) * supply
               /\ share("Ceiling") # 0 => (share("Ceiling") - 1) * supply < lp * reserve
<1> DEFINE n == lp * reserve
           q == n \div supply
           share(round) == lp_tokens_to_trading_token(lp, supply, reserve, round)
<1>1. n \in Nat
  OBVIOUS
<1>2. q \in Nat /\ n < q * supply + supply /\ q * supply <= n
  BY <1>1, DivBounds
<1>3. n = q * supply + (n % supply)
  BY <1>1, QuotientAndRemainder
<1>4. /\ share("Floor") = q
      /\ share("Ceiling") = IF n % supply > 0 /\ q > 0 THEN q + 1 ELSE q
  BY DEF lp_tokens_to_trading_token
<1> HIDE DEF q, n
<1>5. (q + 1) * supply = q * supply + supply /\ (q - 1) * supply = q * supply - supply
  BY <1>2
<1>6. n < (share("Floor") + 1) * supply
  BY <1>2, <1>4, <1>5
<1>7. ASSUME share("Ceiling") # 0
      PROVE  (share("Ceiling") - 1) * supply < n
  <2>1. CASE n % supply > 0 /\ q > 0
    <3>1. share("Ceiling") - 1 = q
      BY <1>2, <1>4, <2>1
    <3>2. q * supply < n
      BY <1>1, <1>2, <1>3, <2>1
    <3> QED
      BY <3>1, <3>2
  <2>2. CASE ~(n % supply > 0 /\ q > 0)
    <3>1. share("Ceiling") = q
      BY <1>4, <2>2
    <3> QED
      BY <1>1, <1>2, <1>5, <3>1
  <2> QED
    BY <2>1, <2>2
<1> QED
  BY <1>6, <1>7 DEF n

(***************************************************************************)
(* Reserves and shares.                                                    *)
(***************************************************************************)
\* Who pays at least its part of a reserve for new LP tokens dilutes nobody.
LEMMA PaidSharesKeep ==
    ASSUME NEW r \in Nat, NEW supply \in Nat, NEW lp_amount \in Nat, NEW amount \in Nat,
           NEW rp \in Nat, lp_amount * r <= amount * supply, rp >= r + amount
    PROVE  rp * supply >= r * (supply + lp_amount)
<1>1. (r + amount) * supply <= rp * supply
  BY MulMonotone
<1>2. (r + amount) * supply = r * supply + amount * supply
  OBVIOUS
<1>3. r * (supply + lp_amount) = r * supply + lp_amount * r
  OBVIOUS
<1>4. /\ r * supply \in Nat /\ lp_amount * r \in Nat /\ amount * supply \in Nat
      /\ rp * supply \in Nat
  OBVIOUS
<1> QED
  BY <1>1, <1>2, <1>3, <1>4

\* Who takes no more than its part of a reserve for the LP tokens it burns dilutes
\* nobody.
LEMMA BurntSharesKeep ==
    ASSUME NEW r \in Nat, NEW supply \in Nat, NEW lp_amount \in 0..supply, NEW amount \in 0..r,
           NEW rp \in Nat, amount * supply <= lp_amount * r, rp >= r - amount
    PROVE  rp * supply >= r * (supply - lp_amount)
<1>1. (r - amount) * supply <= rp * supply
  BY MulMonotone, r - amount \in Nat
<1>2. (r - amount) * supply = r * supply - amount * supply
  OBVIOUS
<1>3. r * (supply - lp_amount) = r * supply - lp_amount * r
  OBVIOUS
<1>4. /\ r * supply \in Nat /\ lp_amount * r \in Nat /\ amount * supply \in Nat
      /\ rp * supply \in Nat
  OBVIOUS
<1> QED
  BY <1>1, <1>2, <1>3, <1>4

\* If the constant does not fall although something was taken out, something came in.
LEMMA ConstantForcesInput ==
    ASSUME NEW x \in Nat \ {0}, NEW y \in Nat, NEW dx \in Int, NEW dy \in Nat \ {0},
           dy <= y, (x + dx) * (y - dy) >= x * y
    PROVE  dx > 0
<1>1. CASE dx <= 0
  <2>1. (x + dx) * (y - dy) <= x * (y - dy)
    BY <1>1, MulMonotone, y - dy \in Nat
  <2>2. x * (y - dy) = x * y - x * dy
    OBVIOUS
  <2>3. x * dy > 0
    OBVIOUS
  <2> QED
    BY <2>1, <2>2, <2>3
<1> QED
  BY <1>1

\* What came in, less the fee, and what went out decide how a trade changes the
\* reserves and their product.
LEMMA TradeArithmetic ==
    ASSUME NEW x \in Nat \ {0}, NEW y \in Nat, NEW xp \in Nat, NEW yp \in Nat,
           NEW net \in Int, NEW out \in Nat \ {0}, NEW leaves \in 0..out,
           out <= y, xp >= x + net, yp = y - leaves,
           (x + net) * (y - out) >= x * y
    PROVE  xp > x /\ yp <= y /\ xp * yp >= x * y
<1>1. net > 0
  BY ConstantForcesInput
<1>2. x + net \in Nat /\ y - out \in Nat
  BY <1>1
<1>3. (x + net) * (y - out) <= xp * yp
  BY <1>2, ProductMonotone
<1>4. (x + net) * (y - out) \in Nat /\ xp * yp \in Nat /\ x * y \in Nat
  BY <1>2
<1> QED
  BY <1>1, <1>3, <1>4

(***************************************************************************)
(* Transfer fees (utils/token.rs).                                         *)
(***************************************************************************)
\* The token program never takes more than what is transferred.
LEMMA TransferFeeAtMost ==
    ASSUME NEW fee \in TransferFeeType, NEW amount \in Nat
    PROVE  /\ get_transfer_fee(fee, amount) \in Nat
           /\ get_transfer_fee(fee, amount) <= amount
<1>1. /\ fee.basis_points \in Nat
      /\ fee.basis_points <= MAX_FEE_BASIS_POINTS
      /\ fee.maximum_fee \in Nat
  BY BasisPointsAssumption DEF TransferFeeType
<1>2. LET raw == (amount * fee.basis_points + MAX_FEE_BASIS_POINTS - 1)
                     \div MAX_FEE_BASIS_POINTS
      IN  raw \in Nat /\ raw <= amount
  BY <1>1, CeilPartAtMost, BasisPointsAssumption
<1> QED
  BY <1>1, <1>2 DEF get_transfer_fee, calculate_fee, Lesser

\* For every fee and every maximum the inverse fee is the one the token program takes
\* from the grossed-up amount, and a token less would not bring the amount asked for.
LEMMA InverseFeeIsLeast ==
    ASSUME NEW fee \in TransferFeeType, NEW amount \in Nat \ {0}
    PROVE  LET gross == amount + get_transfer_inverse_fee(fee, amount)
           IN  /\ get_transfer_inverse_fee(fee, amount) \in Nat
               /\ gross \in Nat \ {0}
               /\ inverse_fee_matches(fee, amount)
               /\ gross - get_transfer_fee(fee, gross) = amount
               /\ (gross - 1) - get_transfer_fee(fee, gross - 1) < amount
<1> DEFINE M == MAX_FEE_BASIS_POINTS
           bps == fee.basis_points
           max == fee.maximum_fee
           part(n) == (n * bps + M - 1) \div M
           charged(n) == Lesser(part(n), max)
           k == M - bps
<1>1. M \in Nat \ {0} /\ bps \in 0..M /\ max \in Nat /\ bps \in Nat /\ bps <= M
  BY BasisPointsAssumption DEF TransferFeeType
<1>2. \A n \in Nat : calculate_fee(fee, n) = charged(n)
  BY DEF calculate_fee
<1>3. ASSUME NEW n \in Nat
      PROVE  part(n) \in Nat /\ n - part(n) = (n * k) \div M
  BY <1>1, CeilPartAtMost, CeilPartLeaves
<1>4. CASE bps = M
  <2>1. get_transfer_inverse_fee(fee, amount) = max
    BY <1>4 DEF get_transfer_inverse_fee
  <2>2. inverse_fee_matches(fee, amount)
    BY <1>4 DEF inverse_fee_matches
  <2>3. ASSUME NEW n \in Nat
        PROVE  part(n) = n
    <3>1. n * k = 0 /\ 0 \div M = 0
      BY <1>1, <1>4
    <3> HIDE DEF part, k
    <3> QED
      BY <1>3, <3>1
  <2> HIDE DEF part
  <2>4. charged(amount + max) = max /\ charged(amount + max - 1) = max
    BY <1>1, <2>3 DEF Lesser
  <2> QED
    BY <1>1, <1>2, <2>1, <2>2, <2>4 DEF get_transfer_fee
<1>5. CASE bps # M
  <2> DEFINE raw == (amount * M + k - 1) \div k
  <2>1. k \in 1..M
    BY <1>1, <1>5
  <2>2. /\ raw \in Nat
        /\ (raw * k) \div M = amount
        /\ amount * M <= raw * k
        /\ \A less \in Nat : less < raw => less * k < amount * M
    BY <1>1, <2>1, GrossedUp
  <2>3. get_transfer_inverse_fee(fee, amount)
            = charged(IF raw - amount >= max THEN amount + max ELSE raw)
    <3>1. token_pre_fee_amount(fee, amount)
              = IF raw - amount >= max THEN amount + max ELSE raw
      BY DEF token_pre_fee_amount
    <3>2. token_pre_fee_amount(fee, amount) \in Nat
      BY <1>1, <2>2, <3>1
    <3> QED
      BY <1>2, <1>5, <3>1, <3>2 DEF get_transfer_inverse_fee, calculate_inverse_fee
  <2>4. inverse_fee_matches(fee, amount)
            <=> calculate_fee(fee, amount + get_transfer_inverse_fee(fee, amount))
                    = get_transfer_inverse_fee(fee, amount)
    BY <1>5 DEF inverse_fee_matches, get_transfer_inverse_fee
  <2> HIDE DEF raw, part, k, M, bps, max
  \* Below the gross amount too little is left for any fee that is not the maximum.
  <2>5. ASSUME NEW n \in Nat, n < raw
        PROVE  n - part(n) < amount
    <3>1. n * k \in Nat /\ n * k < amount * M
      BY <2>1, <2>2, <2>5
    <3> QED
      BY <1>1, <1>3, <3>1, DivBelow
  <2>6. CASE raw - amount >= max
    <3> DEFINE gross == amount + max
    <3>1. gross \in Nat \ {0} /\ gross <= raw /\ gross - 1 \in Nat /\ gross - 1 < raw
      BY <1>1, <2>2, <2>6
    <3>2. part(gross - 1) \in Nat /\ part(gross - 1) >= max
      BY <1>1, <1>3, <2>5, <3>1
    <3>3. part(gross) \in Nat /\ part(gross) >= max
      <4>1. CASE gross < raw
        BY <1>1, <1>3, <2>5, <3>1, <4>1
      <4>2. CASE gross = raw
        BY <1>1, <1>3, <2>2, <3>1, <4>2
      <4> QED
        BY <2>2, <3>1, <4>1, <4>2
    <3>4. charged(gross) = max /\ charged(gross - 1) = max
      BY <1>1, <3>2, <3>3 DEF Lesser
    <3>5. get_transfer_inverse_fee(fee, amount) = max
      BY <2>3, <2>6, <3>4
    <3> QED
      BY <1>1, <1>2, <2>4, <3>1, <3>4, <3>5 DEF get_transfer_fee
  <2>7. CASE raw - amount < max
    <3>1. part(raw) = raw - amount /\ part(raw) \in Nat
      BY <1>3, <2>2
    <3>2. charged(raw) = raw - amount /\ raw >= amount
      BY <1>1, <2>2, <2>7, <3>1 DEF Lesser
    <3>3. get_transfer_inverse_fee(fee, amount) = raw - amount
      BY <1>1, <2>2, <2>3, <2>7, <3>2
    <3>4. raw - 1 \in Nat /\ part(raw - 1) \in Nat /\ part(raw - 1) >= raw - amount
      BY <1>3, <2>2, <2>5, <3>2
    <3>5. charged(raw - 1) >= raw - amount
      BY <1>1, <2>2, <2>7, <3>4 DEF Lesser
    <3>6. charged(raw - 1) \in Int
      BY <1>1, <3>4 DEF Lesser
    <3> QED
      BY <1>2, <2>2, <2>4, <3>2, <3>3, <3>4, <3>5, <3>6 DEF get_transfer_fee
  <2> QED
    BY <1>1, <2>2, <2>6, <2>7
<1> QED
  BY <1>4, <1>5

\* The token program takes exactly the inverse fee from the grossed-up amount: the
\* recipient gets the amount asked for.
LEMMA InverseFeeCredited ==
    ASSUME NEW fee \in TransferFeeType, NEW amount \in Nat,
           get_transfer_inverse_fee_defined(fee, amount)
    PROVE  LET inverse == get_transfer_inverse_fee(fee, amount)
           IN  /\ inverse \in Nat
               /\ get_transfer_fee(fee, amount + inverse) = inverse
<1> DEFINE inverse == get_transfer_inverse_fee(fee, amount)
           gross == amount + inverse
<1>1. amount \in Nat \ {0}
  BY DEF get_transfer_inverse_fee_defined
<1>2. inverse \in Nat /\ gross \in Nat /\ gross - get_transfer_fee(fee, gross) = amount
  BY <1>1, InverseFeeIsLeast
<1> HIDE DEF inverse
<1>3. get_transfer_fee(fee, gross) \in Nat
  BY <1>2, TransferFeeAtMost
<1> QED
  BY <1>1, <1>2, <1>3 DEF inverse
============================================================================
