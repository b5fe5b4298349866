---------------------------- MODULE ClientProofs ----------------------------
(***************************************************************************)
(* The client's two parts: a command next to a pool that others use, and   *)
(* the parser of logs.                                                     *)
(*                                                                         *)
(* The command.  Its transaction is a step of the pool with amounts no     *)
(* bound of a run limits, so ClientInv takes the pool's invariants along   *)
(* (AnyStep of PoolProofs), and with them: what the client fetched         *)
(* together is consistent, so it quotes amounts and its limits are         *)
(* amounts.  TxnKeepsToQuote follows a quote into the limit, the lemmas    *)
(* on what an instruction pays and receives follow the limit into the      *)
(* vaults.  SlippageAlwaysKept assumes NoFeeOnDeposits: the limits of a    *)
(* deposit of mints with a fee are wrong (DepositLimit.cfg).               *)
(*                                                                         *)
(* The parser next to logs of every length, calls of every depth, any      *)
(* number of programs, whatever they log and emit, and whichever lines are *)
(* dropped.  LogInv is inductive.  A line does one of three things to the  *)
(* parser's stack (LinePushes, LinePops, LineQuiet); where it should have  *)
(* done another, or is not in the log, misled says so.                     *)
(***************************************************************************)
EXTENDS Client, LogParser, PoolProofs, SequenceTheorems

(***************************************************************************)
(* The command: what holds at every step.                                  *)
(***************************************************************************)
\* The pool is in order, what the client read is consistent, and so is what it sends.
ClientInv ==
    /\ AccountInv
    /\ LpSupplyBacked
    /\ ClientTypeOK
    /\ SeenIsConsistent
    /\ stage \in {"found", "fetched", "priced"} /\ command.kind # "InitializePool" =>
          created
    /\ stage \in {"fetched", "priced"} /\ command.kind # "InitializePool" =>
          RatesFit(seen.amm_config)
    /\ txn.status = "pending" => stage \in {"sent", "done"}

(***************************************************************************)
(* The pool under the client's transaction.                                *)
(***************************************************************************)
\* What the user typed.
LEMMA CommandTyped ==
    ASSUME ClientTypeOK
    PROVE  /\ command.kind \in {"InitializePool", "Deposit", "Withdraw", "SwapBaseIn",
                                "SwapBaseOut"}
           /\ input \in Side /\ output \in Side /\ output # input
           /\ command.amount \in [Side -> Nat] /\ amount \in Nat
           /\ init_amounts \in [Side -> Nat]
<1>1. command \in CommandType
  BY ClientAssumption DEF ClientTypeOK
<1>2. command.kind \in {"InitializePool", "Deposit", "Withdraw", "SwapBaseIn", "SwapBaseOut"}
      /\ input \in Side /\ command.amount \in [Side -> Nat]
  BY <1>1 DEF CommandType, input
<1>3. output \in Side /\ output # input
  BY <1>2, OtherSide DEF output
<1>4. amount \in Nat
  BY <1>2 DEF amount, Side
<1>5. init_amounts \in [Side -> Nat]
  BY <1>2, OtherSide DEF init_amounts
<1> QED
  BY <1>2, <1>3, <1>4, <1>5

\* Whatever limits the client puts in, its instruction is a step of the pool.
LEMMA ExecutesIsAnyStep ==
    ASSUME ClientTypeOK, NEW limit \in [Side -> Nat], Executes(limit)
    PROVE  AnyStep
<1>1. /\ input \in Side /\ output \in Side /\ amount \in Nat
      /\ init_amounts \in [Side -> Nat]
      /\ limit[input] \in Nat /\ limit[output] \in Nat
      /\ {output} \in SUBSET Side /\ Side \in SUBSET Side /\ 0 \in Nat
  BY CommandTyped
<1>2. CASE initialize_pool_instr
  BY <1>1, <1>2 DEF initialize_pool_instr, AnyStep
<1>3. CASE deposit_instr(limit)
  BY <1>1, <1>3 DEF deposit_instr, AnyStep
<1>4. CASE withdraw_instr(limit)
  BY <1>1, <1>4 DEF withdraw_instr, AnyStep
<1>5. CASE swap_base_input_instr(limit)
  BY <1>1, <1>5 DEF swap_base_input_instr, AnyStep
<1>6. CASE swap_base_output_instr(limit)
  BY <1>1, <1>6 DEF swap_base_output_instr, AnyStep
<1> QED
  BY <1>2, <1>3, <1>4, <1>5, <1>6 DEF Executes

\* Every step next to the client is one of the pool, or the pool does not notice it.
LEMMA PoolStep ==
    ASSUME ClientTypeOK, [ClientNext]_all_vars
    PROVE  [AnyStep]_vars
<1>1. CASE ClientStep \/ CallFails \/ Expire \/ UNCHANGED all_vars
  BY <1>1
  DEF ClientStep, FindPool, FetchAccounts, FetchMints, GetEpoch, SendTxn, Confirm, CallFails,
      Expire, all_vars
<1>2. CASE Land
  <2>1. txn.limit \in [Side -> Nat]
    BY DEF ClientTypeOK
  <2>2. Executes(txn.limit) \/ UNCHANGED vars
    BY <1>2 DEF Land
  <2> QED
    BY <2>1, <2>2, ExecutesIsAnyStep
<1>3. CASE ~Settled /\ Next /\ UNCHANGED client_vars
  BY <1>3, NextIsAnyStep
<1> QED
  BY <1>1, <1>2, <1>3 DEF ClientNext

\* The accounts stay in order, the LP tokens backed.
LEMMA PoolStaysInOrder ==
    ASSUME AccountInv, LpSupplyBacked, [AnyStep]_vars
    PROVE  AccountInv' /\ LpSupplyBacked'
<1>1. AccountInv'
  BY AccountInvStep
<1>2. Ledger!Next \/ UNCHANGED Ledger!ledger
  BY <1>1, LedgerStep
<1> QED
  BY <1>1, <1>2, BackedStep

\* No step unmakes a pool.
LEMMA CreatedForGood ==
    ASSUME created, [AnyStep]_vars
    PROVE  created'
<1>1. ASSUME NEW side, NEW result, NEW amount_in, NEW amount_out, NEW outside,
             FinishSwap(side, result, amount_in, amount_out, outside)
      PROVE  created'
  BY <1>1 DEF FinishSwap
<1>2. /\ \A side, amount_in, minimum, outside :
            SwapBaseInput(side, amount_in, minimum, outside) => created'
      /\ \A side, maximum, amount_out, outside :
            SwapBaseOutput(side, maximum, amount_out, outside) => created'
  BY <1>1, Zenon DEF SwapBaseInput, SwapBaseOutput
<1>3. /\ \A init_amount, opening : Initialize(init_amount, opening) => created'
      /\ \A lp_amount, maximum : Deposit(lp_amount, maximum) => created'
      /\ \A lp_amount, minimum, outside : Withdraw(lp_amount, minimum, outside) => created'
      /\ \A owner, requested, outside : CollectProtocolFee(owner, requested, outside) => created'
      /\ \A owner, requested, outside : CollectFundFee(owner, requested, outside) => created'
      /\ \A authority, new_status : UpdatePoolStatus(authority, new_status) => created'
      /\ \A lp_amount : BurnLp(lp_amount) => created'
      /\ \A s, sent : SendToVault(s, sent) => created'
  BY Zenon
  DEF Initialize, Deposit, Withdraw, CollectProtocolFee, CollectFundFee, UpdatePoolStatus,
      BurnLp, SendToVault
<1>4. UNCHANGED vars \/ UNCHANGED <<now, pool_vars>> \/ Tick => created'
  BY DEF vars, pool_vars, Tick
<1> QED
  BY <1>2, <1>3, <1>4, Zenon DEF AnyStep

(***************************************************************************)
(* What the client sees.                                                   *)
(***************************************************************************)
\* A pool that exists can be quoted from: reserves are not empty, LP tokens are backed.
LEMMA PoolIsConsistent ==
    ASSUME AccountInv, LpSupplyBacked, created
    PROVE  /\ \A s \in Side : protocol_fees[s] + fund_fees[s] < vault[s]
           /\ lp_supply > 0
           /\ lp_supply * lp_supply
                  <= (vault[0] - (protocol_fees[0] + fund_fees[0]))
                        * (vault[1] - (protocol_fees[1] + fund_fees[1]))
<1> DEFINE r0 == vault_amount_without_fee(0)
           r1 == vault_amount_without_fee(1)
<1>1. lp_supply \in Nat \ {0}
  BY CreatedHasSupply
<1>2. r0 \in Nat /\ r1 \in Nat
  BY Reserves DEF Side
<1>3. lp_supply * lp_supply <= r0 * r1
  BY DEF LpSupplyBacked
<1>4. r0 > 0 /\ r1 > 0
  <2> HIDE DEF r0, r1
  <2>1. lp_supply * lp_supply > 0
    BY <1>1
  <2>2. r0 * r1 > 0
    BY <1>1, <1>2, <1>3, <2>1
  <2> QED
    BY <1>2, <2>2
<1>5. \A s \in Side : vault_amount_without_fee(s) > 0
  BY <1>4 DEF Side
<1>6. \A s \in Side : protocol_fees[s] + fund_fees[s] < vault[s]
  BY <1>5 DEF vault_amount_without_fee, AccountInv, TypeOK
<1> QED
  BY <1>1, <1>3, <1>6 DEF vault_amount_without_fee

\* The type of what a call returns.
SeenType == [ vault: [Side -> Nat], owed: [Side -> Nat], lp_supply: Nat,
              amm_config: AmmConfigType, epoch: Nat ]

LEMMA ViewTyped ==
    ASSUME AccountInv
    PROVE  View \in SeenType /\ NothingSeen \in SeenType
<1>1. epoch \in Nat
  BY EpochType DEF AccountInv, TypeOK
<1>2. [s \in Side |-> protocol_fees[s] + fund_fees[s]] \in [Side -> Nat]
  BY DEF AccountInv, TypeOK
<1>3. View \in SeenType
  BY <1>1, <1>2 DEF View, SeenType, AccountInv, TypeOK, ConfigTypeOK
<1>4. NoConfig \in AmmConfigType
  BY AmmConfigAssumption DEF NoConfig, AmmConfigType
<1>5. NothingSeen \in SeenType
  BY <1>4 DEF NothingSeen, SeenType
<1> QED
  BY <1>3, <1>5

(***************************************************************************)
(* The quote.                                                              *)
(***************************************************************************)
\* The fee the client takes for the mint's is one of the mint's two.
LEMMA FeeOfMint ==
    ASSUME NEW s \in Side, NEW at
    PROVE  get_epoch_fee(MintFees[s], at) \in TransferFeeType
<1>1. /\ MintFees[s].older \in TransferFeeType
      /\ MintFees[s].newer \in TransferFeeType
  BY PoolAssumption DEF MintFeeConfig
<1> QED
  BY <1>1 DEF get_epoch_fee

\* The inverse fee is an amount, of nothing too.
LEMMA InverseFeeType ==
    ASSUME NEW fee \in TransferFeeType, NEW wanted \in Nat
    PROVE  get_transfer_inverse_fee(fee, wanted) \in Nat
<1>1. CASE wanted # 0
  BY <1>1, InverseFeeIsLeast
<1>2. CASE wanted = 0
  <2>1. fee.maximum_fee \in Nat /\ fee.basis_points \in 0..MAX_FEE_BASIS_POINTS
    BY DEF TransferFeeType
  <2>2. CASE fee.basis_points = MAX_FEE_BASIS_POINTS
    BY <2>1, <2>2 DEF get_transfer_inverse_fee
  <2>3. CASE fee.basis_points # MAX_FEE_BASIS_POINTS
    <3> DEFINE d   == MAX_FEE_BASIS_POINTS - fee.basis_points
               raw == (wanted * MAX_FEE_BASIS_POINTS + d - 1) \div d
    <3>1. d \in Nat \ {0}
      BY <2>1, <2>3, BasisPointsAssumption
    <3>2. wanted * MAX_FEE_BASIS_POINTS \in Nat
      BY BasisPointsAssumption
    <3>3. raw \in Nat
      <4> HIDE DEF d
      <4> QED
        BY <3>1, <3>2, CeilBounds
    <3>4. token_pre_fee_amount(fee, wanted) \in Nat
      BY <2>1, <3>3 DEF token_pre_fee_amount
    <3>5. calculate_inverse_fee(fee, wanted) \in Nat
      BY <3>4, TransferFeeAtMost DEF calculate_inverse_fee, get_transfer_fee
    <3> QED
      BY <2>3, <3>5 DEF get_transfer_inverse_fee
  <2> QED
    BY <2>2, <2>3
<1> QED
  BY <1>1, <1>2

\* Before it has priced the command, the client holds reserves and rates to price it by.
Priceable ==
    /\ \A s \in Side : seen_reserve(s) \in Nat \ {0}
    /\ seen.lp_supply \in Nat \ {0}
    /\ seen.epoch \in Nat
    /\ RatesFit(seen.amm_config)

LEMMA PricedIsPriceable ==
    ASSUME ClientInv, stage = "priced", command.kind # "InitializePool"
    PROVE  Priceable
<1>1. seen \in SeenType
  BY DEF ClientInv, ClientTypeOK, SeenType
<1>2. /\ \A s \in Side : seen.owed[s] < seen.vault[s]
      /\ seen.lp_supply > 0
      /\ RatesFit(seen.amm_config)
  BY DEF ClientInv, SeenIsConsistent
<1>3. ASSUME NEW s \in Side
      PROVE  seen_reserve(s) \in Nat \ {0}
  <2>1. seen.owed[s] \in Nat /\ seen.vault[s] \in Nat
    BY <1>1 DEF SeenType
  <2> QED
    BY <1>2, <2>1 DEF seen_reserve
<1> QED
  BY <1>1, <1>2, <1>3 DEF Priceable, SeenType

\* What the user is to receive for an exact input.
LEMMA QuoteBaseInType ==
    ASSUME ClientTypeOK, Priceable
    PROVE  quote_base_in \in Nat
<1> DEFINE net   == amount - get_transfer_fee(seen_fee(input), amount)
           fee   == trading_fee(net, seen.amm_config.trade_fee_rate)
           price == swap_base_input_without_fees(net - fee, seen_reserve(input),
                                                 seen_reserve(output))
<1>1. amount \in Nat /\ input \in Side /\ output \in Side
  BY CommandTyped
<1>2. seen_fee(input) \in TransferFeeType /\ seen_fee(output) \in TransferFeeType
  BY <1>1, FeeOfMint DEF seen_fee
<1>3. net \in Nat
  BY <1>1, <1>2, TransferFeeAtMost
<1>4. seen.amm_config.trade_fee_rate \in 0..FEE_RATE_DENOMINATOR_VALUE
  BY FeeDenominatorAssumption DEF Priceable, RatesFit
<1> HIDE DEF net
<1>5. net - fee \in Nat
  BY <1>3, <1>4, TradingFeeAtMost
<1> HIDE DEF fee
<1>6. price \in Nat
  BY <1>1, <1>5, InputSwapOutput DEF Priceable
<1>7. quote_base_in = price - get_transfer_fee(seen_fee(output), price)
  BY DEF quote_base_in, swap_base_input, SwapResult, net, fee
<1> HIDE DEF price
<1> QED
  BY <1>2, <1>6, <1>7, TransferFeeAtMost

\* What the user is to pay for an exact output, if the pool has as much.
LEMMA QuoteBaseOutType ==
    ASSUME ClientTypeOK, Priceable,
           swap_base_output_defined(actual_amount_out, seen_reserve(output))
    PROVE  quote_base_out \in Nat
<1> DEFINE source == swap_base_output(actual_amount_out, seen_reserve(input),
                         seen_reserve(output), seen.amm_config).source_amount_swapped
<1>1. amount \in Nat /\ input \in Side /\ output \in Side
  BY CommandTyped
<1>2. seen_fee(input) \in TransferFeeType /\ seen_fee(output) \in TransferFeeType
  BY <1>1, FeeOfMint DEF seen_fee
<1>3. actual_amount_out \in Nat
  BY <1>1, <1>2, InverseFeeType DEF actual_amount_out
<1>4. actual_amount_out < seen_reserve(output)
  BY DEF swap_base_output_defined
<1>5. source \in Nat
  BY <1>1, <1>3, <1>4, OutputSwapPrice DEF Priceable
<1> HIDE DEF source
<1>6. quote_base_out = source + get_transfer_inverse_fee(seen_fee(input), source)
  BY DEF quote_base_out, source
<1> QED
  BY <1>2, <1>5, <1>6, InverseFeeType

\* Whatever the command, a quote that does not panic consists of amounts.
LEMMA QuoteType ==
    ASSUME ClientTypeOK, Priceable, quote_defined
    PROVE  quote \in [Side -> Nat]
<1>1. amount \in Nat
  BY CommandTyped
<1>2. ASSUME NEW s \in Side
      PROVE  quote_share(s) \in Nat
  BY <1>1, ShareType DEF quote_share, Priceable
<1>3. ASSUME is_swap
      PROVE  quote_swap \in Nat
  <2>1. CASE command.kind = "SwapBaseOut"
    BY <2>1, QuoteBaseOutType DEF quote_defined, quote_swap, pays
  <2>2. CASE command.kind = "SwapBaseIn"
    BY <2>2, QuoteBaseInType DEF quote_swap, pays
  <2> QED
    BY <1>3, <2>1, <2>2 DEF is_swap
<1> QED
  BY <1>2, <1>3 DEF quote

(***************************************************************************)
(* The limit.                                                              *)
(***************************************************************************)
\* A limit on side s that keeps to the quote, up to the slippage and one token.
KeepsToQuote(expected, limit) ==
    IF pays
    THEN (limit - rounding) * SLIPPAGE_UNIT <= expected * (SLIPPAGE_UNIT + SLIPPAGE)
    ELSE (limit + rounding) * SLIPPAGE_UNIT >= expected * (SLIPPAGE_UNIT - SLIPPAGE)

\* Whichever way the product is rounded.
LEMMA SlippageKeepsToQuote ==
    ASSUME NEW expected \in Nat, NEW limit \in amount_with_slippage(expected, pays)
    PROVE  limit \in Int /\ KeepsToQuote(expected, limit)
<1> DEFINE factor  == IF pays THEN SLIPPAGE_UNIT + SLIPPAGE ELSE SLIPPAGE_UNIT - SLIPPAGE
           product == expected * factor
           below   == product \div SLIPPAGE_UNIT
<1>0. SLIPPAGE_UNIT \in Nat \ {0}
  BY ClientAssumption
<1>1. /\ SLIPPAGE_UNIT \in Nat \ {0} /\ SLIPPAGE \in Nat
      /\ rounding \in {0, 1} /\ (SLIPPAGE # 0 => rounding = 1)
      /\ (SLIPPAGE = 0 => rounding = 0)
      /\ factor \in Nat
  BY ClientAssumption DEF rounding
<1>2. product \in Nat
  <2> HIDE DEF factor
  <2> QED
    BY <1>1
<1>3. SLIPPAGE = 0 => product = expected * SLIPPAGE_UNIT
  BY <1>1
<1>4. \/ product % SLIPPAGE_UNIT # 0 /\ limit = (IF pays THEN below + 1 ELSE below)
      \/ product % SLIPPAGE_UNIT = 0 /\ limit = below
      \/ product % SLIPPAGE_UNIT = 0 /\ SLIPPAGE # 0
            /\ limit = (IF pays THEN below + 1 ELSE below - 1)
  BY DEF amount_with_slippage
<1> HIDE DEF product
<1>5. /\ below \in Nat
      /\ product = below * SLIPPAGE_UNIT + (product % SLIPPAGE_UNIT)
      /\ product % SLIPPAGE_UNIT \in 0..SLIPPAGE_UNIT - 1
      /\ below * SLIPPAGE_UNIT \in Nat
  <2>1. below \in Nat
    BY <1>0, <1>2, DivBounds
  <2>2. product = below * SLIPPAGE_UNIT + (product % SLIPPAGE_UNIT)
    BY <1>0, <1>2, QuotientAndRemainder
  <2>3. product % SLIPPAGE_UNIT \in 0..SLIPPAGE_UNIT - 1
    BY <1>0, <1>2
  <2> QED
    BY <1>1, <2>1, <2>2, <2>3
<1>6. SLIPPAGE = 0 => product % SLIPPAGE_UNIT = 0
  <2> SUFFICES ASSUME SLIPPAGE = 0
               PROVE  product % SLIPPAGE_UNIT = 0
    OBVIOUS
  <2>1. expected * SLIPPAGE_UNIT <= product
        /\ product < expected * SLIPPAGE_UNIT + SLIPPAGE_UNIT
    BY <1>1, <1>2, <1>3
  <2>2. below = expected
    BY <1>1, <1>2, <2>1, DivUnique
  <2>3. product = product + (product % SLIPPAGE_UNIT)
    BY <1>3, <1>5, <2>2
  <2> QED
    BY <1>2, <1>5, <2>3
<1> HIDE DEF below, factor
<1>7. limit \in Int
  BY <1>4, <1>5
<1>8. CASE pays
  <2>1. limit - rounding <= below
    BY <1>1, <1>4, <1>5, <1>6, <1>8
  <2>2. (limit - rounding) * SLIPPAGE_UNIT <= below * SLIPPAGE_UNIT
    BY <1>1, <1>5, <1>7, <2>1, MulMonotone
  <2>3. below * SLIPPAGE_UNIT <= product
    BY <1>2, <1>5
  <2>4. (limit - rounding) * SLIPPAGE_UNIT \in Int
    BY <1>1, <1>7
  <2>5. (limit - rounding) * SLIPPAGE_UNIT <= product
    BY <1>2, <1>5, <2>2, <2>3, <2>4
  <2> QED
    BY <1>7, <1>8, <2>5 DEF KeepsToQuote, product, factor
<1>9. CASE ~pays
  <2>1. CASE product % SLIPPAGE_UNIT # 0
    <3>1. limit + rounding = below + 1
      BY <1>1, <1>4, <1>5, <1>6, <1>9, <2>1
    <3>2. (below + 1) * SLIPPAGE_UNIT = below * SLIPPAGE_UNIT + SLIPPAGE_UNIT
      BY <1>1, <1>5
    <3>3. (limit + rounding) * SLIPPAGE_UNIT >= product
      BY <1>1, <1>2, <1>5, <3>1, <3>2
    <3> QED
      BY <1>7, <1>9, <3>3 DEF KeepsToQuote, product, factor
  <2>2. CASE product % SLIPPAGE_UNIT = 0
    <3>1. limit = below \/ (rounding = 1 /\ limit = below - 1)
      BY <1>1, <1>4, <1>9, <2>2
    <3>2. below <= limit + rounding
      BY <1>1, <1>5, <3>1
    <3>3. below * SLIPPAGE_UNIT <= (limit + rounding) * SLIPPAGE_UNIT
      BY <1>1, <1>5, <1>7, <3>2, MulMonotone
    <3>4. (limit + rounding) * SLIPPAGE_UNIT >= product
      BY <1>1, <1>2, <1>5, <1>7, <2>2, <3>3
    <3> QED
      BY <1>7, <1>9, <3>4 DEF KeepsToQuote, product, factor
  <2> QED
    BY <2>1, <2>2
<1> QED
  BY <1>7, <1>8, <1>9

\* A limit is what slippage makes of the quote, with a transfer fee on top or less one.
LEMMA LimitOfQuote ==
    ASSUME NEW limit \in limits, NEW s \in Side
    PROVE  /\ limit = [t \in Side |-> limit[t]]
           /\ \E slipped \in amount_with_slippage(quote[s], pays) :
                 limit[s] = with_transfer_fee(s, slipped)
<1>1. PICK limit_0 \in amount_with_slippage(quote[0], pays),
           limit_1 \in amount_with_slippage(quote[1], pays) :
             limit = [t \in Side |-> with_transfer_fee(t, IF t = 0 THEN limit_0 ELSE limit_1)]
  BY DEF limits
<1> QED
  BY <1>1 DEF Side

LEMMA LimitType ==
    ASSUME ClientTypeOK, Priceable, quote \in [Side -> Nat], NEW limit \in limits,
           \A s \in Side : limit[s] >= 0
    PROVE  limit \in [Side -> Nat]
<1>1. ASSUME NEW s \in Side
      PROVE  limit[s] \in Nat
  <2>1. PICK slipped \in amount_with_slippage(quote[s], pays) :
                limit[s] = with_transfer_fee(s, slipped)
    BY LimitOfQuote
  <2>2. slipped \in Int
    BY SlippageKeepsToQuote
  <2>3. mints_inverse_fee(s, slipped) \in Nat /\ mints_transfer_fee(s, slipped) \in Nat
    BY FeeOfMint, InverseFeeType, TransferFeeAtMost
    DEF mints_inverse_fee, mints_transfer_fee, Priceable
  <2> QED
    BY <2>1, <2>2, <2>3 DEF with_transfer_fee
<1> QED
  BY <1>1, LimitOfQuote DEF Side

(***************************************************************************)
(* The steps of the client.                                                *)
(***************************************************************************)
\* Where nothing is left to be priced, only types and the transaction matter.
LEMMA NothingToPrice ==
    ASSUME AccountInv', LpSupplyBacked', ClientTypeOK',
           stage' \in {"start", "sent", "done"},
           txn'.status = "pending" => stage' \in {"sent", "done"}
    PROVE  ClientInv'
  BY DEF ClientInv, SeenIsConsistent

LEMMA FindPoolInv ==
    ASSUME ClientInv, AccountInv', LpSupplyBacked', FindPool
    PROVE  ClientInv'
<1>1. View \in SeenType /\ NothingSeen \in SeenType
  BY ViewTyped DEF ClientInv
<1>2. AccountInv /\ ClientTypeOK /\ (txn.status = "pending" => stage \in {"sent", "done"})
  BY DEF ClientInv
<1>3. stage = "start" /\ UNCHANGED <<vars, command, txn>>
  BY DEF FindPool
<1>4. txn'.status # "pending"
  BY <1>2, <1>3
<1>5. CASE /\ created
           /\ stage' = "found"
           /\ seen' = [NothingSeen EXCEPT !.owed = View.owed, !.lp_supply = lp_supply]
           /\ UNCHANGED outcome
  <2>1. seen' \in SeenType
    BY <1>1, <1>2, <1>5 DEF SeenType, AccountInv, TypeOK
  <2>2. ClientTypeOK'
    BY <1>2, <1>3, <1>5, <2>1 DEF ClientTypeOK, SeenType, AccountInv
  <2>3. created'
    BY <1>3, <1>5 DEF vars, pool_vars
  <2> QED
    BY <1>3, <1>4, <1>5, <2>2, <2>3 DEF ClientInv, SeenIsConsistent
<1>6. CASE ~created /\ Ends("error") /\ UNCHANGED seen
  <2>1. ClientTypeOK'
    BY <1>2, <1>3, <1>6 DEF ClientTypeOK, Ends, AccountInv
  <2> QED
    BY <1>4, <1>6, <2>1, NothingToPrice DEF Ends
<1> QED
  BY <1>5, <1>6 DEF FindPool

\* Pool, config and vaults of one moment fit together.
LEMMA FetchAccountsInv ==
    ASSUME ClientInv, AccountInv', LpSupplyBacked', FetchAccounts
    PROVE  ClientInv'
<1>1. View \in SeenType
  BY ViewTyped DEF ClientInv
<1>2. /\ AccountInv /\ LpSupplyBacked /\ ClientTypeOK
      /\ (command.kind # "InitializePool" => created)
      /\ txn.status # "pending"
  BY DEF ClientInv, FetchAccounts
<1>3. /\ stage' = "fetched" /\ seen' = [View EXCEPT !.epoch = 0]
      /\ UNCHANGED <<vars, command, outcome, txn>>
  BY DEF FetchAccounts
<1>4. seen' \in SeenType
  BY <1>1, <1>3 DEF SeenType
<1>5. ClientTypeOK'
  BY <1>2, <1>3, <1>4 DEF ClientTypeOK, SeenType, AccountInv
<1>6. /\ seen'.vault = vault
      /\ seen'.owed = [s \in Side |-> protocol_fees[s] + fund_fees[s]]
      /\ seen'.lp_supply = lp_supply /\ seen'.amm_config = amm_config
  BY <1>3 DEF View
<1>7. command.kind # "InitializePool" =>
         /\ \A s \in Side : seen'.owed[s] < seen'.vault[s]
         /\ seen'.lp_supply > 0
         /\ seen'.lp_supply * seen'.lp_supply <= seen_reserve(0)' * seen_reserve(1)'
  <2> SUFFICES ASSUME command.kind # "InitializePool"
               PROVE  /\ \A s \in Side : seen'.owed[s] < seen'.vault[s]
                      /\ seen'.lp_supply > 0
                      /\ seen'.lp_supply * seen'.lp_supply
                             <= seen_reserve(0)' * seen_reserve(1)'
    OBVIOUS
  <2>1. /\ \A s \in Side : protocol_fees[s] + fund_fees[s] < vault[s]
        /\ lp_supply > 0
        /\ lp_supply * lp_supply
               <= (vault[0] - (protocol_fees[0] + fund_fees[0]))
                     * (vault[1] - (protocol_fees[1] + fund_fees[1]))
    BY <1>2, PoolIsConsistent
  <2>2. /\ seen_reserve(0)' = vault[0] - (protocol_fees[0] + fund_fees[0])
        /\ seen_reserve(1)' = vault[1] - (protocol_fees[1] + fund_fees[1])
    BY <1>6 DEF seen_reserve, Side
  <2> QED
    BY <1>6, <2>1, <2>2
<1>8. RatesFit(seen'.amm_config)
  BY <1>2, <1>6, ConfigRatesFit DEF AccountInv, TypeOK
<1>9. created => created'
  BY <1>3 DEF vars, pool_vars
<1> QED
  BY <1>2, <1>3, <1>5, <1>7, <1>8, <1>9 DEF ClientInv, SeenIsConsistent

\* The epoch changes nothing of what was fetched before.
LEMMA GetEpochInv ==
    ASSUME ClientInv, AccountInv', LpSupplyBacked', GetEpoch
    PROVE  ClientInv'
<1>1. epoch \in Nat /\ seen \in SeenType
  BY EpochType DEF ClientInv, AccountInv, TypeOK, ClientTypeOK, SeenType
<1>2. /\ stage = "fetched" /\ stage' = "priced" /\ seen' = [seen EXCEPT !.epoch = epoch]
      /\ UNCHANGED <<vars, command, outcome, txn>>
  BY DEF GetEpoch
<1>3. /\ seen'.vault = seen.vault /\ seen'.owed = seen.owed
      /\ seen'.lp_supply = seen.lp_supply /\ seen'.amm_config = seen.amm_config
      /\ seen' \in SeenType
  BY <1>1, <1>2 DEF SeenType
<1>4. ClientTypeOK'
  BY <1>2, <1>3 DEF ClientInv, ClientTypeOK, SeenType, AccountInv
<1>5. \A s \in Side : seen_reserve(s)' = seen_reserve(s)
  BY <1>3 DEF seen_reserve
<1>6. SeenIsConsistent'
  BY <1>2, <1>3, <1>5 DEF ClientInv, SeenIsConsistent, Side
<1>7. created => created'
  BY <1>2 DEF vars, pool_vars
<1>8. txn'.status # "pending"
  BY <1>2 DEF ClientInv
<1> QED
  BY <1>2, <1>3, <1>4, <1>6, <1>7, <1>8 DEF ClientInv

LEMMA FetchMintsInv ==
    ASSUME ClientInv, AccountInv', LpSupplyBacked', FetchMints
    PROVE  ClientInv'
<1>1. /\ stage = "start" /\ stage' = "priced" /\ command.kind = "InitializePool"
      /\ UNCHANGED <<vars, command, outcome, seen, txn>>
  BY DEF FetchMints
<1>2. ClientTypeOK'
  BY <1>1 DEF ClientInv, ClientTypeOK, AccountInv
<1> QED
  BY <1>1, <1>2 DEF ClientInv, SeenIsConsistent

\* The transaction carries amounts only.
LEMMA SendTxnInv ==
    ASSUME ClientInv, AccountInv', LpSupplyBacked', SendTxn
    PROVE  ClientInv'
<1>1. stage = "priced" /\ UNCHANGED <<vars, command, seen>>
  BY DEF SendTxn
<1>2. ClientTypeOK /\ txn.status # "pending"
  BY <1>1 DEF ClientInv
<1>3. NoAmounts \in [Side -> Nat]
  BY DEF NoAmounts
<1>4. CASE /\ txn' = [NoTxn EXCEPT !.status = "pending"]
           /\ stage' = "sent"
           /\ UNCHANGED outcome
  <2>1. ClientTypeOK'
    BY <1>1, <1>2, <1>3, <1>4 DEF ClientTypeOK, NoTxn, AccountInv
  <2> QED
    BY <1>4, <2>1, NothingToPrice
<1>5. ASSUME command.kind # "InitializePool", quote_defined,
             NEW limit \in limits, \A s \in Side : limit[s] >= 0,
             txn' = [ status |-> "pending", quote |-> quote, limit |-> limit ],
             stage' = "sent", UNCHANGED outcome
      PROVE  ClientInv'
  <2>1. Priceable
    BY <1>1, <1>5, PricedIsPriceable
  <2>2. quote \in [Side -> Nat]
    BY <1>2, <1>5, <2>1, QuoteType
  <2>3. limit \in [Side -> Nat]
    BY <1>2, <1>5, <2>1, <2>2, LimitType
  <2>4. ClientTypeOK'
    BY <1>1, <1>2, <1>5, <2>2, <2>3 DEF ClientTypeOK, AccountInv
  <2> QED
    BY <1>5, <2>4, NothingToPrice
<1>6. CASE Ends("panic") /\ UNCHANGED txn
  <2>1. ClientTypeOK'
    BY <1>1, <1>2, <1>6 DEF ClientTypeOK, Ends, AccountInv
  <2> QED
    BY <1>6, <2>1, NothingToPrice DEF Ends
<1> QED
  BY <1>4, <1>5, <1>6 DEF SendTxn

\* Once a command has ended there is nothing left to go wrong.
LEMMA EndsInv ==
    ASSUME ClientInv, AccountInv', LpSupplyBacked', NEW how \in {"signature", "error", "panic"},
           Ends(how), UNCHANGED <<vars, command, seen, txn>>
    PROVE  ClientInv'
<1>1. ClientTypeOK'
  BY DEF ClientInv, ClientTypeOK, Ends, AccountInv
<1> QED
  BY <1>1, NothingToPrice DEF Ends

\* The transaction gets its status.
LEMMA ResolvedInv ==
    ASSUME ClientInv, AccountInv', LpSupplyBacked', txn.status = "pending",
           NEW result \in {"executed", "ExceededSlippage", "failed", "expired"},
           Resolved(result)
    PROVE  ClientInv'
<1>1. NothingSeen \in SeenType /\ stage \in {"sent", "done"}
  BY ViewTyped DEF ClientInv
<1>2. ClientTypeOK'
  BY <1>1 DEF ClientInv, ClientTypeOK, Resolved, SeenType, AccountInv
<1> QED
  BY <1>1, <1>2, NothingToPrice DEF Resolved

\* What others do to the pool does not touch what the client knows.
LEMMA OthersInv ==
    ASSUME ClientInv, AccountInv', LpSupplyBacked', created => created', UNCHANGED client_vars
    PROVE  ClientInv'
<1>1. UNCHANGED <<command, stage, outcome, seen, txn>>
  BY DEF client_vars
<1>2. ClientTypeOK'
  BY <1>1 DEF ClientInv, ClientTypeOK, AccountInv
<1>3. SeenIsConsistent'
  BY <1>1 DEF ClientInv, SeenIsConsistent, seen_reserve
<1> QED
  BY <1>1, <1>2, <1>3 DEF ClientInv

\* ClientInv is inductive.
LEMMA ClientInvStep ==
    ASSUME ClientInv, [ClientNext]_all_vars
    PROVE  ClientInv'
<1>1. [AnyStep]_vars
  BY PoolStep DEF ClientInv
<1>2. AccountInv' /\ LpSupplyBacked' /\ (created => created')
  BY <1>1, PoolStaysInOrder, CreatedForGood DEF ClientInv
<1>3. CASE ClientStep
  <2>1. CASE Confirm
    <3>1. CASE Ends("signature")
      BY <1>2, <2>1, <3>1, EndsInv DEF Confirm
    <3>2. CASE Ends("error")
      BY <1>2, <2>1, <3>2, EndsInv DEF Confirm
    <3> QED
      BY <2>1, <3>1, <3>2 DEF Confirm
  <2> QED
    BY <1>2, <1>3, <2>1, FindPoolInv, FetchAccountsInv, FetchMintsInv, GetEpochInv, SendTxnInv
    DEF ClientStep
<1>4. CASE CallFails
  <2>1. PICK how \in {"panic", "error"} : Ends(how)
    BY <1>4 DEF CallFails
  <2> QED
    BY <1>2, <1>4, <2>1, EndsInv DEF CallFails
<1>5. CASE Land
  <2>1. PICK result \in {"executed", "ExceededSlippage", "failed"} : Resolved(result)
    BY <1>5 DEF Land
  <2> QED
    BY <1>2, <1>5, <2>1, ResolvedInv DEF Land
<1>6. CASE Expire
  BY <1>2, <1>6, ResolvedInv DEF Expire
<1>7. CASE UNCHANGED client_vars
  BY <1>2, <1>7, OthersInv
<1> QED
  BY <1>3, <1>4, <1>5, <1>6, <1>7 DEF ClientNext, all_vars

LEMMA ClientInvInit ==
    ASSUME ClientInit
    PROVE  ClientInv
<1>1. AccountInv /\ LpSupplyBacked
  BY AccountInvInit, LedgerInitially DEF ClientInit
<1>2. NothingSeen \in SeenType
  BY <1>1, ViewTyped
<1>3. NoTxn \in [ status: {"none", "pending", "executed", "ExceededSlippage", "failed",
                          "expired"},
                 quote: [Side -> Nat], limit: [Side -> Nat] ]
  BY DEF NoTxn, NoAmounts
<1>4. ClientTypeOK
  BY <1>1, <1>2, <1>3 DEF ClientInit, ClientTypeOK, SeenType, AccountInv
<1> QED
  BY <1>1, <1>4 DEF ClientInit, ClientInv, SeenIsConsistent, NoTxn

\* The invariant holds throughout.
LEMMA ClientInvAlways == ClientSpec => []ClientInv
<1>1. ClientInit => ClientInv
  BY ClientInvInit
<1>2. ClientInv /\ [ClientNext]_all_vars => ClientInv'
  BY ClientInvStep
<1> QED
  BY <1>1, <1>2, PTL DEF ClientSpec

\* The client's own state stays well typed, the pool's beside it.
THEOREM ClientTyped == ClientSpec => []ClientTypeOK
<1>1. ClientInv => ClientTypeOK
  BY DEF ClientInv
<1> QED
  BY <1>1, ClientInvAlways, PTL

\* What one call fetched together is never inconsistent.
THEOREM SnapshotAlwaysConsistent == ClientSpec => []SeenIsConsistent
<1>1. ClientInv => SeenIsConsistent
  BY DEF ClientInv
<1> QED
  BY <1>1, ClientInvAlways, PTL

(***************************************************************************)
(* A transaction that lands.                                               *)
(***************************************************************************)
\* A transaction is executed only by landing.
LEMMA LandsExecutes ==
    ASSUME ClientTypeOK, [ClientNext]_all_vars, Lands
    PROVE  AccountsCreated /\ Executes(txn.limit)
<1>1. /\ txn.status = "pending" /\ txn'.status = "executed"
      /\ \A result : txn' = [txn EXCEPT !.status = result] => txn'.status = result
  BY DEF Lands, ClientTypeOK
<1>2. txn' # txn
  BY <1>1
<1>3. CASE ClientStep
  <2>1. CASE SendTxn
    BY <1>1, <2>1 DEF SendTxn, NoTxn
  <2> QED
    BY <1>2, <1>3, <2>1 DEF ClientStep, FindPool, FetchAccounts, FetchMints, GetEpoch, Confirm
<1>4. CASE Land
  BY <1>1, <1>4 DEF Land, Resolved
<1>5. CASE Expire
  BY <1>1, <1>5 DEF Expire, Resolved
<1>6. CASE CallFails \/ UNCHANGED client_vars
  BY <1>2, <1>6 DEF CallFails, client_vars
<1> QED
  BY <1>3, <1>4, <1>5, <1>6 DEF ClientNext, all_vars

\* The vaults of a new pool receive what was typed for their mints.
THEOREM AmountsAlwaysFollow == ClientSpec => AmountsFollowMints
<1>1. ASSUME ClientInv, [ClientNext]_all_vars, Lands, command.kind = "InitializePool"
      PROVE  /\ vault'[input] = CreditedToVault(input, command.amount[0])
             /\ vault'[output] = CreditedToVault(output, command.amount[1])
  <2>1. Executes(txn.limit)
    BY <1>1, LandsExecutes DEF ClientInv
  <2>2. Initialize(init_amounts, 0)
    BY <1>1, <2>1 DEF Executes, initialize_pool_instr
  <2>3. vault' = [s \in Side |-> CreditedToVault(s, init_amounts[s])]
    BY <2>2 DEF Initialize
  <2>4. input \in Side /\ output \in Side
    BY <1>1, CommandTyped DEF ClientInv
  <2>5. init_amounts[input] = command.amount[0] /\ init_amounts[output] = command.amount[1]
    BY <2>4 DEF init_amounts, output, Side
  <2> QED
    BY <2>3, <2>4, <2>5
<1>2. ClientInv /\ [ClientNext]_all_vars =>
         [Lands /\ command.kind = "InitializePool" =>
             /\ vault'[input] = CreditedToVault(input, command.amount[0])
             /\ vault'[output] = CreditedToVault(output, command.amount[1])]_all_vars
  BY <1>1
<1> QED
  BY <1>2, ClientInvAlways, PTL DEF ClientSpec, AmountsFollowMints

(***************************************************************************)
(* The limit of what lands.                                                *)
(***************************************************************************)
\* The token program holds a deposit to its maximum, fee included.
LEMMA DepositPays ==
    ASSUME AccountInv, NEW lp_amount \in Nat, NEW maximum \in [Side -> Nat],
           Deposit(lp_amount, maximum), NEW s \in Side
    PROVE  paid(s) \in Nat /\ paid(s) <= maximum[s]
<1> DEFINE amount_of(t) == lp_tokens_to_trading_token(lp_amount, lp_supply,
                               vault_amount_without_fee(t), "Ceiling")
           net   == amount_of(s)
           gross == net + get_transfer_inverse_fee(epoch_fee(s), net)
<1>1. lp_supply \in Nat \ {0}
  BY CreatedHasSupply DEF Deposit
<1>2. net \in Nat
  BY <1>1, ReserveType, ShareType DEF AccountInv
<1>3. /\ get_transfer_inverse_fee_defined(epoch_fee(s), net)
      /\ gross <= maximum[s]
      /\ vault'[s] = vault[s] + CreditedToVault(s, gross)
  BY DEF Deposit
<1> HIDE DEF net
<1>4. gross \in Nat /\ CreditedToVault(s, gross) = net
  BY <1>2, <1>3, GrossIsCredited
<1>5. vault'[s] - vault[s] = net
  BY <1>2, <1>3, <1>4 DEF AccountInv, TypeOK
<1>6. paid(s) = gross
  BY <1>5 DEF paid
<1> QED
  BY <1>3, <1>4, <1>6

\* A withdrawal pays out its minimum after the fee.
LEMMA WithdrawReceives ==
    ASSUME AccountInv, NEW lp_amount \in Nat, NEW minimum \in [Side -> Nat],
           Withdraw(lp_amount, minimum, Side), NEW s \in Side
    PROVE  received(s) \in Nat /\ received(s) >= minimum[s]
<1> DEFINE share == lp_tokens_to_trading_token(lp_amount, lp_supply,
                        vault_amount_without_fee(s), "Floor")
           sent  == Lesser(vault_amount_without_fee(s), share)
<1>1. lp_supply \in Nat \ {0}
  BY CreatedHasSupply DEF Withdraw
<1>2. share \in Nat
  BY <1>1, ReserveType, ShareType DEF AccountInv
<1>3. /\ sent - get_transfer_fee(epoch_fee(s), sent) >= minimum[s]
      /\ vault'[s] = vault[s] - sent
  BY DEF Withdraw, LeavesVault
<1> HIDE DEF share
<1>4. sent \in Nat
  BY <1>2, ReserveType DEF AccountInv, Lesser
<1> HIDE DEF sent
<1>5. vault[s] - vault'[s] = sent
  BY <1>3, <1>4 DEF AccountInv, TypeOK
<1>6. received(s) = sent - get_transfer_fee(epoch_fee(s), sent)
  BY <1>5 DEF received
<1>7. received(s) \in Nat
  BY <1>4, <1>6, EpochFeeType, TransferFeeAtMost
<1> QED
  BY <1>3, <1>6, <1>7

\* A swap's two vaults, whatever the curve says.
LEMMA SwapMoves ==
    ASSUME AccountInv, NEW in \in Side, NEW result, NEW amount_in, NEW amount_out,
           FinishSwap(in, result, amount_in, amount_out, {1 - in})
    PROVE  /\ vault'[in] = vault[in] + CreditedToVault(in, amount_in)
           /\ vault'[1 - in] = vault[1 - in] - amount_out
<1>1. 1 - in \in Side /\ 1 - in # in
  BY OtherSide
<1>2. vault' = [vault EXCEPT ![in] = @ + CreditedToVault(in, amount_in),
                             ![1 - in] = @ - LeavesVault(1 - in, amount_out, {1 - in})]
  BY DEF FinishSwap
<1> QED
  BY <1>1, <1>2 DEF AccountInv, TypeOK, LeavesVault

\* A swap of an exact input pays out its minimum after the fee.
LEMMA SwapInReceives ==
    ASSUME AccountInv, NEW in \in Side, NEW amount_in \in Nat, NEW minimum \in Nat,
           SwapBaseInput(in, amount_in, minimum, {1 - in})
    PROVE  received(1 - in) \in Nat /\ received(1 - in) >= minimum
<1> DEFINE x == vault_amount_without_fee(in)
           y == vault_amount_without_fee(1 - in)
           credit == CreditedToVault(in, amount_in)
           less_fees == credit - trading_fee(credit, amm_config.trade_fee_rate)
           destination == swap_base_input_without_fees(less_fees, x, y)
           result == SwapResult(credit, destination, x, y, amm_config)
<1>1. credit \in Nat
  BY CreditType
<1>2. x \in Nat \ {0} /\ y \in Nat /\ 1 - in \in Side
  BY ReserveType, OtherSide DEF SwapBaseInput, SwapAllowed, ReservesNotEmpty, AccountInv
<1>3. amm_config.trade_fee_rate \in 0..FEE_RATE_DENOMINATOR_VALUE
  BY ConfigRatesFit, FeeDenominatorAssumption DEF AccountInv, TypeOK, RatesFit
<1>4. /\ destination - get_transfer_fee(epoch_fee(1 - in), destination) >= minimum
      /\ FinishSwap(in, result, amount_in, destination, {1 - in})
  BY DEF SwapBaseInput, swap_base_input, SwapResult
<1> HIDE DEF credit, x, y
<1>5. less_fees \in Nat
  BY <1>1, <1>3, TradingFeeAtMost
<1> HIDE DEF less_fees
<1>6. destination \in Nat
  BY <1>2, <1>5, InputSwapOutput
<1> HIDE DEF destination, result
<1>7. vault'[1 - in] = vault[1 - in] - destination
  BY <1>4, SwapMoves
<1>8. vault[1 - in] - vault'[1 - in] = destination
  BY <1>2, <1>6, <1>7 DEF AccountInv, TypeOK
<1>9. received(1 - in) = destination - get_transfer_fee(epoch_fee(1 - in), destination)
  BY <1>8 DEF received
<1>10. received(1 - in) \in Nat
  BY <1>2, <1>6, <1>9, EpochFeeType, TransferFeeAtMost
<1> QED
  BY <1>4, <1>9, <1>10

\* A swap for an exact output costs its maximum at most, fee included.
LEMMA SwapOutPays ==
    ASSUME AccountInv, NEW in \in Side, NEW maximum \in Nat, NEW amount_out \in Nat,
           SwapBaseOutput(in, maximum, amount_out, {1 - in})
    PROVE  paid(in) \in Nat /\ paid(in) <= maximum
<1> DEFINE out == 1 - in
           x == vault_amount_without_fee(in)
           y == vault_amount_without_fee(out)
           actual == amount_out + get_transfer_inverse_fee(epoch_fee(out), amount_out)
           source == calculate_pre_fee_amount(swap_base_output_without_fees(actual, x, y),
                                              amm_config.trade_fee_rate)
           amount_in == source + get_transfer_inverse_fee(epoch_fee(in), source)
           result == SwapResult(source, actual, x, y, amm_config)
<1>1. out \in Side
  BY OtherSide
<1>2. x \in Nat /\ y \in Nat
  BY <1>1, ReserveType DEF AccountInv
<1>3. ConfigTypeOK /\ RatesStayAllowed
  BY DEF AccountInv, TypeOK
<1>4. /\ get_transfer_inverse_fee_defined(epoch_fee(out), amount_out)
      /\ actual < y
      /\ get_transfer_inverse_fee_defined(epoch_fee(in), source)
      /\ maximum >= amount_in
      /\ FinishSwap(in, result, amount_in, actual, {1 - in})
  BY DEF SwapBaseOutput, swap_base_output, swap_base_output_defined, SwapResult
<1> HIDE DEF out
<1>5. actual \in Nat
  BY <1>1, <1>4, GrossIsCredited
<1> HIDE DEF actual
<1>6. source \in Nat
  BY <1>2, <1>3, <1>4, <1>5, OutputSwapSource
<1> HIDE DEF source, result
<1>7. amount_in \in Nat /\ CreditedToVault(in, amount_in) = source
  BY <1>4, <1>6, GrossIsCredited
<1>8. vault'[in] = vault[in] + source
  BY <1>4, <1>7, SwapMoves
<1>9. vault'[in] - vault[in] = source
  BY <1>6, <1>8 DEF AccountInv, TypeOK
<1>10. paid(in) = amount_in
  BY <1>9 DEF paid
<1> QED
  BY <1>4, <1>7, <1>10
\* Whichever command, the sides its transaction limits keep to the limit.
LEMMA ExecutesKeepsLimit ==
    ASSUME AccountInv, ClientTypeOK, NEW limit \in [Side -> Nat], Executes(limit),
           command.kind # "InitializePool", NEW s \in Side, is_swap => s = limited
    PROVE  IF pays THEN paid(s) \in Nat /\ paid(s) <= limit[s]
                   ELSE received(s) \in Nat /\ received(s) >= limit[s]
<1>1. /\ input \in Side /\ output = 1 - input /\ output \in Side /\ amount \in Nat
      /\ limit[input] \in Nat /\ limit[output] \in Nat
  BY CommandTyped DEF output
<1>2. CASE command.kind = "Deposit"
  BY <1>1, <1>2, DepositPays DEF Executes, deposit_instr, pays
<1>3. CASE command.kind = "Withdraw"
  BY <1>1, <1>3, WithdrawReceives DEF Executes, withdraw_instr, pays
<1>4. CASE command.kind = "SwapBaseIn"
  BY <1>1, <1>4, SwapInReceives DEF Executes, swap_base_input_instr, pays, is_swap, limited
<1>5. CASE command.kind = "SwapBaseOut"
  BY <1>1, <1>5, SwapOutPays DEF Executes, swap_base_output_instr, pays, is_swap, limited
<1> QED
  BY <1>1, <1>2, <1>3, <1>4, <1>5 DEF Executes

(***************************************************************************)
(* The limit of what is sent.                                              *)
(***************************************************************************)
\* Neither mint charges a fee.
NoMintFees ==
    \A s \in Side : MintFees[s].older.basis_points = 0 /\ MintFees[s].newer.basis_points = 0

\* Without fees the confused arguments of get_pool_mints_transfer_fee do no harm.
LEMMA NoFeeIsZero ==
    ASSUME NEW fee \in TransferFeeType, fee.basis_points = 0, NEW n \in Nat
    PROVE  get_transfer_fee(fee, n) = 0 /\ get_transfer_inverse_fee(fee, n) = 0
<1>1. MAX_FEE_BASIS_POINTS \in Nat \ {0} /\ fee.maximum_fee \in Nat
  BY BasisPointsAssumption DEF TransferFeeType
<1>2. (MAX_FEE_BASIS_POINTS - 1) \div MAX_FEE_BASIS_POINTS = 0
  BY <1>1, DivUnique, MAX_FEE_BASIS_POINTS - 1 \in Nat
<1>3. ASSUME NEW m \in Int
      PROVE  calculate_fee(fee, m) = 0
  <2>1. m * fee.basis_points + MAX_FEE_BASIS_POINTS - 1 = MAX_FEE_BASIS_POINTS - 1
    BY <1>1
  <2> QED
    BY <1>1, <1>2, <2>1 DEF calculate_fee, Lesser
<1>4. token_pre_fee_amount(fee, n) \in Int
  <2> DEFINE d   == MAX_FEE_BASIS_POINTS - fee.basis_points
             raw == (n * MAX_FEE_BASIS_POINTS + d - 1) \div d
  <2>1. d \in Nat \ {0} /\ n * MAX_FEE_BASIS_POINTS \in Nat
    BY <1>1
  <2> HIDE DEF d
  <2>2. raw \in Nat
    BY <2>1, CeilBounds
  <2> QED
    BY <1>1, <2>2 DEF token_pre_fee_amount, d
<1> QED
  BY <1>1, <1>3, <1>4 DEF get_transfer_fee, get_transfer_inverse_fee, calculate_inverse_fee

\* The limit is what the slippage makes of the quote, nothing more and nothing less.
LEMMA LimitIsSlippage ==
    ASSUME seen.epoch \in Nat, quote \in [Side -> Nat], NEW limit \in limits, NEW s \in Side,
           is_swap \/ NoMintFees
    PROVE  limit[s] \in amount_with_slippage(quote[s], pays)
<1>1. PICK slipped \in amount_with_slippage(quote[s], pays) :
              limit[s] = with_transfer_fee(s, slipped)
  BY LimitOfQuote
<1>2. slipped \in Int
  BY <1>1, SlippageKeepsToQuote
<1>3. ASSUME NoMintFees
      PROVE  mints_inverse_fee(s, slipped) = 0 /\ mints_transfer_fee(s, slipped) = 0
  <2>1. get_epoch_fee(MintFees[s], slipped).basis_points = 0
    BY <1>3 DEF NoMintFees, get_epoch_fee
  <2> QED
    BY <2>1, FeeOfMint, NoFeeIsZero DEF mints_inverse_fee, mints_transfer_fee
<1>4. limit[s] = slipped
  BY <1>1, <1>2, <1>3 DEF with_transfer_fee
<1> QED
  BY <1>1, <1>4

LEMMA LimitKeepsToQuote ==
    ASSUME seen.epoch \in Nat, quote \in [Side -> Nat], NEW limit \in limits, NEW s \in Side,
           is_swap \/ NoMintFees
    PROVE  KeepsToQuote(quote[s], limit[s])
<1>1. limit[s] \in amount_with_slippage(quote[s], pays) /\ quote[s] \in Nat
  BY LimitIsSlippage
<1> QED
  BY <1>1, SlippageKeepsToQuote

\* While a transaction is pending, every amount it quotes has a limit that keeps to it,
\* and a swap quotes the side it limits alone.
TxnKeepsToQuote ==
    txn.status = "pending" =>
        \A s \in {t \in Side : txn.quote[t] > 0} :
            /\ command.kind # "InitializePool"
            /\ is_swap => s = limited
            /\ is_swap \/ NoMintFees => KeepsToQuote(txn.quote[s], txn.limit[s])

LEMMA TxnKeepsToQuoteStep ==
    ASSUME ClientInv, TxnKeepsToQuote, [ClientNext]_all_vars
    PROVE  TxnKeepsToQuote'
<1>1. CASE SendTxn
  <2>0. UNCHANGED command /\ stage = "priced"
    BY <1>1 DEF SendTxn
  <2>1. CASE txn' = [NoTxn EXCEPT !.status = "pending"]
    BY <2>1 DEF TxnKeepsToQuote, NoTxn, NoAmounts
  <2>2. CASE UNCHANGED txn
    BY <2>0, <2>2 DEF ClientInv, TxnKeepsToQuote
  <2>3. ASSUME command.kind # "InitializePool", quote_defined, NEW limit \in limits,
               txn' = [ status |-> "pending", quote |-> quote, limit |-> limit ]
        PROVE  TxnKeepsToQuote'
    <3>1. Priceable /\ ClientTypeOK
      BY <2>0, <2>3, PricedIsPriceable DEF ClientInv
    <3>2. quote \in [Side -> Nat]
      BY <2>3, <3>1, QuoteType
    <3>3. ASSUME NEW s \in Side, quote[s] > 0
          PROVE  /\ is_swap => s = limited
                 /\ is_swap \/ NoMintFees => KeepsToQuote(quote[s], limit[s])
      BY <2>3, <3>1, <3>2, <3>3, LimitKeepsToQuote DEF quote, Priceable
    <3>4. /\ is_swap' = is_swap /\ limited' = limited
          /\ \A e, l : KeepsToQuote(e, l)' = KeepsToQuote(e, l)
      BY <2>0 DEF is_swap, limited, pays, input, output, KeepsToQuote
    <3> QED
      BY <2>0, <2>3, <3>3, <3>4 DEF TxnKeepsToQuote
  <2> QED
    BY <1>1, <2>1, <2>2, <2>3 DEF SendTxn
<1>2. CASE UNCHANGED <<command, txn>>
  BY <1>2 DEF TxnKeepsToQuote, is_swap, limited, pays, input, output, KeepsToQuote, NoMintFees
<1>3. CASE \E result \in {"executed", "ExceededSlippage", "failed", "expired"} :
              Resolved(result)
  <2>1. txn'.status # "pending"
    BY <1>3 DEF Resolved, ClientInv, ClientTypeOK
  <2> QED
    BY <2>1 DEF TxnKeepsToQuote
<1>4. CASE UNCHANGED all_vars
  BY <1>2, <1>4 DEF all_vars, client_vars
<1>5. ClientNext /\ ~SendTxn =>
         \/ UNCHANGED <<command, txn>>
         \/ \E result \in {"executed", "ExceededSlippage", "failed", "expired"} :
               Resolved(result)
  BY DEF ClientNext, ClientStep, FindPool, FetchAccounts, FetchMints, GetEpoch, Confirm,
         CallFails, Land, Expire, client_vars
<1> QED
  BY <1>1, <1>2, <1>3, <1>4, <1>5

\* What keeps to a limit that keeps to the quote keeps to the quote.
LEMMA LimitCarriesOver ==
    ASSUME NEW expected \in Nat, NEW limit \in Nat, KeepsToQuote(expected, limit),
           NEW moved \in Nat, IF pays THEN moved <= limit ELSE moved >= limit
    PROVE  KeepsToQuote(expected, moved)
<1>1. SLIPPAGE_UNIT \in Nat /\ rounding \in Nat
  BY ClientAssumption DEF rounding
<1>2. expected * (SLIPPAGE_UNIT + SLIPPAGE) \in Int /\ expected * (SLIPPAGE_UNIT - SLIPPAGE) \in Int
  BY ClientAssumption
<1>3. CASE pays
  <2>1. (moved - rounding) * SLIPPAGE_UNIT <= (limit - rounding) * SLIPPAGE_UNIT
    BY <1>1, <1>3, MulMonotone
  <2> QED
    BY <1>1, <1>2, <1>3, <2>1 DEF KeepsToQuote
<1>4. CASE ~pays
  <2>1. (limit + rounding) * SLIPPAGE_UNIT <= (moved + rounding) * SLIPPAGE_UNIT
    BY <1>1, <1>4, MulMonotone
  <2> QED
    BY <1>1, <1>2, <1>4, <2>1 DEF KeepsToQuote
<1> QED
  BY <1>3, <1>4

\* Nobody deposits into a pool whose mints charge fees.
NoFeeOnDeposits == (\E c \in Commands : c.kind = "Deposit") => NoMintFees

\* A withdrawal executes only for classic mints, a deposit by assumption.
LEMMA NoFeeWhereConfused ==
    ASSUME NoFeeOnDeposits, ClientTypeOK, AccountsCreated,
           command.kind # "InitializePool", ~is_swap
    PROVE  NoMintFees
<1>1. command \in Commands /\ command.kind \in {"Deposit", "Withdraw"}
  BY CommandTyped DEF ClientTypeOK, is_swap
<1>2. CASE command.kind = "Withdraw"
  <2>1. created_accounts = Side
    BY <1>2 DEF created_accounts, is_swap
  <2>2. Token2022 = {}
    BY <2>1, ClientAssumption DEF AccountsCreated
  <2> QED
    BY <2>2, ClientAssumption DEF NoMintFees, NoFee
<1> QED
  BY <1>1, <1>2 DEF NoFeeOnDeposits

\* What a landed transaction moves keeps to what its user was quoted.
THEOREM SlippageAlwaysKept ==
    ASSUME NoFeeOnDeposits
    PROVE  ClientSpec => ExecutedWithinSlippage
<1> DEFINE Kept ==
        \A s \in {t \in Side : txn.quote[t] > 0} :
            IF pays
            THEN (paid(s) - rounding) * SLIPPAGE_UNIT
                     <= txn.quote[s] * (SLIPPAGE_UNIT + SLIPPAGE)
            ELSE (received(s) + rounding) * SLIPPAGE_UNIT
                     >= txn.quote[s] * (SLIPPAGE_UNIT - SLIPPAGE)
<1>1. ClientInit => TxnKeepsToQuote
  BY DEF ClientInit, NoTxn, TxnKeepsToQuote
<1>2. ClientInv /\ TxnKeepsToQuote /\ [ClientNext]_all_vars => TxnKeepsToQuote'
  BY TxnKeepsToQuoteStep
<1>3. ASSUME ClientInv, TxnKeepsToQuote, [ClientNext]_all_vars, Lands,
             NEW s \in {t \in Side : txn.quote[t] > 0}
      PROVE  KeepsToQuote(txn.quote[s], IF pays THEN paid(s) ELSE received(s))
  <2>1. AccountInv /\ ClientTypeOK /\ txn.quote[s] \in Nat /\ txn.limit \in [Side -> Nat]
        /\ txn.limit[s] \in Nat
    BY <1>3 DEF ClientInv, ClientTypeOK
  <2>2. AccountsCreated /\ Executes(txn.limit)
    BY <1>3, <2>1, LandsExecutes
  <2>3. command.kind # "InitializePool" /\ (is_swap => s = limited)
    BY <1>3 DEF TxnKeepsToQuote, Lands
  <2>4. is_swap \/ NoMintFees
    BY <2>1, <2>2, <2>3, NoFeeWhereConfused
  <2>5. KeepsToQuote(txn.quote[s], txn.limit[s])
    BY <1>3, <2>4 DEF TxnKeepsToQuote, Lands
  <2>6. IF pays THEN paid(s) \in Nat /\ paid(s) <= txn.limit[s]
                ELSE received(s) \in Nat /\ received(s) >= txn.limit[s]
    BY <1>3, <2>1, <2>2, <2>3, ExecutesKeepsLimit
  <2>7. CASE pays
    BY <2>1, <2>5, <2>6, <2>7, LimitCarriesOver
  <2>8. CASE ~pays
    BY <2>1, <2>5, <2>6, <2>8, LimitCarriesOver
  <2> QED
    BY <2>7, <2>8
<1>4. ClientInv /\ TxnKeepsToQuote /\ [ClientNext]_all_vars => [Lands => Kept]_all_vars
  <2> SUFFICES ASSUME ClientInv, TxnKeepsToQuote, [ClientNext]_all_vars, Lands
               PROVE  Kept
    OBVIOUS
  <2> QED
    BY <1>3 DEF KeepsToQuote
<1> QED
  BY <1>1, <1>2, <1>4, ClientInvAlways, PTL DEF ClientSpec, ExecutedWithinSlippage

(***************************************************************************)
(* A pool as the client saw it.                                            *)
(***************************************************************************)
\* The limit is on the lax side of the quote, of a minimum strictly unless there is no
\* slippage or nothing to get.
LEMMA SlippageIsLax ==
    ASSUME NEW expected \in Nat, NEW limit \in amount_with_slippage(expected, pays)
    PROVE  /\ pays => limit >= expected
           /\ ~pays => limit <= expected
           /\ ~pays /\ SLIPPAGE # 0 /\ expected > 0 => limit < expected
<1> DEFINE factor  == IF pays THEN SLIPPAGE_UNIT + SLIPPAGE ELSE SLIPPAGE_UNIT - SLIPPAGE
           product == expected * factor
           below   == product \div SLIPPAGE_UNIT
<1>1. SLIPPAGE_UNIT \in Nat \ {0} /\ SLIPPAGE \in 0..SLIPPAGE_UNIT /\ factor \in Nat
  BY ClientAssumption
<1>2. \/ limit = below
      \/ limit = (IF pays THEN below + 1 ELSE below)
      \/ limit = (IF pays THEN below + 1 ELSE below - 1)
  BY DEF amount_with_slippage
<1>3. /\ pays => factor >= SLIPPAGE_UNIT
      /\ ~pays => factor <= SLIPPAGE_UNIT
      /\ ~pays /\ SLIPPAGE # 0 => factor < SLIPPAGE_UNIT
  BY <1>1
<1> HIDE DEF factor
<1>4. product \in Nat /\ expected * SLIPPAGE_UNIT \in Nat
  BY <1>1
<1>5. ASSUME pays
      PROVE  below >= expected
  <2>1. expected * SLIPPAGE_UNIT <= product
    BY <1>1, <1>3, <1>5
  <2> QED
    BY <1>1, <1>4, <2>1, DivAtLeast
<1>6. ASSUME ~pays
      PROVE  below <= expected
  <2>1. product <= expected * SLIPPAGE_UNIT
    BY <1>1, <1>3, <1>6
  <2>2. product < expected * SLIPPAGE_UNIT + SLIPPAGE_UNIT
    BY <1>1, <1>4, <2>1
  <2> QED
    BY <1>1, <1>4, <2>2, DivAtMost
<1>7. ASSUME ~pays, SLIPPAGE # 0, expected > 0
      PROVE  below < expected
  <2>1. factor + 1 <= SLIPPAGE_UNIT
    BY <1>1, <1>3, <1>7
  <2>2. expected * (factor + 1) <= expected * SLIPPAGE_UNIT
    BY <1>1, <2>1
  <2>3. expected * (factor + 1) = product + expected
    BY <1>1
  <2>4. product < expected * SLIPPAGE_UNIT
    BY <1>4, <1>7, <2>2, <2>3
  <2> QED
    BY <1>1, <1>4, <2>4, DivBelow
<1>8. below \in Nat
  BY <1>1, <1>4, DivBounds
<1> HIDE DEF below
<1> QED
  BY <1>2, <1>5, <1>6, <1>7, <1>8

\* A pending transaction carries the quote of what was seen and a limit made of it.
TxnIsQuoted ==
    txn.status = "pending" /\ command.kind # "InitializePool" =>
        txn.quote = quote /\ txn.limit \in limits

\* The quote, like every price of the client, depends on what it saw alone.
LEMMA QuoteUnchanged ==
    ASSUME UNCHANGED <<command, seen>>
    PROVE  quote' = quote /\ limits' = limits
<1>1. /\ input' = input /\ output' = output /\ amount' = amount /\ is_swap' = is_swap
      /\ pays' = pays /\ limited' = limited
  BY DEF input, output, amount, is_swap, pays, limited
<1>2. \A s : seen_reserve(s)' = seen_reserve(s) /\ seen_fee(s)' = seen_fee(s)
  BY DEF seen_reserve, seen_fee
<1>3. quote_base_in' = quote_base_in
  BY <1>1, <1>2 DEF quote_base_in
<1>4. actual_amount_out' = actual_amount_out
  BY <1>1, <1>2 DEF actual_amount_out
<1>5. quote_base_out' = quote_base_out
  BY <1>1, <1>2, <1>4 DEF quote_base_out
<1>6. \A s : quote_share(s)' = quote_share(s)
  BY <1>1, <1>2 DEF quote_share
<1>7. quote' = quote
  BY <1>1, <1>3, <1>5, <1>6 DEF quote, quote_swap
<1>8. \A s, limit : with_transfer_fee(s, limit)' = with_transfer_fee(s, limit)
  BY <1>1 DEF with_transfer_fee, mints_inverse_fee, mints_transfer_fee
<1>9. \A n, up : amount_with_slippage(n, up)' = amount_with_slippage(n, up)
  BY DEF amount_with_slippage
<1> QED
  BY <1>1, <1>7, <1>8, <1>9 DEF limits

LEMMA TxnIsQuotedStep ==
    ASSUME ClientInv, TxnIsQuoted, [ClientNext]_all_vars
    PROVE  TxnIsQuoted'
<1>1. CASE SendTxn
  <2>1. UNCHANGED <<command, seen>> /\ txn.status # "pending"
    BY <1>1 DEF SendTxn, ClientInv
  <2>2. quote' = quote /\ limits' = limits
    BY <2>1, QuoteUnchanged
  <2> QED
    BY <1>1, <2>1, <2>2 DEF SendTxn, TxnIsQuoted
<1>2. ASSUME UNCHANGED <<command, seen, txn>>
      PROVE  TxnIsQuoted'
  BY <1>2, QuoteUnchanged DEF TxnIsQuoted
<1>3. CASE FindPool \/ FetchAccounts \/ GetEpoch
  BY <1>3 DEF FindPool, FetchAccounts, GetEpoch, ClientInv, TxnIsQuoted
<1>4. CASE \E result \in {"executed", "ExceededSlippage", "failed", "expired"} :
              Resolved(result)
  <2>1. txn'.status # "pending"
    BY <1>4 DEF Resolved, ClientInv, ClientTypeOK
  <2> QED
    BY <2>1 DEF TxnIsQuoted
<1>5. CASE FetchMints \/ Confirm \/ CallFails \/ UNCHANGED client_vars
  BY <1>2, <1>5 DEF FetchMints, Confirm, CallFails, client_vars
<1>6. CASE Land \/ Expire
  BY <1>4, <1>6 DEF Land, Expire
<1> QED
  BY <1>1, <1>3, <1>4, <1>5, <1>6 DEF ClientNext, ClientStep, all_vars

\* What was seen is what there is.
LEMMA SeenIsThere ==
    ASSUME View = seen
    PROVE  /\ \A s \in Side : seen_reserve(s) = vault_amount_without_fee(s)
           /\ \A s \in Side : seen_fee(s) = epoch_fee(s)
           /\ seen.lp_supply = lp_supply /\ seen.amm_config = amm_config /\ seen.epoch = epoch
<1>1. /\ seen.vault = vault
      /\ seen.owed = [s \in Side |-> protocol_fees[s] + fund_fees[s]]
      /\ seen.lp_supply = lp_supply /\ seen.amm_config = amm_config /\ seen.epoch = epoch
  BY DEF View
<1> QED
  BY <1>1 DEF seen_reserve, seen_fee, vault_amount_without_fee, epoch_fee

\* Its limits let through what the pool would move if nobody limited it: a maximum is at
\* least what it expects to pay, a minimum at most what it expects to get.
LEMMA QuotedLimit ==
    ASSUME ClientTypeOK, txn.quote = quote, txn.limit \in limits, NEW s \in Side,
           is_swap \/ NoMintFees
    PROVE  /\ quote[s] \in Nat /\ txn.limit[s] \in Nat
           /\ pays => txn.limit[s] >= quote[s]
           /\ ~pays => txn.limit[s] <= quote[s]
           /\ ~pays /\ SLIPPAGE # 0 /\ quote[s] > 0 => txn.limit[s] < quote[s]
<1>1. quote \in [Side -> Nat] /\ txn.limit \in [Side -> Nat] /\ seen.epoch \in Nat
  BY DEF ClientTypeOK
<1>2. txn.limit[s] \in amount_with_slippage(quote[s], pays)
  BY <1>1, LimitIsSlippage
<1> QED
  BY <1>1, <1>2, SlippageIsLax

\* A deposit's quote is what the program takes.
LEMMA DepositAccepted ==
    ASSUME ClientInv, command.kind = "Deposit", txn.quote = quote, txn.limit \in limits,
           View = seen, NoMintFees, NEW maximum, Deposit(amount, maximum)
    PROVE  Deposit(amount, txn.limit)
<1> DEFINE share(s)    == lp_tokens_to_trading_token(amount, lp_supply,
                              vault_amount_without_fee(s), "Ceiling")
           transfer(s) == share(s) + get_transfer_inverse_fee(epoch_fee(s), share(s))
<1>1. pays /\ ~is_swap
  BY DEF pays, is_swap
<1>2. ASSUME NEW s \in Side
      PROVE  transfer(s) <= txn.limit[s]
  <2>1. quote[s] = share(s)
    BY <1>1, SeenIsThere DEF quote, quote_share
  <2>2. quote[s] \in Nat /\ txn.limit[s] \in Nat /\ txn.limit[s] >= quote[s]
    BY <1>1, QuotedLimit DEF ClientInv
  <2>3. epoch_fee(s).basis_points = 0 /\ epoch_fee(s) \in TransferFeeType
    BY EpochFeeType DEF NoMintFees, epoch_fee, get_epoch_fee
  <2>4. get_transfer_inverse_fee(epoch_fee(s), quote[s]) = 0
    BY <2>2, <2>3, NoFeeIsZero
  <2> HIDE DEF share
  <2>5. transfer(s) = quote[s]
    BY <2>1, <2>2, <2>4
  <2> QED
    BY <2>2, <2>5
<1> QED
  BY <1>2 DEF Deposit

\* A withdrawal's quote, rounded up, is at most a token above what the program pays.
LEMMA WithdrawAccepted ==
    ASSUME ClientInv, command.kind = "Withdraw", txn.quote = quote, txn.limit \in limits,
           View = seen, NoMintFees, SLIPPAGE # 0, NEW minimum, Withdraw(amount, minimum, Side)
    PROVE  Withdraw(amount, txn.limit, Side)
<1> DEFINE r(s)       == vault_amount_without_fee(s)
           floor(s)   == lp_tokens_to_trading_token(amount, lp_supply, r(s), "Floor")
           sent(s)    == Lesser(r(s), floor(s))
           receive(s) == sent(s) - get_transfer_fee(epoch_fee(s), sent(s))
<1>1. ~pays /\ ~is_swap
  BY DEF pays, is_swap
<1>2. lp_supply \in Nat \ {0} /\ amount \in Nat /\ amount <= lp_supply
  BY CreatedHasSupply, CommandTyped DEF Withdraw, ClientInv
<1>3. ASSUME NEW s \in Side
      PROVE  receive(s) >= txn.limit[s]
  <2>1. r(s) \in Nat
    BY ReserveType DEF ClientInv, AccountInv
  <2>2. quote[s] = lp_tokens_to_trading_token(amount, lp_supply, r(s), "Ceiling")
    BY <1>1, SeenIsThere DEF quote, quote_share
  <2>3. /\ quote[s] \in Nat /\ txn.limit[s] \in Nat /\ txn.limit[s] <= quote[s]
        /\ quote[s] > 0 => txn.limit[s] < quote[s]
    BY <1>1, QuotedLimit DEF ClientInv
  <2> HIDE DEF r
  <2>4. floor(s) \in Nat /\ quote[s] <= floor(s) + 1
    BY <1>2, <2>1, <2>2, ShareType DEF lp_tokens_to_trading_token
  <2>5. floor(s) <= r(s)
    <3>1. amount * r(s) <= lp_supply * r(s)
      BY <1>2, <2>1, MulMonotone
    <3>2. amount * r(s) < r(s) * lp_supply + lp_supply /\ amount * r(s) \in Nat
      BY <1>2, <2>1, <3>1
    <3> QED
      BY <1>2, <2>1, <3>2, DivAtMost DEF lp_tokens_to_trading_token
  <2>6. sent(s) = floor(s)
    <3> HIDE DEF floor
    <3> QED
      BY <2>1, <2>4, <2>5 DEF Lesser
  <2> HIDE DEF floor, sent
  <2>7. epoch_fee(s).basis_points = 0 /\ epoch_fee(s) \in TransferFeeType
    BY EpochFeeType DEF NoMintFees, epoch_fee, get_epoch_fee
  <2>8. receive(s) = floor(s)
    BY <2>4, <2>6, <2>7, NoFeeIsZero
  <2> QED
    BY <2>3, <2>4, <2>8
<1> QED
  BY <1>3 DEF Withdraw

\* What a swap of an exact input brings is what was quoted.
LEMMA SwapInAccepted ==
    ASSUME ClientInv, command.kind = "SwapBaseIn", txn.quote = quote, txn.limit \in limits,
           View = seen, NEW minimum, SwapBaseInput(input, amount, minimum, {output})
    PROVE  SwapBaseInput(input, amount, txn.limit[output], {output})
<1> DEFINE out  == swap_base_input(CreditedToVault(input, amount),
                       vault_amount_without_fee(input), vault_amount_without_fee(1 - input),
                       amm_config).destination_amount_swapped
<1>1. ~pays /\ is_swap /\ limited = output
  BY DEF pays, is_swap, limited
<1>2. input \in Side /\ output \in Side /\ output = 1 - input
  BY CommandTyped DEF ClientInv, output
<1>3. /\ seen_reserve(input) = vault_amount_without_fee(input)
      /\ seen_reserve(output) = vault_amount_without_fee(1 - input)
      /\ seen_fee(input) = epoch_fee(input) /\ seen_fee(output) = epoch_fee(1 - input)
      /\ seen.amm_config = amm_config
  BY <1>2, SeenIsThere
<1>4. quote[output] = out - get_transfer_fee(epoch_fee(1 - input), out)
  BY <1>1, <1>2, <1>3 DEF quote, quote_swap, quote_base_in, CreditedToVault
<1>5. txn.limit[output] \in Nat /\ quote[output] \in Nat /\ txn.limit[output] <= quote[output]
  BY <1>1, <1>2, QuotedLimit DEF ClientInv
<1>6. out - get_transfer_fee(epoch_fee(1 - input), out) >= txn.limit[output]
  BY <1>4, <1>5
<1> QED
  BY <1>6 DEF SwapBaseInput

\* What a swap for an exact output costs is what was quoted.
LEMMA SwapOutAccepted ==
    ASSUME ClientInv, command.kind = "SwapBaseOut", txn.quote = quote, txn.limit \in limits,
           View = seen, NEW maximum, SwapBaseOutput(input, maximum, amount, {output})
    PROVE  SwapBaseOutput(input, txn.limit[input], amount, {output})
<1> DEFINE actual == amount + get_transfer_inverse_fee(epoch_fee(1 - input), amount)
           source == swap_base_output(actual, vault_amount_without_fee(input),
                         vault_amount_without_fee(1 - input), amm_config).source_amount_swapped
<1>1. pays /\ is_swap /\ limited = input
  BY DEF pays, is_swap, limited
<1>2. input \in Side /\ output \in Side /\ output = 1 - input
  BY CommandTyped DEF ClientInv, output
<1>3. /\ seen_reserve(input) = vault_amount_without_fee(input)
      /\ seen_reserve(output) = vault_amount_without_fee(1 - input)
      /\ seen_fee(input) = epoch_fee(input) /\ seen_fee(output) = epoch_fee(1 - input)
      /\ seen.amm_config = amm_config
  BY <1>2, SeenIsThere
<1>4. quote[input] = source + get_transfer_inverse_fee(epoch_fee(input), source)
  BY <1>1, <1>2, <1>3 DEF quote, quote_swap, quote_base_out, actual_amount_out
<1>5. txn.limit[input] \in Nat /\ quote[input] \in Nat /\ txn.limit[input] >= quote[input]
  BY <1>1, <1>2, QuotedLimit DEF ClientInv
<1>6. txn.limit[input] >= source + get_transfer_inverse_fee(epoch_fee(input), source)
  BY <1>4, <1>5
<1> QED
  BY <1>6 DEF SwapBaseOutput

\* A transaction on its way carries what the client makes of what it saw.
THEOREM QuoteAlwaysSent == ClientSpec => []TxnIsQuoted
<1>1. ClientInit => TxnIsQuoted
  BY DEF ClientInit, NoTxn, TxnIsQuoted
<1>2. ClientInv /\ TxnIsQuoted /\ [ClientNext]_all_vars => TxnIsQuoted'
  BY TxnIsQuotedStep
<1> QED
  BY <1>1, <1>2, ClientInvAlways, PTL DEF ClientSpec

\* A pool that is what the client read executes the transaction with the client's limit
\* whenever it would execute it without one, unless it is a withdrawal without slippage:
\* the client expects the share rounded up, the program pays it rounded down.
THEOREM UnchangedPoolAccepts ==
    ASSUME ClientInv, TxnIsQuoted, txn.status = "pending", View = seen, AccountsCreated,
           NoFeeOnDeposits, command.kind = "Withdraw" => SLIPPAGE # 0, Executes(NoLimit)
    PROVE  Executes(txn.limit)
<1>1. CASE command.kind = "InitializePool"
  BY <1>1 DEF Executes
<1>2. ASSUME command.kind # "InitializePool"
      PROVE  /\ txn.quote = quote /\ txn.limit \in limits
             /\ ~is_swap => NoMintFees
  BY <1>2, NoFeeWhereConfused DEF TxnIsQuoted, ClientInv
<1>3. CASE command.kind = "Deposit"
  <2>1. Deposit(amount, NoLimit) /\ ~is_swap
    BY <1>3 DEF Executes, deposit_instr, is_swap
  <2>2. Deposit(amount, txn.limit)
    BY <1>2, <1>3, <2>1, DepositAccepted
  <2> QED
    BY <1>3, <2>2 DEF Executes, deposit_instr
<1>4. CASE command.kind = "Withdraw"
  <2>1. Withdraw(amount, NoLimit, Side) /\ ~is_swap
    BY <1>4 DEF Executes, withdraw_instr, is_swap
  <2>2. Withdraw(amount, txn.limit, Side)
    BY <1>2, <1>4, <2>1, WithdrawAccepted
  <2> QED
    BY <1>4, <2>2 DEF Executes, withdraw_instr
<1>5. CASE command.kind = "SwapBaseIn"
  <2>1. SwapBaseInput(input, amount, NoLimit[output], {output})
    BY <1>5 DEF Executes, swap_base_input_instr
  <2>2. SwapBaseInput(input, amount, txn.limit[output], {output})
    BY <1>2, <1>5, <2>1, SwapInAccepted
  <2> QED
    BY <1>5, <2>2 DEF Executes, swap_base_input_instr
<1>6. CASE command.kind = "SwapBaseOut"
  <2>1. SwapBaseOutput(input, NoLimit[input], amount, {output})
    BY <1>6 DEF Executes, swap_base_output_instr
  <2>2. SwapBaseOutput(input, txn.limit[input], amount, {output})
    BY <1>2, <1>6, <2>1, SwapOutAccepted
  <2> QED
    BY <1>6, <2>2 DEF Executes, swap_base_output_instr
<1> QED
  BY <1>1, <1>3, <1>4, <1>5, <1>6 DEF Executes

----------------------------------------------------------------------------
(***************************************************************************)
(* The parser of logs: what holds after every line.                        *)
(***************************************************************************)
LogInv ==
    /\ LogTypeOK
    /\ FollowsRuntime
    /\ EventsAreOwn
    /\ lines = 0 => running = <<>> /\ stack = <<>>

\* What the parser's stack may hold.
Entries == Programs \cup {"cpi"}

\* Lines of the program that the parser believes is running, the only ones it takes for
\* neither call nor return whatever they say.
Ignored(line) == in_own_context /\ has_prefix(line)

(***************************************************************************)
(* Sequences.                                                              *)
(***************************************************************************)
\* What is left without the last element, and the last element.
LEMMA FrontAndLast ==
    ASSUME NEW S, NEW s \in Seq(S), s # <<>>
    PROVE  /\ Front(s) \in Seq(S)
           /\ Len(s) \in Nat \ {0}
           /\ Len(Front(s)) = Len(s) - 1
           /\ \A i \in 1..Len(s) - 1 : Front(s)[i] = s[i]
           /\ Last(s) \in S /\ Last(s) = s[Len(s)]
<1>1. Len(s) \in Nat \ {0}
  BY EmptySeq, LenProperties
<1>2. \A i \in 1..Len(s) : s[i] \in S
  BY ElementOfSeq
<1>3. Len(s) - 1 \in Int /\ \A i \in 1..Len(s) - 1 : s[i] \in S
  BY <1>1, <1>2
<1>4. /\ Front(s) \in Seq(S)
      /\ Len(Front(s)) = IF 1 <= Len(s) - 1 THEN (Len(s) - 1) - 1 + 1 ELSE 0
      /\ \A i \in 1..(Len(s) - 1) - 1 + 1 : Front(s)[i] = s[1 + i - 1]
  BY <1>3, SubSeqProperties DEF Front
<1>5. Len(Front(s)) = Len(s) - 1
  <2> DEFINE n == Len(s)
             m == Len(Front(s))
  <2>1. n \in Nat \ {0} /\ m = IF 1 <= n - 1 THEN (n - 1) - 1 + 1 ELSE 0
    BY <1>1, <1>4
  <2> HIDE DEF n, m
  <2>2. m = n - 1
    BY <2>1
  <2> QED
    BY <2>2 DEF n, m
<1>6. \A i \in 1..Len(s) - 1 : Front(s)[i] = s[i]
  BY <1>1, <1>4
<1>7. Last(s) \in S /\ Last(s) = s[Len(s)]
  BY <1>1, <1>2 DEF Last
<1> QED
  BY <1>1, <1>4, <1>5, <1>6, <1>7

(***************************************************************************)
(* One line that the parser reads.                                         *)
(***************************************************************************)
\* What it takes for a call pushes an entry, for a real call the right one.
LEMMA LinePushes ==
    ASSUME LogInv, NEW line, lines # 0, Write(line), ~Ignored(line),
           line.kind = "invoke" \/ "invoke" \in line.looks
    PROVE  /\ stopped' = "no" /\ decoded' = decoded
           /\ \E entry \in Entries :
                /\ stack' = Append(stack, entry)
                /\ line.kind = "invoke" => (entry = Self <=> line.program = Self)
<1> DEFINE handled == IF in_own_context THEN handle_program_log(line)
                                        ELSE handle_system_log(line)
           pushed == stack \o handled.push
           data == in_own_context /\ is_event(line)
           entry == IF line.kind = "invoke" /\ line.program = Self THEN Self ELSE "cpi"
<1>1. stack \in Seq(Entries) /\ Self \in Entries /\ "cpi" \in Entries /\ Self # "cpi"
  BY LogAssumption DEF LogInv, LogTypeOK, Entries, Programs
<1>2. handled = [ push |-> <<entry>>, pop |-> FALSE ]
  <2>1. handled = handle_system_log(line)
    BY DEF handle_program_log, Ignored
  <2> HIDE DEF handled
  <2> QED
    BY <2>1 DEF handle_system_log
<1>3. handled.push = <<entry>> /\ handled.pop = FALSE
  BY <1>2
<1>4. ~data
  BY DEF Ignored, has_prefix, is_event
<1>5. /\ decoded' = IF data /\ ~too_short(line) THEN Append(decoded, line.event) ELSE decoded
      /\ stopped' = IF handled.pop /\ pushed = <<>> THEN "assert"
                    ELSE IF data /\ too_short(line) THEN "exit" ELSE "no"
      /\ stack' = IF handled.pop /\ pushed # <<>> THEN Front(pushed) ELSE pushed
  BY DEF Write, Read
<1>6. entry \in Entries /\ (line.kind = "invoke" => (entry = Self <=> line.program = Self))
  BY <1>1
<1> HIDE DEF handled, entry, data
<1>7. pushed = Append(stack, entry)
  BY <1>1, <1>3, <1>6, AppendIsConcat
<1> HIDE DEF pushed
<1>8. stack' = Append(stack, entry) /\ decoded' = decoded /\ stopped' = "no"
  BY <1>3, <1>4, <1>5, <1>7
<1> QED
  BY <1>6, <1>8

\* What it takes for a return pops an entry, or there is none to pop.
LEMMA LinePops ==
    ASSUME LogInv, NEW line, lines # 0, Write(line), ~Ignored(line),
           line.kind # "invoke", "invoke" \notin line.looks,
           line.kind = "success" \/ "success" \in line.looks
    PROVE  /\ decoded' = decoded
           /\ stack # <<>> => stack' = Front(stack) /\ stopped' = "no"
           /\ stack = <<>> => stack' = <<>> /\ stopped' = "assert"
<1> DEFINE handled == IF in_own_context THEN handle_program_log(line)
                                        ELSE handle_system_log(line)
           pushed == stack \o handled.push
           data == in_own_context /\ is_event(line)
           returns == line.kind = "success" \/ "success" \in line.looks
<1>1. stack \in Seq(Entries)
  BY DEF LogInv, LogTypeOK, Entries
<1>2. handled.push = <<>> /\ handled.pop
  <2>1. handled = handle_system_log(line)
    BY DEF handle_program_log, Ignored
  <2>2. handle_system_log(line) = [ push |-> <<>>, pop |-> returns ]
    BY DEF handle_system_log
  <2>3. returns = TRUE
    OBVIOUS
  <2> HIDE DEF handled, returns
  <2>4. handled = [ push |-> <<>>, pop |-> TRUE ]
    BY <2>1, <2>2, <2>3, Zenon
  <2> QED
    BY <2>4
<1>3. ~data
  BY DEF Ignored, has_prefix, is_event
<1>4. /\ decoded' = IF data /\ ~too_short(line) THEN Append(decoded, line.event) ELSE decoded
      /\ stopped' = IF handled.pop /\ pushed = <<>> THEN "assert"
                    ELSE IF data /\ too_short(line) THEN "exit" ELSE "no"
      /\ stack' = IF handled.pop /\ pushed # <<>> THEN Front(pushed) ELSE pushed
  BY DEF Write, Read
<1> HIDE DEF handled, data
<1>5. pushed = stack
  BY <1>1, <1>2, ConcatEmptySeq
<1> HIDE DEF pushed
<1> QED
  BY <1>2, <1>3, <1>4, <1>5

\* Every other line leaves the stack alone; an event in it is printed, data that is none
\* ends the process.
LEMMA LineQuiet ==
    ASSUME LogInv, NEW line, lines # 0, Write(line),
           line.kind \notin {"invoke", "success"},
           Ignored(line) \/ ("invoke" \notin line.looks /\ "success" \notin line.looks)
    PROVE  /\ stack' = stack
           /\ stopped' = IF in_own_context /\ line.kind = "data" /\ line.event = NoEvent
                         THEN "exit" ELSE "no"
           /\ decoded' = IF in_own_context /\ line.kind = "data" /\ line.event # NoEvent
                         THEN Append(decoded, line.event) ELSE decoded
<1> DEFINE handled == IF in_own_context THEN handle_program_log(line)
                                        ELSE handle_system_log(line)
           pushed == stack \o handled.push
           data == in_own_context /\ is_event(line)
           quiet == [ push |-> <<>>, pop |-> FALSE ]
           returns == line.kind = "success" \/ "success" \in line.looks
<1>1. stack \in Seq(Entries)
  BY DEF LogInv, LogTypeOK, Entries
<1>2. handled = quiet
  <2>1. CASE Ignored(line)
    BY <2>1 DEF handle_program_log, Ignored
  <2>2. CASE ~Ignored(line)
    <3>1. handled = handle_system_log(line)
      BY <2>2 DEF handle_program_log, Ignored
    <3>2. handle_system_log(line) = [ push |-> <<>>, pop |-> returns ]
      BY <2>2 DEF handle_system_log
    <3>3. returns = FALSE
      BY <2>2
    <3> HIDE DEF handled, returns
    <3> QED
      BY <3>1, <3>2, <3>3, Zenon
  <2> QED
    BY <2>1, <2>2
<1>3. handled.push = <<>> /\ handled.pop = FALSE
  BY <1>2
<1>4. /\ decoded' = IF data /\ ~too_short(line) THEN Append(decoded, line.event) ELSE decoded
      /\ stopped' = IF handled.pop /\ pushed = <<>> THEN "assert"
                    ELSE IF data /\ too_short(line) THEN "exit" ELSE "no"
      /\ stack' = IF handled.pop /\ pushed # <<>> THEN Front(pushed) ELSE pushed
  BY DEF Write, Read
<1> HIDE DEF handled
<1>5. pushed = stack
  BY <1>1, <1>3, ConcatEmptySeq
<1> HIDE DEF pushed
<1> QED
  BY <1>3, <1>4, <1>5 DEF is_event, too_short

(***************************************************************************)
(* What misled promises.                                                   *)
(***************************************************************************)
\* Before the first line nothing runs.
LEMMA FirstLine ==
    ASSUME LogInv, running # <<>>
    PROVE  lines # 0
  BY DEF LogInv

\* Never misled, the parser takes this program for the running one when it is.
LEMMA KnowsWhoRuns ==
    ASSUME LogInv, Runs, misled = {}
    PROVE  /\ Len(stack) = Len(running)
           /\ in_own_context <=> Last(running) = Self
<1>1. /\ running \in Seq(Programs) /\ running # <<>>
      /\ stack \in Seq(Entries)
      /\ Len(stack) >= Len(running) /\ Len(stack) <= Len(running)
      /\ \A i \in 1..Len(running) : stack[i] = Self <=> running[i] = Self
  BY DEF Runs, LogInv, LogTypeOK, FollowsRuntime, Entries
<1>2. Len(running) \in Nat \ {0} /\ Last(running) = running[Len(running)]
  BY <1>1, FrontAndLast
<1>3. Len(stack) \in Nat
  BY <1>1, LenProperties
<1>4. Len(stack) = Len(running)
  <2> DEFINE m == Len(stack)
             n == Len(running)
  <2>1. m \in Nat /\ n \in Nat /\ m >= n /\ m <= n
    BY <1>1, <1>2, <1>3
  <2> HIDE DEF m, n
  <2>2. m = n
    BY <2>1
  <2> QED
    BY <2>2 DEF m, n
<1>5. stack # <<>>
  BY <1>1, <1>2, <1>4, EmptySeq
<1>6. Last(stack) = stack[Len(stack)]
  BY <1>1, <1>5, FrontAndLast
<1> QED
  BY <1>1, <1>2, <1>4, <1>5, <1>6 DEF in_own_context

\* A line in the log is counted, up to the bound, and so is the first that is dropped.
LEMMA LineCounted ==
    ASSUME LogInv, NEW line, Write(line) \/ Drop(line)
    PROVE  lines' \in 0..MaxLines /\ lines' # 0
<1>1. lines \in 0..MaxLines /\ MaxLines \in Nat
  BY LogAssumption DEF LogInv, LogTypeOK
<1>2. CASE Write(line)
  BY <1>1, <1>2 DEF Write
<1>3. CASE Drop(line)
  <2>1. CASE truncated
    BY <1>1, <1>3, <2>1 DEF Drop
  <2>2. CASE ~truncated
    BY <1>1, <1>3, <2>2 DEF Drop
  <2> QED
    BY <2>1, <2>2
<1> QED
  BY <1>2, <1>3

(***************************************************************************)
(* The steps of the runtime.                                               *)
(***************************************************************************)
\* Without the call, the parser's stack is one short, and misled says so.
LEMMA InvokeInv ==
    ASSUME LogInv, NEW p \in Programs, Invoke(p)
    PROVE  LogInv'
<1> DEFINE line == Line("invoke", p, {}, NoEvent)
<1>1. /\ phase = "running" /\ Len(running) < MaxDepth
      /\ running' = Append(running, p)
      /\ stopped = "no" /\ (Write(line) \/ Drop(line))
      /\ phase' = phase
  BY DEF Invoke, Put
<1>2. line.kind = "invoke" /\ line.program = p /\ line.looks = {}
  BY DEF Line
<1> HIDE DEF line
<1>3. /\ running \in Seq(Programs) /\ stack \in Seq(Entries)
      /\ Len(running) \in Nat /\ Len(stack) \in Nat
  BY LenProperties DEF LogInv, LogTypeOK, Entries
<1>4. /\ running' \in Seq(Programs)
      /\ Len(running') = Len(running) + 1
      /\ \A i \in 1..Len(running) : running'[i] = running[i]
      /\ running'[Len(running) + 1] = p
  BY <1>1, <1>3, AppendProperties
<1>5. lines' \in 0..MaxLines /\ lines' # 0
  BY <1>1, LineCounted
<1>6. Len(running') <= MaxDepth
  <2>1. MaxDepth \in Nat
    BY LogAssumption
  <2> QED
    BY <1>1, <1>3, <1>4, <2>1
<1>7. CASE Write(line)
  <2>1. misled' = misled /\ logged' = logged /\ truncated' = truncated
    BY <1>2, <1>7 DEF Write, Misleads
  <2>2. /\ stopped' = "no" /\ decoded' = decoded
        /\ \E entry \in Entries : stack' = Append(stack, entry) /\ (entry = Self <=> p = Self)
    <3>1. CASE lines = 0
      <4>1. stack' = <<p>> /\ decoded' = decoded /\ stopped' = stopped /\ stack = <<>>
        BY <1>2, <1>7, <3>1 DEF Write, Read, LogInv
      <4>2. p \in Entries /\ stack' = Append(stack, p)
        BY <4>1 DEF Entries
      <4> QED
        BY <1>1, <4>1, <4>2
    <3>2. CASE lines # 0
      <4>1. ~Ignored(line)
        BY <1>2 DEF Ignored, has_prefix
      <4> QED
        BY <1>2, <1>7, <3>2, <4>1, LinePushes
    <3> QED
      BY <3>1, <3>2
  <2>3. PICK entry \in Entries : stack' = Append(stack, entry) /\ (entry = Self <=> p = Self)
    BY <2>2
  <2>4. /\ stack' \in Seq(Entries)
        /\ Len(stack') = Len(stack) + 1
        /\ \A i \in 1..Len(stack) : stack'[i] = stack[i]
        /\ stack'[Len(stack) + 1] = entry
    BY <1>3, <2>3, AppendProperties
  <2>5. LogTypeOK'
    BY <1>1, <1>4, <1>5, <1>6, <2>1, <2>2, <2>4 DEF LogInv, LogTypeOK, Entries
  <2>6. FollowsRuntime'
    <3>1. "return" \notin misled => Len(stack') >= Len(running')
      BY <1>3, <1>4, <2>4 DEF LogInv, FollowsRuntime
    <3>2. "call" \notin misled => Len(stack') <= Len(running')
      BY <1>1, <1>3, <1>4, <2>4 DEF LogInv, FollowsRuntime
    <3>3. ASSUME misled = {}
          PROVE  \A i \in 1..Len(running') : stack'[i] = Self <=> running'[i] = Self
      <4>1. /\ Len(stack) >= Len(running) /\ Len(stack) <= Len(running)
            /\ \A i \in 1..Len(running) : stack[i] = Self <=> running[i] = Self
        BY <1>1, <3>3 DEF LogInv, FollowsRuntime
      <4>2. Len(stack) = Len(running)
        BY <1>3, <4>1
      <4> QED
        BY <1>3, <1>4, <2>3, <2>4, <4>1, <4>2
    <3> QED
      BY <2>1, <2>2, <3>1, <3>2, <3>3 DEF FollowsRuntime
  <2>7. EventsAreOwn'
    BY <2>1, <2>2 DEF LogInv, EventsAreOwn
  <2> QED
    BY <1>5, <2>5, <2>6, <2>7 DEF LogInv
<1>8. CASE Drop(line)
  <2>1. misled' = misled \cup {"return"} /\ truncated' = TRUE
        /\ UNCHANGED <<logged, stack, decoded, stopped>>
    BY <1>2, <1>8 DEF Drop, Conceals
  <2>2. LogTypeOK'
    BY <1>1, <1>4, <1>5, <1>6, <2>1 DEF LogInv, LogTypeOK
  <2>3. "call" \notin misled => Len(stack') <= Len(running')
    BY <1>1, <1>3, <1>4, <2>1 DEF LogInv, FollowsRuntime
  <2> QED
    BY <1>5, <2>1, <2>2, <2>3 DEF LogInv, FollowsRuntime, EventsAreOwn
<1> QED
  BY <1>1, <1>7, <1>8

\* Without the return, the parser's stack is one too high, and misled says so.
LEMMA ReturnInv ==
    ASSUME LogInv, Return
    PROVE  LogInv'
<1> DEFINE line == Line("success", Last(running), {}, NoEvent)
<1>1. /\ Runs /\ phase = "running" /\ running # <<>>
      /\ running' = Front(running)
      /\ stopped = "no" /\ (Write(line) \/ Drop(line))
      /\ phase' = phase
  BY DEF Return, Runs, Put
<1>2. line.kind = "success" /\ line.looks = {}
  BY DEF Line
<1> HIDE DEF line
<1>3. /\ running \in Seq(Programs) /\ stack \in Seq(Entries)
      /\ Len(stack) \in Nat
  BY LenProperties DEF LogInv, LogTypeOK, Entries
<1>4. /\ running' \in Seq(Programs)
      /\ Len(running) \in Nat \ {0} /\ Len(running') \in Nat
      /\ Len(running') = Len(running) - 1
      /\ \A i \in 1..Len(running) - 1 : running'[i] = running[i]
  BY <1>1, <1>3, FrontAndLast
<1>5. lines # 0 /\ lines' \in 0..MaxLines /\ lines' # 0
  BY <1>1, FirstLine, LineCounted
<1>6. Len(running') <= MaxDepth
  <2>1. Len(running) <= MaxDepth /\ MaxDepth \in Nat
    BY LogAssumption DEF LogInv, LogTypeOK
  <2> QED
    BY <1>4, <2>1
<1>7. CASE Write(line)
  <2>1. misled' = misled /\ logged' = logged /\ truncated' = truncated
    BY <1>2, <1>7 DEF Write, Misleads
  <2>2. /\ decoded' = decoded
        /\ stack # <<>> => stack' = Front(stack) /\ stopped' = "no"
        /\ stack = <<>> => stack' = <<>> /\ stopped' = "assert"
    <3>1. ~Ignored(line)
      BY <1>2 DEF Ignored, has_prefix
    <3> QED
      BY <1>2, <1>5, <1>7, <3>1, LinePops
  <2>3. CASE stack # <<>>
    <3>1. /\ stack' \in Seq(Entries) /\ Len(stack) \in Nat \ {0}
          /\ Len(stack') = Len(stack) - 1
          /\ \A i \in 1..Len(stack) - 1 : stack'[i] = stack[i]
      BY <1>3, <2>2, <2>3, FrontAndLast
    <3>2. LogTypeOK'
      BY <1>1, <1>4, <1>5, <1>6, <2>1, <2>2, <2>3, <3>1 DEF LogInv, LogTypeOK, Entries
    <3>3. "return" \notin misled => Len(stack') >= Len(running')
      BY <1>4, <3>1 DEF LogInv, FollowsRuntime
    <3>4. "call" \notin misled => Len(stack') <= Len(running')
      BY <1>1, <1>4, <3>1 DEF LogInv, FollowsRuntime
    <3>5. ASSUME misled = {}
          PROVE  \A i \in 1..Len(running') : stack'[i] = Self <=> running'[i] = Self
      <4>1. /\ Len(stack) = Len(running)
            /\ \A i \in 1..Len(running) : stack[i] = Self <=> running[i] = Self
        BY <1>1, <3>5, KnowsWhoRuns DEF LogInv, FollowsRuntime
      <4>2. \A i \in 1..Len(running') : i \in 1..Len(running) - 1 /\ i \in 1..Len(running)
        BY <1>4
      <4> QED
        BY <1>4, <3>1, <4>1, <4>2
    <3>6. FollowsRuntime'
      BY <2>1, <2>2, <2>3, <3>3, <3>4, <3>5 DEF FollowsRuntime
    <3> QED
      BY <1>5, <2>1, <2>2, <3>2, <3>6 DEF LogInv, EventsAreOwn
  <2>4. CASE stack = <<>>
    <3>1. Len(stack) = 0 /\ stack' = stack /\ stopped' = "assert"
      BY <2>2, <2>4
    <3>2. "return" \in misled
      <4>1. ~(Len(stack) >= Len(running))
        BY <1>4, <3>1
      <4> QED
        BY <4>1 DEF LogInv, FollowsRuntime
    <3>3. LogTypeOK'
      BY <1>1, <1>4, <1>5, <1>6, <2>1, <2>2, <3>1 DEF LogInv, LogTypeOK
    <3>4. Len(stack') <= Len(running')
      BY <1>4, <3>1
    <3>5. FollowsRuntime'
      BY <2>1, <3>2, <3>4 DEF FollowsRuntime
    <3> QED
      BY <1>5, <2>1, <3>2, <3>3, <3>5 DEF LogInv, EventsAreOwn
  <2> QED
    BY <2>3, <2>4
<1>8. CASE Drop(line)
  <2>1. misled' = misled \cup {"call"} /\ truncated' = TRUE
        /\ UNCHANGED <<logged, stack, decoded, stopped>>
    BY <1>2, <1>8 DEF Drop, Conceals
  <2>2. LogTypeOK'
    BY <1>1, <1>4, <1>5, <1>6, <2>1 DEF LogInv, LogTypeOK
  <2>3. "return" \notin misled => Len(stack') >= Len(running')
    BY <1>3, <1>4, <2>1 DEF LogInv, FollowsRuntime
  <2> QED
    BY <1>1, <1>5, <2>1, <2>2, <2>3 DEF LogInv, FollowsRuntime, EventsAreOwn
<1> QED
  BY <1>1, <1>7, <1>8

\* A line that is neither call nor return.  The parser misses it, or takes it for what it
\* is, or misled says what for; then nothing more is asked of the stack on that side.
LEMMA TextInv ==
    ASSUME LogInv, NEW line, lines # 0, stopped = "no", Write(line) \/ Drop(line),
           line.kind \in {"log", "data", "other", "failed"},
           line.kind = "data" =>
               /\ line.event \in Events \cup {NoEvent}
               /\ line.program = Self => line.event # NoEvent
               /\ misled = {} => (in_own_context <=> line.program = Self),
           running' \in Seq(Programs), Len(running') <= Len(running),
           phase' \in {"running", "failing", "over"},
           phase' = "running" => phase = "running" /\ running' = running
    PROVE  LogInv'
<1>1. /\ running \in Seq(Programs) /\ stack \in Seq(Entries)
      /\ Len(running) \in Nat /\ Len(stack) \in Nat /\ Len(running') \in Nat
  BY LenProperties DEF LogInv, LogTypeOK, Entries
<1>2. lines' \in 0..MaxLines /\ lines' # 0
  BY LineCounted
<1>3. Len(running') <= MaxDepth
  <2>1. Len(running) <= MaxDepth /\ MaxDepth \in Nat
    BY LogAssumption DEF LogInv, LogTypeOK
  <2> QED
    BY <1>1, <2>1
<1>4. Len(stack) >= Len(running) => Len(stack) >= Len(running')
  BY <1>1
<1>5. CASE Drop(line)
  <2>1. misled' = misled /\ truncated' = TRUE
        /\ UNCHANGED <<logged, stack, decoded, stopped>>
    BY <1>5 DEF Drop, Conceals
  <2>2. LogTypeOK'
    BY <1>2, <1>3, <2>1 DEF LogInv, LogTypeOK
  <2>3. FollowsRuntime'
    BY <1>4, <2>1 DEF LogInv, FollowsRuntime
  <2> QED
    BY <1>2, <2>1, <2>2, <2>3 DEF LogInv, EventsAreOwn
<1>6. CASE Write(line)
  <2>1. /\ misled' = misled \cup Misleads(line) /\ truncated' = truncated
        /\ logged' = IF line.kind = "data" /\ line.program = Self
                     THEN Append(logged, line.event) ELSE logged
    BY <1>6 DEF Write
  <2>2. logged' \in Seq(Events)
    <3>1. logged \in Seq(Events)
      BY DEF LogInv, LogTypeOK
    <3>2. CASE line.kind = "data" /\ line.program = Self
      BY <2>1, <3>1, <3>2, AppendProperties
    <3> QED
      BY <2>1, <3>1, <3>2
  <2>3. misled \subseteq {"call", "return"} /\ decoded \in Seq(Events)
    BY DEF LogInv, LogTypeOK
  <2>4. CASE ~Ignored(line) /\ "invoke" \in line.looks
    <3>1. misled' = misled \cup {"call"}
      BY <2>1, <2>4 DEF Misleads, Ignored
    <3>2. stopped' = "no" /\ decoded' = decoded
          /\ \E entry \in Entries : stack' = Append(stack, entry)
      BY <1>6, <2>4, LinePushes
    <3>3. stack' \in Seq(Entries) /\ Len(stack') = Len(stack) + 1
      BY <1>1, <3>2, AppendProperties
    <3>4. LogTypeOK'
      BY <1>2, <1>3, <2>1, <2>2, <2>3, <3>1, <3>2, <3>3 DEF LogInv, LogTypeOK, Entries
    <3>5. Len(stack) >= Len(running) => Len(stack') >= Len(running')
      BY <1>1, <3>3
    <3>6. FollowsRuntime'
      BY <3>1, <3>2, <3>5 DEF LogInv, FollowsRuntime
    <3> QED
      BY <1>2, <3>1, <3>4, <3>6 DEF LogInv, EventsAreOwn
  <2>5. CASE ~Ignored(line) /\ "invoke" \notin line.looks /\ "success" \in line.looks
    <3>1. misled' = misled \cup {"return"}
      BY <2>1, <2>5 DEF Misleads, Ignored
    <3>2. /\ decoded' = decoded
          /\ stack # <<>> => stack' = Front(stack) /\ stopped' = "no"
          /\ stack = <<>> => stack' = stack /\ stopped' = "assert"
      BY <1>6, <2>5, LinePops
    <3>3. stack' \in Seq(Entries) /\ Len(stack') <= Len(stack)
      <4>1. CASE stack # <<>>
        <5>1. /\ stack' \in Seq(Entries) /\ Len(stack) \in Nat \ {0}
              /\ Len(stack') = Len(stack) - 1
          BY <1>1, <3>2, <4>1, FrontAndLast
        <5> QED
          BY <5>1
      <4>2. CASE stack = <<>>
        <5>1. stack' = stack
          BY <3>2, <4>2
        <5> QED
          BY <1>1, <5>1
      <4> QED
        BY <4>1, <4>2
    <3>4. LogTypeOK'
      BY <1>2, <1>3, <2>1, <2>2, <2>3, <3>1, <3>2, <3>3 DEF LogInv, LogTypeOK, Entries
    <3>5. Len(stack) <= Len(running) => Len(stack') <= Len(running)
      <4>1. Len(stack') \in Nat
        BY <3>3, LenProperties
      <4> QED
        BY <1>1, <3>3, <4>1
    <3>6. FollowsRuntime'
      BY <3>1, <3>5 DEF LogInv, FollowsRuntime
    <3> QED
      BY <1>2, <3>1, <3>4, <3>6 DEF LogInv, EventsAreOwn
  <2>6. CASE Ignored(line) \/ ("invoke" \notin line.looks /\ "success" \notin line.looks)
    <3>1. misled' = misled
      BY <2>1, <2>6 DEF Misleads, Ignored
    <3>2. /\ stack' = stack
          /\ stopped' = IF in_own_context /\ line.kind = "data" /\ line.event = NoEvent
                        THEN "exit" ELSE "no"
          /\ decoded' = IF in_own_context /\ line.kind = "data" /\ line.event # NoEvent
                        THEN Append(decoded, line.event) ELSE decoded
      BY <1>6, <2>6, LineQuiet
    <3>3. decoded' \in Seq(Events)
      <4>1. CASE in_own_context /\ line.kind = "data" /\ line.event # NoEvent
        BY <2>3, <3>2, <4>1, AppendProperties
      <4> QED
        BY <2>3, <3>2, <4>1
    <3>4. stopped' \in {"no", "exit"}
      BY <3>2
    <3>5. LogTypeOK'
      BY <1>2, <1>3, <2>1, <2>2, <3>1, <3>2, <3>3, <3>4 DEF LogInv, LogTypeOK
    <3>6. misled = {} => stopped' = "no"
      BY <3>2
    <3>7. FollowsRuntime'
      BY <1>4, <3>1, <3>2, <3>4, <3>6 DEF LogInv, FollowsRuntime
    <3>8. EventsAreOwn'
      BY <2>1, <3>1, <3>2 DEF LogInv, EventsAreOwn
    <3> QED
      BY <1>2, <3>5, <3>7, <3>8 DEF LogInv
  <2> QED
    BY <2>4, <2>5, <2>6
<1> QED
  BY <1>5, <1>6

\* Logs, data and reports, of any look: the event of a data line is printed if this
\* program emitted it.
LEMMA LogStepInv ==
    ASSUME LogInv, NEW looks \in Looks, NEW event \in Events \cup {NoEvent},
           Log(looks) \/ Report(looks) \/ Emit(looks, event)
    PROVE  LogInv'
<1> DEFINE p == Last(running)
<1>1. Runs /\ UNCHANGED <<running, phase>>
  BY DEF Log, Report, Emit
<1>2. lines # 0 /\ (misled = {} => (in_own_context <=> p = Self))
  BY <1>1, FirstLine, KnowsWhoRuns DEF Runs
<1>3. /\ running' \in Seq(Programs) /\ Len(running') <= Len(running)
      /\ phase' \in {"running", "failing", "over"}
      /\ phase' = "running" => phase = "running" /\ running' = running
  <2>1. running \in Seq(Programs) /\ Len(running) \in Nat
        /\ phase \in {"running", "failing", "over"}
    BY LenProperties DEF LogInv, LogTypeOK
  <2> QED
    BY <1>1, <2>1
<1>4. PICK line : /\ stopped = "no" /\ (Write(line) \/ Drop(line))
                  /\ line.kind \in {"log", "data", "other"} /\ line.program = p
                  /\ line.kind = "data" => line.event = event /\ (p = Self => event # NoEvent)
  <2>1. CASE Log(looks)
    BY <2>1 DEF Log, Put, Line
  <2>2. CASE Report(looks)
    BY <2>2 DEF Report, Put, Line
  <2>3. CASE Emit(looks, event)
    BY <2>3 DEF Emit, Put, Line
  <2> QED
    BY <2>1, <2>2, <2>3
<1> HIDE DEF p
<1> QED
  BY <1>2, <1>3, <1>4, TextInv

\* A failure is followed by no event: it does not matter that the parser misses it.
LEMMA FailInv ==
    ASSUME LogInv, Fail
    PROVE  LogInv'
<1> DEFINE line == Line("failed", Last(running), {}, NoEvent)
<1>1. /\ running # <<>> /\ running' = Front(running)
      /\ phase' \in {"failing", "over"}
      /\ stopped = "no" /\ (Write(line) \/ Drop(line))
  BY DEF Fail, Put
<1>2. lines # 0
  BY <1>1, FirstLine
<1>3. line.kind = "failed"
  BY DEF Line
<1> HIDE DEF line
<1>4. running' \in Seq(Programs) /\ Len(running') <= Len(running)
  <2>1. running \in Seq(Programs)
    BY DEF LogInv, LogTypeOK
  <2>2. /\ Front(running) \in Seq(Programs)
        /\ Len(running) \in Nat \ {0}
        /\ Len(Front(running)) = Len(running) - 1
    BY <1>1, <2>1, FrontAndLast
  <2> QED
    BY <1>1, <2>2
<1> QED
  BY <1>1, <1>2, <1>3, <1>4, TextInv

(***************************************************************************)
(* The theorems.                                                           *)
(***************************************************************************)
\* An empty log, read by a parser that believes nothing.
LEMMA InitLogInv == LogInit => LogInv
<1> SUFFICES ASSUME LogInit PROVE LogInv
  OBVIOUS
<1>1. /\ <<>> \in Seq(Programs) /\ <<>> \in Seq(Events) /\ <<>> \in Seq(Programs \cup {"cpi"})
      /\ Len(<<>>) = 0
  OBVIOUS
<1>2. 0 <= MaxDepth /\ 0 \in 0..MaxLines
  BY LogAssumption
<1>3. LogTypeOK
  BY <1>1, <1>2 DEF LogInit, LogTypeOK
<1>4. FollowsRuntime
  BY <1>1 DEF LogInit, FollowsRuntime
<1> QED
  BY <1>3, <1>4 DEF LogInit, LogInv, EventsAreOwn

LEMMA StepLogInv ==
    ASSUME LogInv, [LogNext]_log_vars
    PROVE  LogInv'
<1>1. ASSUME NEW p \in Programs, Invoke(p) PROVE LogInv'
  BY <1>1, InvokeInv
<1>2. CASE Return
  BY <1>2, ReturnInv
<1>3. ASSUME NEW looks \in Looks, Log(looks) \/ Report(looks) PROVE LogInv'
  BY <1>3, LogStepInv
<1>4. ASSUME NEW looks \in Looks, NEW event \in Events \cup {NoEvent}, Emit(looks, event)
      PROVE  LogInv'
  BY <1>4, LogStepInv
<1>5. CASE Fail
  BY <1>5, FailInv
<1>6. CASE UNCHANGED log_vars
  BY <1>6 DEF log_vars, LogInv, LogTypeOK, FollowsRuntime, EventsAreOwn
<1> QED
  BY <1>1, <1>2, <1>3, <1>4, <1>5, <1>6 DEF LogNext

\* In logs of any texts and with any lines dropped, the parser's stack is too low, and an
\* assert! fails, only after a text was taken for a return or a call was dropped, too high
\* only in the converse case, and right at every depth after neither.
THEOREM ParserAlwaysFollows == LogSpec => []FollowsRuntime
<1>1. LogInv /\ [LogNext]_log_vars => LogInv'
  BY StepLogInv
<1>2. LogInv => FollowsRuntime
  BY DEF LogInv
<1> QED
  BY InitLogInv, <1>1, <1>2, PTL DEF LogSpec

\* Until it is misled, the events it prints are those of this program in the log, in
\* their order.
THEOREM EventsAlwaysOwn == LogSpec => []EventsAreOwn
<1>1. LogInv /\ [LogNext]_log_vars => LogInv'
  BY StepLogInv
<1>2. LogInv => EventsAreOwn
  BY DEF LogInv
<1> QED
  BY InitLogInv, <1>1, <1>2, PTL DEF LogSpec

\* Stacks, events and phases keep their types.
THEOREM LogTyped == LogSpec => []LogTypeOK
<1>1. LogInv /\ [LogNext]_log_vars => LogInv'
  BY StepLogInv
<1>2. LogInv => LogTypeOK
  BY DEF LogInv
<1> QED
  BY InitLogInv, <1>1, <1>2, PTL DEF LogSpec
=============================================================================
