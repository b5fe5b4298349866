# Verification of the constant-product AMM (programs/cp-swap and client)

This directory specifies the on-chain program `programs/cp-swap` and its command line client
`client` in TLA+, checks the specification with TLC and proves its central properties with TLAPS.
The reference is the code; every definition that models code is mapped to its lines in `PROJECT.json`.

## 1. The system

An admin creates fee configurations (`AmmConfig`). Anyone creates a pool for two mints
under a configuration. A pool owns two vaults and an LP mint. Users deposit both tokens
for LP tokens, withdraw them, and swap one token for the other. Of each swap a trading fee
is kept in the input vault; a part of it is owed to the protocol and a part to the fund,
and collected later from the same vault. Each swap offers the price to an oracle account.
Mints may be token-2022 mints that charge a fee on every transfer.

| component | state | operations | what makes it correct |
|---|---|---|---|
| curve and fee arithmetic (`curve/`, `utils/math.rs`) | none | quote a swap from either end, split a fee, value LP tokens | rounding always favours the pool, and by less than one token |
| transfer fees (`utils/token.rs`) | none (reads the mint and the clock's epoch) | fee of an amount, fee to add so that an amount arrives | the grossed-up amount credits exactly what was asked |
| `AmmConfig` (`states/config.rs`, `admin/create_config.rs`, `admin/update_config.rs`) | three rates, creation fee, a switch, two owners | create; update by `param` 0 to 6 | rates that fit together in every order of updates, owners that can collect |
| pool (`states/pool.rs`, `instructions/*`) | vault balances, fees owed per side, `lp_supply`, the mint's supply, status bits, times | initialize, deposit, withdraw, two swaps, two collections, status | solvency; LP tokens backed and never diluted |
| oracle (`states/oracle.rs`) | ring of 100 cumulative prices | `update`, from both swaps | the ring holds the latest observations and exact sums modulo 2^128 |
| account creation (`initialize.rs`, `utils/token.rs`, `utils/account_load.rs`) | which addresses hold accounts | create pool, vaults | creation succeeds once, whatever is at the address |
| supported mints (`utils/token.rs`) | whitelists | `is_supported_mint` | only mints that keep transfers predictable |
| account constraints (`derive(Accounts)`) | keys stored in accounts | checked before each handler | no account of another pool is used |
| client (`client/src/main.rs`, `instructions/{amm_instructions,utils,rpc}.rs`) | what it read of the accounts, its transaction | find, fetch, quote, limit, send, confirm, for five commands | a consistent snapshot, limits that the program's result respects, an end |
| client log parser (`events_instructions_parse.rs`) | a stack of running programs | one line of a log | it prints the events of this program and no others |

**Interactions.** All accounts are shared state. An instruction reads the accounts it
names, calls the token program, and writes them. The chain serialises instructions that write
the same account and undoes a failed one completely, so inside the program there is no
interleaving; everything hard lies in the *order of whole instructions* of different users,
in what happens to the accounts *outside* the program (LP tokens burnt by their holders,
tokens sent to a vault, fees of a mint that change with the epoch), and in rounding. Nothing
has to happen eventually: users drive everything. Pools meet in one place only: the same
program address signs for all vaults and LP mints, and only the account constraints tell them apart.

The client is where steps interleave. A command is a chain of remote calls, and between any two
of them others swap, join, leave and collect, and the epoch ends. Calls fail; the transaction may
land late, or never, or after the client stopped waiting. What protects the user is the limit in
the transaction, which is as good as the client's copy of the program's arithmetic.

The hazards, each at its line and with the properties that cover it, are listed in
`PROJECT.json`.

## 2. The modules

| module | models |
|---|---|
| `CurveMath` | `curve/fees.rs`, `curve/constant_product.rs`, `curve/calculator.rs`, `utils/math.rs` as operators |
| `TransferFee` | the two fee helpers of `utils/token.rs`, and (external) the token program's arithmetic |
| `ObservationRing` | `states/oracle.rs`: the account and `update` |
| `AmmConfig` | the config account with `create_amm_config` and `update_amm_config` |
| `Pool` | one pool; EXTENDS the four above; one action per instruction |
| `PoolLedger` | abstract: what a pool promises to LP holders, protocol and fund |
| `Oracle` | the ring alone under any swaps, next to a log of everything offered |
| `CurveCases` | the rates an `AmmConfig` reaches, and the pure operators for every input of a range |
| `Registry` | configs and pools as accounts at addresses: who may create what where, rent, the creation fee |
| `MintSupport` | which mints `initialize` accepts, over the extensions a mint gets in its life |
| `Accounts` | several pools under one authority; a caller passes any accounts that the constraints accept; each pool is an instance of `PoolLedger` |
| `Client` | one command of the client next to a live pool; EXTENDS `Pool`, whose steps are what others do |
| `LogParser` | the parser of transaction logs, fed by a runtime that writes one line a step |
| `MCPool`, `MCCurveCases`, `MCRegistry`, `MCAccounts`, `MCClient`, `MCLogParser` | instances for TLC |
| `CurveProofs` | lemmas on division, the curve's two formulas, fees, the inverse fee |
| `CurveCasesProofs`, `AmmConfigProofs` | theorems about the arithmetic at the rates a config reaches, and about the rates |
| `OracleProofs` | theorems about the ring and its sums |
| `PoolProofs` | theorems about the accounts of a pool, its oracle, the value of its LP tokens |
| `AccountsProofs`, `RegistryProofs` | theorems about pools next to each other; about addresses and creation, and the mints accepted |
| `ClientProofs` | theorems about the client: a command next to a live pool, the parser of logs |

### How state and actions correspond to the code

* A `require!`, an error, a checked operation that fails or a panic undoes the instruction:
  it is a guard. A checked operation that can fail only for more tokens than exist has no guard
  (`u64` sums of balances, `u128` products of two `u64`).
* Token_0 and token_1 are `Side = {0, 1}` and the two halves of each account are functions on
  it; the code's `token_0`/`token_1` copies of a statement become one quantified statement.
  A swap takes the side of its input; the handlers' `else InvalidVault` admits no other.
* `status` is the set of bits that are set (`PoolStatusBitIndex`), each disabling an operation.
* `TokenSupply[s] - vault[s]` is what users hold. Who holds it does not matter to the pool.
* `lp_supply` (PoolState) and `lp_mint_supply` (the mint) are kept apart, as in the code:
  the locked 100 LP tokens of the first deposit are counted and never minted, and a holder may
  burn tokens without the pool being told.
* The recipient of a transfer out of a vault may be that vault itself (no constraint excludes
  it); the transfer is then a no-op. `outside` is the set of sides whose recipient is another
  account.
* `FinishSwap` is the common end of both swap handlers; the price given to the oracle is that
  before the swap, as in the code.
* In `Pool`, the mutable account of a mint is its transfer fee configuration: an older fee, a
  newer one and the epoch it starts at. The program reads the fee of the current epoch, the
  token program charges it.
* `OBSERVATION_NUM`, the rate denominator, the fee basis points, `2^32` and `2^128` are constants,
  so that the theorems hold for the real values and TLC can use small ones. `TransferFeeType` and
  the token-program operators stand for code outside the repository and are marked external
  in the map, like `BurnLp`, `SendToVault` and `Tick`.
* In `Registry` an address derived from seeds is the tuple of the seeds, so that derived addresses
  never collide and nobody holds a key to one. An account is its lamports, its owner and its data;
  a size in bytes is a rent per kind of data. `initialize` creates six accounts (three by anchor's
  `init` and the associated token program, two vaults, the pool): all by the rule of
  `create_or_allocate_account`, which anchor's own code follows too. The instruction is atomic, so the
  order of the six does not matter. A creator who passes its own signing account as the pool
  fails, because that account is borrowed as the pool when the creator's tokens are to move.
  `WrapSol` and `SendLamports` are what others do with the system and token programs.
* In `MintSupport`, discriminants are those of `spl_token_2022`; the whitelist is a flag of the mint.
* In `Accounts` a constraint is an operator that gives the accounts it accepts (`vaults_of`,
  `lp_mint_of`, `config_of`, ...), and an account without one is any account. Where a caller chooses,
  the action quantifies over that set; the token program's own checks are `transfer_accepts`. An LP
  mint and an oracle are named by the pool they were created for. Transfer fees, times and limits
  are left to `Pool`; `swap_vault_of` and `swap_pair` are the constraint and the handler's check
  that together tie the vaults of a swap.
* In `Client` a step of `main` is one remote call: `FindPool`, `FetchAccounts`, `GetEpoch`,
  `SendTxn`, `Confirm` (`FetchMints` stands for the reads of `InitializePool`). `seen` is what the
  quote is computed from. `Land` executes the transaction as the action of `Pool` it names, with the
  limit the client put in; it is rejected exactly when that action is not enabled. `CallFails`
  may end the command at any call, also while its transaction is under way.
  `amount_with_slippage` multiplies in `f64` and rounds: where the exact product is an integer
  the float may lie on either side, so that the operator gives the set of both results.
  `mints_inverse_fee` and `mints_transfer_fee` pass epoch and amount in the order the code does.
  `AccountsCreated`: the client creates the receiving account under the classic token program
  whatever the mint, so that a transaction receiving a token-2022 token fails before its instruction.
  `Accepts(limit)` asks whether the action with that limit is enabled.
* In `LogParser` the runtime is external. A line is its kind, the program it names, what its text
  looks like to the two regular expressions of `handle_system_log`, and the event. Any program logs any
  text and returns any data, and other programs emit any data; this program emits its events and returns
  no data. The runtime drops a line that does not fit in what is left of the log, but goes on with shorter ones
  (`Drop`); the first line always fits. `stack` is `Execution`; a failed `assert!`, or data too short for an event,
  sets `stopped` and ends the behaviour. `misled` is a history variable that nothing depends on: `"call"` when a
  text was taken for a call or a return is missing from the log, `"return"` when a text was taken for a return or
  a call is missing. `logged` is what this program emitted and the log kept.
* Operators commented `MUTANT of ...` are wrong variants of the definition that follows them.
  No specification uses them; they are there to test that a property notices the bug
  (`PROJECT.json`, `mutants`).

## 3. What is checked

| run | question | result |
|---|---|---|
| `pool` | all instructions in any order, with a mint whose fee changes, status changes, limits, an opening time, two keys | `AccountInv` (with `TypeOK`), `Solvent`, `LpSupplyBacked`, `LpSupplyCoversMint`, `ObservationsInOpenTime`, `ShareValueNeverFalls`, `DepositCreditsExactShare`, `KeepsLedger` hold |
| `oracle` | the ring against the log | `TypeOK`, `RingHoldsLatest`, `AverageWithinPrices` hold |
| `parameters` | what a pool may be given: rates after any order of config updates, with the arithmetic at those rates against reference definitions; mints, at creation and with what they get later | `RatesStayAllowed`, `FeesHaveOwners`, `ConstantNeverFalls`, `FeesWithinAmount`, `OutputPricedExactly`, `SharesRoundedForPool`, `InverseFeeExact`, `VaultsOutOfReach` hold |
| `registry` | configs and pools created at derived addresses and at signing keys, lamports sent ahead | `TypeOK`, `CreationNeverBlocked`, `PoolsOwnTheirAccounts`, `SeedsFindTheirPool`, `FeesArriveWrapped` hold |
| `fee_receiver` | `transfer-hook-whitelist-changes.md` says the creation fee goes to a SOL token account | violated: the address is the admin's wallet, and a config with a fee creates no pool |
| `transfer_hook_mints` | `token.rs:196` says mints with a transfer hook are always accepted | violated: the constant 10 is `InterestBearingConfig`; `TransferHook` is 14 |
| `accounts` | two pools, one trading the other's LP tokens, and callers that pass any accounts | `TypeOK`, `LpTokensCounted`, `OnlyOnePool`, `OnlyOwnersCollect`, `EachPoolKeepsLedger` hold |
| `client_swaps` | swaps and a withdrawal through the client, under a transfer fee that changes, calls that fail, trades of others | `ClientTypeOK`, `SeenIsConsistent`, `QuoteHonoured`, `ExecutedWithinSlippage`, `CommandSettles` hold |
| `client_lp` | pools created, joined and left through the client with a slippage of a quarter | `QuoteHonoured`, `ExecutedWithinSlippage`, `AmountsFollowMints` hold |
| `deposit_limit` | `main.rs:259` says the maxima of a deposit are computed with the transfer fee | violated: epoch and amount are passed in the wrong order, and the maximum leaves no room for the fee |
| `log_parser` | the parser next to nested calls, several instructions, failures, texts of any look and lines dropped from a full log | `LogTypeOK`, `FollowsRuntime`, `EventsAreOwn` hold |
| `log_texts` | `events_instructions_parse.rs:103` asserts that there is a program to pop | violated: a text that ends in ` success` empties the parser's stack, and the next return panics |

Two more disagreements were met and have no run of their own:

* `lib.rs:91` says of `update_amm_config` that `param` is 0 to 4; `update_config.rs:31-32` accepts 5
  (creation fee) and 6 (switch for new pools). `update_amm_config` of `AmmConfig` has all seven.
* `utils/math.rs:21` says that `checked_ceil_div` fails instead of returning 1 for a quotient below
  one; from one half on it returns 1, below it returns 0. `checked_ceil_div` of `CurveMath` does so.

What the main properties say:

* `Solvent`: `protocol_fees + fund_fees <= vault` per side. If it ever failed, the `unwrap` in
  `vault_amount_without_fee` would panic in every deposit, withdrawal and swap.
* `LpSupplyBacked`: `lp_supply^2 <= r0 * r1` for the reserves `r` beyond the fees owed. It is why
  the unchecked divisions by the reserves and by `lp_supply` cannot fail.
* `ShareValueNeverFalls`: `r0 * r1 / lp_supply^2` never falls, in any step.
* `KeepsLedger`: `Pool` implements `PoolLedger` with `shares <- lp_supply` and
  `reserve <- vault_amount_without_fee`. This is stronger per token: a deposit or a withdrawal
  dilutes nobody in *either* token, a trade lets only fees of its input token grow, a collection
  takes nothing from the holders or from the other collector.
* `OutputPricedExactly`: the cost of a base-output swap is the least input for which a base-input
  swap pays as much. Both roundings (of the curve and of the gross amount) are exact.
* `RingHoldsLatest`: the ring is the tail of the log, in order, with the true sums modulo the
  width of the field. `AverageWithinPrices`: what a reader computes from two observations, by
  modular subtraction, lies between the lowest and the highest price.
* `CreationNeverBlocked`: whoever can pay can create the pool of a pair at its derived address,
  whatever lamports lie at the addresses of its accounts and whatever pools of the pair exist
  elsewhere. That the fee receiver accepts the fee is left to `fee_receiver`: `CanInitialize` leaves out the
  check of `sync_native`. `FeesArriveWrapped` is about pools created for a fee, which in the run happens once `WrapSol`
  has made the receiver the SOL token account of the documents; a receiver that is a plain wallet, as the address in
  `lib.rs` is, accepts no fee.
* `PoolsOwnTheirAccounts`, `SeedsFindTheirPool`: what a pool names is its own, and what lies at a
  derived address is the pool of those seeds.

* `OnlyOnePool`: whatever accounts are passed, there is one pool such that no other loses tokens,
  LP tokens or bookings. `OnlyOwnersCollect`: what a pool owes falls only for the owner named in
  *its* config. `EachPoolKeepsLedger`: each pool refines `PoolLedger` while it is traded in.
* `SeenIsConsistent`: the quote is computed from a state the pool was in; the two reads (one to learn
  the addresses, one of everything) are what makes it so.
* `QuoteHonoured`: a transaction is rejected for its limit only if what the client read has changed
  since: the client's arithmetic, the roundings and the direction of each fee are the program's. It is not
  true of a withdrawal with a slippage of zero: the client expects the share rounded up (`main.rs:344`), the
  program pays it rounded down, and a pool in which nothing moved refuses a share that is not whole. The
  withdrawals of `client_lp` have slippage. In `client_swaps`, where token_0 is a token-2022 mint, no swap
  into token_0 and no withdrawal lands (`AccountsCreated`); swaps into token_1 do, and withdrawals do in `client_lp`. A deposit is excepted as in `ExecutedWithinSlippage`.
* `ExecutedWithinSlippage`: if it executes, the user pays or receives the quote within the slippage
  and one token of rounding, transfer fees included, whatever happened in between. It is not true of
  a deposit of mints that charge a fee: its quote leaves the fee out, and its limit adds the fee of an amount as large
  as the epoch (`get_pool_mints_inverse_fee`, finding `deposit_limit`), so that what it pays may exceed both.
  The runs' deposits are of mints without a fee; a withdrawal of such mints, whose limit has the same flaw,
  never executes through the client (`AccountsCreated`).
* `FollowsRuntime`: the parser sees text only. Its stack is too low, and its assertion fails, only after a return
  too many or a call too few; it is too high only in the converse case; and as long as it was not misled it knows the
  depth of the calls and where in them this program runs. `EventsAreOwn`: as long as it was not misled, it prints
  exactly the events of this program in the log, in order, also of a transaction that fails. The code has no
  defence against being misled: in `log_texts` the parser panics. A log that is merely cut does it too (`Drop`): after
  a call that is not in it, two returns pop the one entry.

### Bounds

Rates are tenths instead of millionths, so that amounts of a few tokens meet every rounding
case: remainders zero and not, quotients below one half, between one half and one, and above.

* `pool`: 6 and 4 tokens exist, LP amounts 1 to 3, one locked LP token. Users may spend everything
  they have, so all swap sizes, total withdrawals and donations occur. Token_0 charges a third capped
  at two tokens, and from epoch 1 on 100% up to one token, so that both branches of
  `get_transfer_inverse_fee` and the change between them occur. The trading fee changes between 0 and
  a half, the protocol's part likewise; the fund has a half. Collections ask for one
  token or all. Limits are tight or lax, the opening time is now or later.
* `oracle`: 3 slots, sums modulo 16, prices 1 and 2, 10 seconds, at most every 2 seconds: up to
  5 observations, so index and sums both wrap. Longer logs repeat the same situations.
* `parameters`: reserves and supplies to 7, amounts to 12; trading rates 0, 0.1, 0.3, 0.4, 0.6 and 0.9,
  shares of protocol and fund that are allowed alone but not together, rates above the denominator,
  a `param` that does not exist, the default key. Transfer fees in elevenths including 0 and 100%,
  maxima below, among and above amounts up to 60. Four extensions per mint: acceptance
  looks at one extension at a time, and the combinations Token-2022 excludes have three. A behaviour is of a config
  and one operation, or of one mint, since `MintSupport` and `CurveCases` ask nothing of each other.
* `registry`: two configs and one pair of mints, so that pools compete for addresses with other
  configs' and with pools at keys; a creator who can pay two pools and their fees; a donor
  with one donation above the rent of an account or two that add up to it, sent to any account
  of one pool, a vault of another, a config or the fee receiver.
* `accounts`: every vault holds 4 or 2 tokens and the user as many as one swap and one deposit need;
  swaps of 3 tokens with fees for both collectors, LP amounts of 1. The second pool's token_1 is the
  first's LP token, and both trade the same mint, so that for every place a wrong account of the
  right mint exists. Three keys: a user, the fee owner of one config, the admin, who owns the other's fees.
* `client_swaps`: 10 and 6 tokens, base-input swaps in both directions, base-output swaps of a small and a large
  amount, and one withdrawal, no slippage,
  so that every change shows; an epoch ends and changes the fee of token_0. `client_lp`: 4 and 9 tokens,
  a slippage of a quarter, so that products with and without remainders occur.
* `log_parser`, `log_texts`: logs of up to 9 lines, and any number of dropped ones, calls three deep, two other
  programs, two events: a call of this program through another one with a call and an event in it has 7, two
  instructions of which one calls have 6 and leave room for texts.

`CHECK_DEADLOCK FALSE` is set where the clock or money is bounded or a case is picked once: nobody has to
use the pool.

**Fairness.** The program promises no progress: every instruction is a user's choice, and no run
assumes that one happens. Only `Client` states fairness, for `CommandSettles`: weak fairness of
`ClientStep`, because `main` is one thread that goes on until it returns, and every call of it answers
or fails (a failure is `CallFails`, which need not happen); and of `Expire`, because a transaction's
blockhash is valid for 150 blocks and blocks are produced. Nothing is assumed of `Land`, of `CallFails` or
of what others do.

## 4. What is proved

Every theorem holds for every value of the constants that satisfies the named assumptions: the
denominators of rates and basis points (`FeeDenominatorAssumption`, `BasisPointsAssumption`), the
constants of a module (`AmmConfigAssumption`, `ObservationAssumption`, `PoolAssumption`,
`CurveCasesAssumption`, `OracleAssumption`, `RegistryAssumption`, `ClientAssumption`, `LogAssumption`), and for pools next
to each other `AccountsAssumption`, `RatesAssumption`, `OwnAccountsAssumption`. They say that the
constants are of the type the program gives them, that denominators are not zero, that the locked LP
amount is positive, that rents are, that a mint's basis points do not exceed 100%, and that a mint of the
classic token program has no fee. `RatesAssumption` and `OwnAccountsAssumption` repeat what other modules
establish: rates are allowed (`RatesAlwaysAllowed`), and the accounts a pool names are its own
(`PoolsAlwaysOwnTheirAccounts`). Amounts are unbounded naturals, so no theorem depends on a width. No bound
of a run is used.

One hypothesis is the theorems' own, `NoFeeOnDeposits`: if anybody deposits through the client, the mints charge no
fee (without it the limit is wrong, section 3).

| theorem | states |
|---|---|
| `RatesAlwaysAllowed`, `FeesAlwaysHaveOwners` | `RatesStayAllowed`, `FeesHaveOwners`, for every order of updates |
| `ConstantNeverFallsAlways`, `FeesAlwaysWithinAmount`, `OutputAlwaysPricedExactly`, `SharesAlwaysRoundedForPool`, `InverseFeeAlwaysExact` | `ConstantNeverFalls`, `FeesWithinAmount`, `OutputPricedExactly`, `SharesRoundedForPool`, `InverseFeeExact`: the arithmetic, for all amounts, reserves, rates and fees |
| `OracleTyped`, `RingAlwaysHoldsLatest`, `AverageAlwaysWithinPrices` | `TypeOK`, `RingHoldsLatest`, `AverageWithinPrices` of `Oracle`, for every size, interval and width |
| `AccountInvAlways` | the inductive invariant `AccountInv` of a pool |
| `TypeCorrect`, `AlwaysSolvent`, `SupplyCoversMint` | `TypeOK`, `Solvent`, `LpSupplyCoversMint` |
| `OracleInOpenTime` | `ObservationsInOpenTime` |
| `ImplementsLedger` | `KeepsLedger`: a pool refines `PoolLedger` |
| `ShareValueAlwaysKept` | `ShareValueNeverFalls` |
| `AlwaysBacked` | `LpSupplyBacked` |
| `DepositsCreditExactly` | `DepositCreditsExactShare` |
| `AccountsTyped`, `LpTokensAlwaysCounted` | `TypeOK`, `LpTokensCounted` of `Accounts` |
| `PoolsStayApart` | `OnlyOnePool`, for any number of pools and any accounts passed |
| `OnlyOwnersEverCollect` | `OnlyOwnersCollect` |
| `EachPoolAlwaysKeepsLedger` | `EachPoolKeepsLedger`: every pool refines `PoolLedger`, whichever accounts are passed |
| `AccountsTyped` of `RegistryProofs` | `TypeOK` of `Registry` |
| `PoolsAlwaysOwnTheirAccounts`, `SeedsAlwaysFindTheirPool` | `PoolsOwnTheirAccounts`, `SeedsFindTheirPool`, for any number of configs, mints and keys |
| `CreationIsNeverBlocked`, `FeesAlwaysArriveWrapped` | `CreationNeverBlocked`, `FeesArriveWrapped`, for any lamports sent ahead, rents and fees |
| `VaultsAlwaysOutOfReach` | `VaultsOutOfReach`, for mints with any number of extensions |
| `ClientTyped`, `SnapshotAlwaysConsistent` | `ClientTypeOK`, `SeenIsConsistent`, whatever others do between two calls |
| `AmountsAlwaysFollow` | `AmountsFollowMints` |
| `SlippageAlwaysKept` | `ExecutedWithinSlippage`, under `NoFeeOnDeposits` |
| `QuoteAlwaysSent` | `TxnIsQuoted`: a pending transaction carries the quote of what was seen, and a limit made of it |
| `UnchangedPoolAccepts` | a pool that is what the client saw, and executes its instruction without a limit, executes it with the limit (the part of `QuoteHonoured` without `ENABLED`), under `NoFeeOnDeposits` and for a withdrawal with some slippage |
| `LogTyped`, `ParserAlwaysFollows`, `EventsAlwaysOwn` | `LogTypeOK`, `FollowsRuntime`, `EventsAreOwn`, for logs of every length and depth, any texts and any lines dropped |

**The arithmetic** is a chain of lemmas in `CurveProofs`. An exact output is priced by two roundings: the curve's
(`PriceOfOutput`: what it asks is the least input that buys the output) and the gross amount's
(`PreFeeExact`: the least amount of which the price is left after the trading fee, itself rounded up);
`OutputSwapPricedExactly` composes them. The inverse of a mint's fee (`InverseFeeIsLeast`) is the same argument
with a maximum: below it the fee is proportional and `GrossedUp` applies, above it the fee is constant, and where the
two meet both are right. `PickedInv` of `CurveCasesProofs` carries the rates of the config (`AmmConfigProofs`) to the case picked.

**Solvency** is not inductive alone. A swap books two parts of the trading fee; that they are
within what the vault was credited needs that the two rates share out no more than the whole
(`RatesStayAllowed`, an invariant of the config, proved in `AmmConfigProofs`) and that both parts
are rounded down (`FeeSplitAtMost`). A new pool must start without debts
(`NothingBeforeCreation`), and `lp_supply` must not be zero where the code divides by it
(`LpSupplyCoversMint`, since the locked amount is positive). Together these are `AccountInv`;
each action has a lemma. The two swaps share one: `SwapBaseInputIsCurveSwap` and
`SwapBaseOutputIsCurveSwap` reduce them to `CurveSwap`, which says that the vault is credited with
exactly what the curve took as source and that at most the reserve leaves. For the base-output swap
that is `InverseFeeCredited`: the recomputation check in `get_transfer_inverse_fee` is what makes
the credit exact, for every fee, maximum and amount.

**The value of an LP token** follows by way of the ledger. `LedgerStep` shows that every step of a
pool is a transaction of `PoolLedger` or a stutter: `initialize` opens, `deposit` joins
and `withdraw` leaves without diluting either token (`CeilingShare`, `FloorShare`; the zero check
of `deposit` is needed, because the code does not round up a share below one), a collection pays,
`SendToVault` gives. A swap does dilute its output token; that it is a trade
(`CurveSwapTrades`) rests on the comparison of the constants at the end of both handlers, on the
fees booked being part of the trading fee, and on the transfer fee of the output token not
lowering what leaves the vault. `ShareValueStep` and `BackedStep` then argue about the ledger's
transactions only, and the theorems combine them with `AccountInvAlways`.

**The oracle of a pool** needs `OracleInv`: besides `ObservationsInOpenTime`, that an oracle which was written
belongs to a created pool, since `initialize` sets `open_time`. `UpdateNewest` reduces `update` to what it
does to the newest observation; only swaps call it, after comparing the time.

**Pools stay apart** by one lemma per instruction (`DepositApart` to `StatusApart`): it keeps
`Inv == TypeOK /\ LpTokensCounted` and leaves every other pool `Untouched`. The constraints reduce the
accounts that were passed to those the pool names (`AcceptedAccounts`); those are distinct from all
other vaults (`VaultsApart`) and from any account a key signs for (`VaultNotUsers`), and a transfer
lowers no account but its source (`TransferType`, `TwoTransfers`). `TypeOK` is not inductive without
`LpTokensCounted`: a withdrawal subtracts from the mint's supply and from `lp_supply`.

At the same time each lemma says which transaction of `PoolLedger` the instruction is to its own pool, and
that it is a gift, or nothing, to every other (tokens of an LP mint may be those another pool
trades). That is `EachPoolKeepsLedger`.

**The ring.** `OracleInv` of `OracleProofs` is `TypeOK`, `RingHoldsLatest`, `LogInOrder` (times in the log grow up to the
clock) and `SumsGrowByPrices` (of two successive entries of the log the true sums differ by a price times the time between them).
A write moves the ring's oldest slot to the front of the log's tail; the average is then a statement about the log alone, where the
subtraction modulo the width gives the true difference back.

**Addresses.** `RegistryInv` says which data may be found at which address (`AccountsFit`), that a pool has all its accounts
(`PoolsComplete`) and that none of them exists before it (`NothingBeforePool`). Two pools then share nothing because addresses derived from
different seeds differ; creation is possible because whatever was sent to an address left it with the system program.
`MintInv` says that a mint with a pool was accepted with all it had, and got later only what tells nothing about its transfers.

**A command** runs next to the pool, so `ClientInv` contains the pool's own invariants. Amounts of a client's transaction are not those
the runs enumerate: the lemmas of `PoolProofs` are therefore about `AnyStep`, an instruction with any natural amounts, of which both
`Next` of `Pool` and a landed transaction are instances (`NextIsAnyStep`, `ExecutesIsAnyStep`). `AccountInv` and `LpSupplyBacked`
make every moment one to quote from (`PoolIsConsistent`), which the second read keeps and the first alone would not. A quote
is a number of tokens (`QuoteType`), a limit keeps to it in whichever direction the float was rounded (`SlippageKeepsToQuote`),
and what an executed instruction moves keeps to the limit (`ExecutesKeepsLimit`: `DepositPays`, `WithdrawReceives`,
`SwapInReceives`, `SwapOutPays`). A deposit or a withdrawal needs that `mints_inverse_fee` and `mints_transfer_fee` are zero: for
a withdrawal it follows from `AccountsCreated`, for a deposit it is `NoFeeOnDeposits`.

That the client computes what the program computes is `UnchangedPoolAccepts`, about any step of the pool that executes the
instruction without a limit. The quote is a function of what was seen (`QuoteUnchanged`), what was seen is what there is
(`SeenIsThere`), a limit is on the lax side of the quote (`SlippageIsLax`), so the guard on the limit holds and it is the only conjunct
of the instruction that mentions it (`DepositAccepted` to `SwapOutAccepted`). With `QuoteAlwaysSent` for its hypothesis, it is what
`QuoteHonoured` asks: that `ENABLED` of the one action implies `ENABLED` of the other is the step left to TLC.

**The parser.** `LogInv` is `FollowsRuntime` and `EventsAreOwn` with the types and that before the first line nothing runs.
The argument is one of counting. A line does one of three things to the parser's stack (`LinePushes`, `LinePops`, `LineQuiet`),
and a step of the runtime does one of three to its own; where they differ by one, `misled` names the side, and
`FollowsRuntime` asks nothing more of it. That is why each side is a conjunct of its own: `Len(stack) >= Len(running)`
alone is what keeps a return from failing the assertion (`ReturnInv`), and only with both are the positions, and so
the owner of a data line (`KnowsWhoRuns`), known.

Out of the prover's reach and left to TLC: `ENABLED`, in `Accepts` of `Client`, and so the rejections `QuoteHonoured` is
about; and liveness under fairness (`CommandSettles`).

## 5. What is not modelled, and the plan

Only model-checked: `QuoteHonoured`, `CommandSettles` (both for the reasons above), and the four properties of the runs
that expect a violation. Every other property of the runs is a theorem.

Not modelled:

* events and error codes (no state depends on them), and how the client decodes and displays instructions,
  events and accounts (`parse_program_instruction`, `decode_event`, the `Decode*` commands): formatting
  without state;
* `index`, bumps, seeds, decimals and padding (never used in a decision of the modelled handlers);
* helpers of `token_instructions.rs` and `rpc.rs` that no command calls;
* the byte layout of accounts (`account_load.rs` beyond what decides whether a load succeeds): the data
  of an account is the record it decodes to;
* a mint's freeze authority and the default state of its accounts, which can block a vault and which no code of the
  program asks for;
* tests and scripts, which were read as documentation.

The plan, in order of importance:

1. `Runtime`: an instruction as a sequence of CPI steps with rollback, refining the atomic
   actions of `Pool`.
2. A run of `Pool` at the edge of its integer widths.
