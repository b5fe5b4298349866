------------------------------- MODULE Client -------------------------------
(***************************************************************************)
(* The command line client (client/src/main.rs, instructions/utils.rs,     *)
(* instructions/rpc.rs): one run of one command against a pool that        *)
(* everybody else keeps using.                                             *)
(*                                                                         *)
(* A command reads the pool twice, takes a quote from what it read, turns  *)
(* it into a slippage limit, signs a transaction and waits for it.  Every  *)
(* step is a remote call; the pool, the rates, the fee epoch move between  *)
(* any two of them (Next of Pool), a call may fail, and the transaction    *)
(* lands late, once, or never.                                             *)
(*                                                                         *)
(* A transaction lands as one action of Pool with the limits the client    *)
(* put in.  The slippage of client_config.ini is SLIPPAGE parts of         *)
(* SLIPPAGE_UNIT; the client's f64 arithmetic is exact for amounts this    *)
(* small except where amount_with_slippage says so.                        *)
(***************************************************************************)
EXTENDS Pool

CONSTANTS
    Commands,                  \* what the user may type
    SLIPPAGE, SLIPPAGE_UNIT,   \* 1 and 100 in client_config.ini
    Token2022                  \* the sides whose mint is a token-2022 mint

CommandType ==
    [ kind: {"InitializePool", "Deposit", "Withdraw", "SwapBaseIn", "SwapBaseOut"},
      input: Side,             \* side of user_input_token; of mint0 when creating
      amount: [Side -> Nat] ]  \* amount[0] alone but for InitializePool

ASSUME ClientAssumption ==
    /\ Commands \subseteq CommandType
    /\ SLIPPAGE_UNIT \in Nat \ {0}
    /\ SLIPPAGE \in 0..SLIPPAGE_UNIT
    /\ Token2022 \subseteq Side
    /\ \A s \in Side \ Token2022 : MintFees[s].older = NoFee /\ MintFees[s].newer = NoFee

VARIABLES
    command,
    stage,                     \* how far main got
    outcome,                   \* how it ended: "signature", "error", "panic"
    seen,                      \* the accounts as the client last read them
    txn                        \* its transaction

client_vars == <<command, stage, outcome, seen, txn>>
all_vars    == <<vars, client_vars>>

\* PoolState, the two vaults and the AmmConfig; the epoch is asked for apart.
View ==
    [ vault |-> vault, owed |-> [s \in Side |-> protocol_fees[s] + fund_fees[s]],
      lp_supply |-> lp_supply, amm_config |-> amm_config, epoch |-> epoch ]

NothingSeen ==
    [ vault |-> [s \in Side |-> 0], owed |-> [s \in Side |-> 0], lp_supply |-> 0,
      amm_config |-> NoConfig, epoch |-> 0 ]

NoAmounts == [s \in Side |-> 0]

\* quote: what the client expects to pay or to get; limit: what it accepts.
NoTxn == [ status |-> "none", quote |-> NoAmounts, limit |-> NoAmounts ]

input   == command.input
output  == 1 - input
amount  == command.amount[0]
is_swap == command.kind \in {"SwapBaseIn", "SwapBaseOut"}
pays    == command.kind \in {"SwapBaseOut", "Deposit"}   \* the limit is a maximum

----------------------------------------------------------------------------
(***************************************************************************)
(* The quote, from what was seen.                                          *)
(***************************************************************************)
seen_reserve(s) == seen.vault[s] - seen.owed[s]
seen_fee(s)     == get_epoch_fee(MintFees[s], seen.epoch)

\* MUTANT of quote_base_in: the fee on the way in is not taken into account.
quote_base_in_gross ==
    LET amount_out == swap_base_input(amount, seen_reserve(input), seen_reserve(output),
                                      seen.amm_config).destination_amount_swapped
    IN  amount_out - get_transfer_fee(seen_fee(output), amount_out)

\* SwapBaseIn: what the user receives for amount.
quote_base_in ==
    LET actual_amount_in == amount - get_transfer_fee(seen_fee(input), amount)
        amount_out == swap_base_input(actual_amount_in, seen_reserve(input),
                          seen_reserve(output), seen.amm_config).destination_amount_swapped
    IN  amount_out - get_transfer_fee(seen_fee(output), amount_out)

\* SwapBaseOut: what the pool sends so that the user receives amount, and what the
\* user pays for it.
actual_amount_out == amount + get_transfer_inverse_fee(seen_fee(output), amount)

quote_base_out ==
    LET source == swap_base_output(actual_amount_out, seen_reserve(input),
                      seen_reserve(output), seen.amm_config).source_amount_swapped
    IN  source + get_transfer_inverse_fee(seen_fee(input), source)

\* Deposit and Withdraw: both round up.
quote_share(s) ==
    lp_tokens_to_trading_token(amount, seen.lp_supply, seen_reserve(s), "Ceiling")

\* Asked for more than the reserve, the client panics as the program does.
quote_defined ==
    command.kind = "SwapBaseOut" =>
        swap_base_output_defined(actual_amount_out, seen_reserve(output))

\* A swap limits one of its sides, Deposit and Withdraw both.
limited    == IF pays THEN input ELSE output
quote_swap == IF pays THEN quote_base_out ELSE quote_base_in

quote ==
    [s \in Side |-> IF ~is_swap THEN quote_share(s)
                   ELSE IF s = limited THEN quote_swap ELSE 0]

----------------------------------------------------------------------------
(***************************************************************************)
(* The limit.                                                              *)
(***************************************************************************)
\* MUTANT of amount_with_slippage: the limit is rounded to the strict side.
amount_with_slippage_strict(expected, round_up) ==
    IF round_up THEN {(expected * (SLIPPAGE_UNIT + SLIPPAGE)) \div SLIPPAGE_UNIT}
    ELSE {(expected * (SLIPPAGE_UNIT - SLIPPAGE) + SLIPPAGE_UNIT - 1) \div SLIPPAGE_UNIT}

\* What the f64 product may be rounded to.  Where the exact product is an integer,
\* the rounded factors may put it on the far side: the limit is one token laxer.
amount_with_slippage(expected, round_up) ==
    LET product == expected * (IF round_up THEN SLIPPAGE_UNIT + SLIPPAGE
                                           ELSE SLIPPAGE_UNIT - SLIPPAGE)
        below == product \div SLIPPAGE_UNIT
        laxer == IF round_up THEN below + 1 ELSE below - 1
    IN  IF product % SLIPPAGE_UNIT # 0 THEN {IF round_up THEN below + 1 ELSE below}
        ELSE IF product = 0 \/ SLIPPAGE = 0 THEN {below}
        ELSE {below, laxer}

\* get_pool_mints_inverse_fee and get_pool_mints_transfer_fee hand the amount over as
\* the epoch and the epoch as the amount.
mints_inverse_fee(s, post_fee_amount) ==
    get_transfer_inverse_fee(get_epoch_fee(MintFees[s], post_fee_amount), seen.epoch)
mints_transfer_fee(s, pre_fee_amount) ==
    get_transfer_fee(get_epoch_fee(MintFees[s], pre_fee_amount), seen.epoch)

\* MUTANT of with_transfer_fee: a swap puts the fee on top of the limit, as Deposit does.
with_transfer_fee_last(s, limit) ==
    IF pays THEN limit + get_transfer_inverse_fee(seen_fee(s), limit) ELSE limit

\* The quote of a swap includes the transfer fees; the others add them to the limit.
with_transfer_fee(s, limit) ==
    IF is_swap THEN limit
    ELSE IF pays THEN limit + mints_inverse_fee(s, limit)
    ELSE limit - mints_transfer_fee(s, limit)

limits ==
    {[s \in Side |-> with_transfer_fee(s, IF s = 0 THEN limit_0 ELSE limit_1)] :
        limit_0 \in amount_with_slippage(quote[0], pays),
        limit_1 \in amount_with_slippage(quote[1], pays)}

----------------------------------------------------------------------------
(***************************************************************************)
(* The steps of main, one per remote call.                                 *)
(***************************************************************************)
Ends(how) == stage' = "done" /\ outcome' = how

\* program.account(pool_id): only to learn which accounts to fetch.
FindPool ==
    /\ stage = "start"
    /\ command.kind # "InitializePool"
    /\ \/ /\ created
          /\ stage' = "found"
          /\ seen' = [NothingSeen EXCEPT !.owed = View.owed, !.lp_supply = lp_supply]
          /\ UNCHANGED outcome
       \/ /\ ~created
          /\ Ends("error")
          /\ UNCHANGED seen
    /\ UNCHANGED <<vars, command, txn>>

\* MUTANT of FetchAccounts: the pool account of the first call is used on.
FetchVaultsOnly ==
    /\ stage = "found"
    /\ stage' = "fetched"
    /\ seen' = [View EXCEPT !.owed = seen.owed, !.lp_supply = seen.lp_supply]
    /\ UNCHANGED <<vars, command, outcome, txn>>

\* get_multiple_accounts: pool, config and vaults at one moment.
FetchAccounts ==
    /\ stage = "found"
    /\ stage' = "fetched"
    /\ seen' = [View EXCEPT !.epoch = 0]
    /\ UNCHANGED <<vars, command, outcome, txn>>

\* InitializePool asks for the mints only.
FetchMints ==
    /\ stage = "start"
    /\ command.kind = "InitializePool"
    /\ stage' = "priced"
    /\ UNCHANGED <<vars, command, outcome, seen, txn>>

GetEpoch ==
    /\ stage = "fetched"
    /\ stage' = "priced"
    /\ seen' = [seen EXCEPT !.epoch = epoch]
    /\ UNCHANGED <<vars, command, outcome, txn>>

\* send_txn, unless a checked_ operation of the quote or the limit is unwrapped in vain.
SendTxn ==
    /\ stage = "priced"
    /\ \/ /\ command.kind = "InitializePool"
          /\ txn' = [NoTxn EXCEPT !.status = "pending"]
          /\ stage' = "sent"
          /\ UNCHANGED outcome
       \/ /\ command.kind # "InitializePool"
          /\ quote_defined
          /\ \E limit \in limits :
                /\ \A s \in Side : limit[s] >= 0
                /\ txn' = [ status |-> "pending", quote |-> quote, limit |-> limit ]
          /\ stage' = "sent"
          /\ UNCHANGED outcome
       \/ /\ command.kind # "InitializePool"
          /\ quote_defined => \E limit \in limits, s \in Side : limit[s] < 0
          /\ Ends("panic")
          /\ UNCHANGED txn
    /\ UNCHANGED <<vars, command, seen>>

\* MUTANT of Confirm: waits for a status even when there will be none.
ConfirmLandedOnly ==
    /\ stage = "sent"
    /\ txn.status \notin {"pending", "expired"}
    /\ Ends(IF txn.status = "executed" THEN "signature" ELSE "error")
    /\ UNCHANGED <<vars, command, seen, txn>>

\* send_and_confirm_transaction: waits until the transaction has a status, or can
\* have none any more.
Confirm ==
    /\ stage = "sent"
    /\ txn.status # "pending"
    /\ Ends(IF txn.status = "executed" THEN "signature" ELSE "error")
    /\ UNCHANGED <<vars, command, seen, txn>>

\* Any call may fail, the wait for the transaction included: it may land even so.
\* main unwraps the error of get_epoch_info, and of the mints fetched next to it.
CallFails ==
    /\ stage # "done"
    /\ Ends(IF stage = "fetched" THEN "panic" ELSE "error")
    /\ UNCHANGED <<vars, command, seen, txn>>

----------------------------------------------------------------------------
(***************************************************************************)
(* The transaction on the chain.                                           *)
(***************************************************************************)
\* MUTANT of init_amounts: the mints are sorted, their amounts are not.
init_amounts_unsorted == command.amount

\* The mints are sorted, and their amounts with them.
init_amounts == [s \in Side |-> command.amount[IF input = 0 THEN s ELSE 1 - s]]

\* The instructions the client builds, as the actions they become; the accounts that
\* receive tokens are the user's, never the vaults.
initialize_pool_instr == Initialize(init_amounts, 0)
withdraw_instr(minimum) == Withdraw(amount, minimum, Side)
swap_base_input_instr(limit) == SwapBaseInput(input, amount, limit[output], {output})
swap_base_output_instr(limit) == SwapBaseOutput(input, limit[input], amount, {output})

\* MUTANT of deposit_instr: the limits of the two tokens are exchanged.
deposit_instr_exchanged(maximum) == Deposit(amount, [s \in Side |-> maximum[1 - s]])

deposit_instr(maximum) == Deposit(amount, maximum)

Executes(limit) ==
    \/ command.kind = "InitializePool" /\ initialize_pool_instr
    \/ command.kind = "Deposit" /\ deposit_instr(limit)
    \/ command.kind = "Withdraw" /\ withdraw_instr(limit)
    \/ command.kind = "SwapBaseIn" /\ swap_base_input_instr(limit)
    \/ command.kind = "SwapBaseOut" /\ swap_base_output_instr(limit)

NoLimit == [s \in Side |-> IF pays THEN TokenSupply[s] ELSE 0]

\* The sides whose token account the transaction creates first.  It names the classic
\* token program, which does not know a token-2022 mint.
created_accounts ==
    CASE is_swap                      -> {output}
      [] command.kind = "Withdraw"    -> Side
      [] OTHER                        -> {}

AccountsCreated == created_accounts \cap Token2022 = {}

\* Whether the chain would execute the instruction with this limit.
Accepts(limit) == ENABLED Executes(limit)

\* The client has no use for what it saw once its transaction has a status.
Resolved(status_of_txn) ==
    /\ txn' = [txn EXCEPT !.status = status_of_txn]
    /\ seen' = NothingSeen
    /\ UNCHANGED <<command, stage, outcome>>

Land ==
    /\ txn.status = "pending"
    /\ \/ AccountsCreated /\ Executes(txn.limit) /\ Resolved("executed")
       \/ /\ AccountsCreated /\ ~Accepts(txn.limit)
          /\ \/ Accepts(NoLimit) /\ Resolved("ExceededSlippage")
             \/ ~Accepts(NoLimit) /\ Resolved("failed")
          /\ UNCHANGED vars
       \/ ~AccountsCreated /\ Resolved("failed") /\ UNCHANGED vars

\* Its blockhash is too old.
Expire ==
    /\ txn.status = "pending"
    /\ Resolved("expired")
    /\ UNCHANGED vars

----------------------------------------------------------------------------
ClientInit ==
    /\ Init
    /\ command \in Commands
    /\ stage = "start"
    /\ outcome = "none"
    /\ seen = NothingSeen
    /\ txn = NoTxn

ClientStep == FindPool \/ FetchAccounts \/ FetchMints \/ GetEpoch \/ SendTxn \/ Confirm

\* The process has ended and its transaction has a status: what others do from here
\* on is the business of Pool.
Settled == stage = "done" /\ txn.status # "pending"

ClientNext ==
    \/ ClientStep
    \/ CallFails
    \/ Land
    \/ Expire
    \/ ~Settled /\ Next /\ UNCHANGED client_vars

\* main goes on until it has an answer or an error, every call of it has a timeout, and
\* a blockhash is valid for 150 blocks.  Nobody else has to do anything, and a
\* transaction need not land.
Fairness == WF_all_vars(ClientStep) /\ WF_all_vars(Expire)

ClientSpec == ClientInit /\ [][ClientNext]_all_vars /\ Fairness

----------------------------------------------------------------------------
(***************************************************************************)
(* What must hold.                                                         *)
(***************************************************************************)
\* The process, what it remembers and its transaction.
ClientTypeOK ==
    /\ TypeOK
    /\ command \in Commands
    /\ stage \in {"start", "found", "fetched", "priced", "sent", "done"}
    /\ outcome \in {"none", "signature", "error", "panic"}
    /\ seen \in [ vault: [Side -> Nat], owed: [Side -> Nat], lp_supply: Nat,
                  amm_config: AmmConfigType, epoch: Nat ]
    /\ txn \in [ status: {"none", "pending", "executed", "ExceededSlippage", "failed",
                          "expired"},
                 quote: [Side -> Nat], limit: [Side -> Nat] ]

\* main.rs fetches the pool together with its vaults "to ensure data consistency":
\* whatever happens between its calls, the client never sees fees that the vaults do
\* not cover, nor more LP tokens than the reserves back, and the reserves it quotes
\* from never panic.
SeenIsConsistent ==
    stage \in {"fetched", "priced"} /\ command.kind # "InitializePool" =>
        /\ \A s \in Side : seen.owed[s] < seen.vault[s]
        /\ seen.lp_supply > 0
        /\ seen.lp_supply * seen.lp_supply <= seen_reserve(0) * seen_reserve(1)

\* The client computes what the program will compute: the program turns its limit
\* down only when pool, vaults, rates or fee epoch are not what the client read.  A
\* withdrawal keeps to it if there is some slippage: its quote is the share rounded up,
\* the program pays it rounded down.
QuoteHonoured ==
    [][txn.status = "pending" /\ txn'.status = "ExceededSlippage" => View # seen]_all_vars

Lands == txn.status = "pending" /\ txn'.status = "executed"

received(s) ==
    LET sent == vault[s] - vault'[s] IN sent - get_transfer_fee(epoch_fee(s), sent)
paid(s) ==
    LET credited == vault'[s] - vault[s]
    IN  credited + get_transfer_inverse_fee(epoch_fee(s), credited)

rounding == IF SLIPPAGE = 0 THEN 0 ELSE 1

\* However the pool moved since the quote, the user gets at least the quote less the
\* slippage, or pays at most the quote plus the slippage, transfer fees included, up
\* to one token of rounding.  A deposit keeps to it if the mints charge no fee: with a
\* fee its limit is off by the fee of an amount as large as the epoch.
ExecutedWithinSlippage ==
    [][Lands => \A s \in {t \in Side : txn.quote[t] > 0} :
          IF pays
          THEN (paid(s) - rounding) * SLIPPAGE_UNIT <= txn.quote[s] * (SLIPPAGE_UNIT + SLIPPAGE)
          ELSE (received(s) + rounding) * SLIPPAGE_UNIT >= txn.quote[s] * (SLIPPAGE_UNIT - SLIPPAGE)
      ]_all_vars

\* Each mint's vault receives the amount the user typed for that mint, in whichever
\* order the mints were typed.
AmountsFollowMints ==
    [][Lands /\ command.kind = "InitializePool" =>
          /\ vault'[input] = CreditedToVault(input, command.amount[0])
          /\ vault'[output] = CreditedToVault(output, command.amount[1])]_all_vars

\* A command ends and its transaction gets a status, however calls fail and whatever
\* others do to the pool.
CommandSettles == <>Settled

\* main.rs computes a deposit's maximum "with transfer_fee": it leaves room for the
\* fee the mint charges on top of what is to arrive in the vault.
DepositLimitIncludesFee ==
    stage = "sent" /\ txn.status = "pending" /\ command.kind = "Deposit" =>
        \A s \in Side :
            txn.limit[s] >= txn.quote[s] + get_transfer_inverse_fee(seen_fee(s), txn.quote[s])
============================================================================
