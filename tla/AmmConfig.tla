----------------------------- MODULE AmmConfig -----------------------------
(***************************************************************************)
(* The AmmConfig account (states/config.rs): the fee rates and fee owners  *)
(* shared by every pool of a config, created and changed by the admin      *)
(* (lib.rs, instructions/admin/create_config.rs and update_config.rs).     *)
(*                                                                         *)
(* An instruction that fails leaves no trace on the chain: it is an action *)
(* that is not enabled.                                                    *)
(***************************************************************************)
EXTENDS CurveMath

CONSTANTS
    Admin,                               \* the key admin::ID
    NoKey,                               \* Pubkey::default()
    Keys,                                \* the keys that may sign or own
    RateValues,                          \* fee rates the admin creates a config with
    CreatePoolFees,                      \* and pool creation fees
    Updates                              \* <<param, value>> the admin updates one with

ASSUME AmmConfigAssumption ==
    /\ Admin \in Keys
    /\ Admin # NoKey
    /\ RateValues \subseteq Nat
    /\ CreatePoolFees \subseteq Nat
    /\ Updates \subseteq (0..255) \X Nat

VARIABLE amm_config

\* The account does not exist yet.
NoConfig == [ exists |-> FALSE, disable_create_pool |-> FALSE, trade_fee_rate |-> 0,
              protocol_fee_rate |-> 0, fund_fee_rate |-> 0, create_pool_fee |-> 0,
              protocol_owner |-> NoKey, fund_owner |-> NoKey ]

AmmConfigType ==
    [ exists: BOOLEAN, disable_create_pool: BOOLEAN, trade_fee_rate: Nat,
      protocol_fee_rate: Nat, fund_fee_rate: Nat, create_pool_fee: Nat,
      protocol_owner: Keys \cup {NoKey}, fund_owner: Keys \cup {NoKey} ]

----------------------------------------------------------------------------
\* The rates a config may hold: less than everything for the trading fee, and
\* no more than the whole trading fee for the two that share it.
RatesAllowed(trade, protocol, fund) ==
    /\ trade < FEE_RATE_DENOMINATOR_VALUE
    /\ protocol <= FEE_RATE_DENOMINATOR_VALUE
    /\ fund <= FEE_RATE_DENOMINATOR_VALUE
    /\ fund + protocol <= FEE_RATE_DENOMINATOR_VALUE

create_amm_config(owner, trade, protocol, fund, create_fee) ==
    /\ owner = Admin
    /\ ~amm_config.exists
    /\ RatesAllowed(trade, protocol, fund)
    /\ amm_config' = [ exists |-> TRUE, disable_create_pool |-> FALSE,
                       trade_fee_rate |-> trade, protocol_fee_rate |-> protocol,
                       fund_fee_rate |-> fund, create_pool_fee |-> create_fee,
                       protocol_owner |-> owner, fund_owner |-> owner ]

----------------------------------------------------------------------------
\* update_amm_config dispatches on param; each case is one helper.
update_trade_fee_rate(value) ==
    /\ value < FEE_RATE_DENOMINATOR_VALUE
    /\ amm_config' = [amm_config EXCEPT !.trade_fee_rate = value]

update_protocol_fee_rate(value) ==
    /\ value <= FEE_RATE_DENOMINATOR_VALUE
    /\ value + amm_config.fund_fee_rate <= FEE_RATE_DENOMINATOR_VALUE
    /\ amm_config' = [amm_config EXCEPT !.protocol_fee_rate = value]

\* MUTANT of update_fund_fee_rate: the protocol's rate is not looked at.
update_fund_fee_rate_alone(value) ==
    /\ value <= FEE_RATE_DENOMINATOR_VALUE
    /\ amm_config' = [amm_config EXCEPT !.fund_fee_rate = value]

update_fund_fee_rate(value) ==
    /\ value <= FEE_RATE_DENOMINATOR_VALUE
    /\ value + amm_config.protocol_fee_rate <= FEE_RATE_DENOMINATOR_VALUE
    /\ amm_config' = [amm_config EXCEPT !.fund_fee_rate = value]

set_new_protocol_owner(new_owner) ==
    /\ new_owner # NoKey
    /\ amm_config' = [amm_config EXCEPT !.protocol_owner = new_owner]

\* MUTANT of set_new_fund_owner: the default key is accepted.
set_any_fund_owner(new_owner) == amm_config' = [amm_config EXCEPT !.fund_owner = new_owner]

set_new_fund_owner(new_owner) ==
    /\ new_owner # NoKey
    /\ amm_config' = [amm_config EXCEPT !.fund_owner = new_owner]

\* value is the instruction's argument, key the first of its remaining accounts.
update_amm_config(owner, param, value, key) ==
    /\ owner = Admin
    /\ amm_config.exists
    /\ \/ param = 0 /\ update_trade_fee_rate(value)
       \/ param = 1 /\ update_protocol_fee_rate(value)
       \/ param = 2 /\ update_fund_fee_rate(value)
       \/ param = 3 /\ set_new_protocol_owner(key)
       \/ param = 4 /\ set_new_fund_owner(key)
       \/ param = 5 /\ amm_config' = [amm_config EXCEPT !.create_pool_fee = value]
       \/ param = 6 /\ amm_config' = [amm_config EXCEPT !.disable_create_pool = (value # 0)]

ConfigInit == amm_config = NoConfig

ConfigNext ==
    \/ \E owner \in Keys, trade, protocol, fund \in RateValues, fee \in CreatePoolFees :
          create_amm_config(owner, trade, protocol, fund, fee)
    \/ \E owner \in Keys, update \in Updates, key \in Keys \cup {NoKey} :
          update_amm_config(owner, update[1], update[2], key)

ConfigSpec == ConfigInit /\ [][ConfigNext]_amm_config

----------------------------------------------------------------------------
\* The account has the type of the struct AmmConfig.
ConfigTypeOK == amm_config \in AmmConfigType

\* However the three rates are changed one at a time and in whatever order,
\* together they stay what create_amm_config would accept: a trade never costs
\* everything, and protocol and fund never share out more than the trading fee.
\* The solvency of every pool of the config rests on it.
RatesStayAllowed ==
    RatesAllowed(amm_config.trade_fee_rate, amm_config.protocol_fee_rate,
                 amm_config.fund_fee_rate)

\* Once a config exists, both kinds of fee have an owner who can collect them:
\* no sequence of updates hands them to the default key.
FeesHaveOwners ==
    amm_config.exists => NoKey \notin {amm_config.protocol_owner, amm_config.fund_owner}
============================================================================
