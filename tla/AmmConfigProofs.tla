-------------------------- MODULE AmmConfigProofs --------------------------
(***************************************************************************)
(* The fee rates of a config stay allowed under every sequence of updates, *)
(* for every fee denominator and every value the admin may try.            *)
(***************************************************************************)
EXTENDS AmmConfig, TLAPS

\* One step of the config: type and rates together are inductive.  Every update
\* checks only the rate it changes against the others, so the others must be known.
LEMMA ConfigStep ==
    ASSUME ConfigTypeOK, RatesStayAllowed, [ConfigNext]_amm_config
    PROVE  ConfigTypeOK' /\ RatesStayAllowed'
<1> USE AmmConfigAssumption, FeeDenominatorAssumption
    DEF ConfigTypeOK, AmmConfigType, RatesStayAllowed, RatesAllowed
<1>1. ASSUME NEW owner \in Keys, NEW trade \in RateValues, NEW protocol \in RateValues,
             NEW fund \in RateValues, NEW fee \in CreatePoolFees,
             create_amm_config(owner, trade, protocol, fund, fee)
      PROVE  ConfigTypeOK' /\ RatesStayAllowed'
  BY <1>1 DEF create_amm_config
<1>2. ASSUME NEW owner \in Keys, NEW update \in Updates, NEW key \in Keys \cup {NoKey},
             update_amm_config(owner, update[1], update[2], key)
      PROVE  ConfigTypeOK' /\ RatesStayAllowed'
  <2>1. update[2] \in Nat
    OBVIOUS
  <2>2. CASE update_trade_fee_rate(update[2])
    BY <2>1, <2>2 DEF update_trade_fee_rate
  <2>3. CASE update_protocol_fee_rate(update[2])
    BY <2>1, <2>3 DEF update_protocol_fee_rate
  <2>4. CASE update_fund_fee_rate(update[2])
    BY <2>1, <2>4 DEF update_fund_fee_rate
  <2>5. CASE set_new_protocol_owner(key)
    BY <2>5 DEF set_new_protocol_owner
  <2>6. CASE set_new_fund_owner(key)
    BY <2>6 DEF set_new_fund_owner
  <2>7. CASE amm_config' = [amm_config EXCEPT !.create_pool_fee = update[2]]
    BY <2>1, <2>7
  <2>8. CASE amm_config' = [amm_config EXCEPT !.disable_create_pool = (update[2] # 0)]
    <3>1. PICK flag \in BOOLEAN :
              amm_config' = [amm_config EXCEPT !.disable_create_pool = flag]
      BY <2>8, Zenon
    <3> QED
      BY <3>1
  <2> QED
    BY <1>2, <2>2, <2>3, <2>4, <2>5, <2>6, <2>7, <2>8 DEF update_amm_config
<1>3. CASE UNCHANGED amm_config
  BY <1>3
<1> QED
  BY <1>1, <1>2, <1>3 DEF ConfigNext

\* An account that does not exist yet has no rates to speak of.
LEMMA ConfigInitially ==
    ASSUME ConfigInit
    PROVE  ConfigTypeOK /\ RatesStayAllowed
  BY AmmConfigAssumption, FeeDenominatorAssumption
  DEF ConfigInit, NoConfig, ConfigTypeOK, AmmConfigType, RatesStayAllowed, RatesAllowed

\* Whatever updates the admin makes, in whatever order, the rates stay ones that
\* create_amm_config would have accepted.
THEOREM RatesAlwaysAllowed == ConfigSpec => []RatesStayAllowed
<1>1. ConfigInit => ConfigTypeOK /\ RatesStayAllowed
  BY ConfigInitially
<1>2. ConfigTypeOK /\ RatesStayAllowed /\ [ConfigNext]_amm_config
          => (ConfigTypeOK /\ RatesStayAllowed)'
  BY ConfigStep
<1> QED
  BY <1>1, <1>2, PTL DEF ConfigSpec

\* A config is created with the admin as both owners, and neither setter takes the
\* default key; no other update touches an owner.
LEMMA OwnersStep ==
    ASSUME ConfigTypeOK, FeesHaveOwners, [ConfigNext]_amm_config
    PROVE  FeesHaveOwners'
<1> USE DEF ConfigTypeOK, AmmConfigType, FeesHaveOwners
<1>1. ASSUME NEW owner \in Keys, NEW trade \in RateValues, NEW protocol \in RateValues,
             NEW fund \in RateValues, NEW fee \in CreatePoolFees,
             create_amm_config(owner, trade, protocol, fund, fee)
      PROVE  FeesHaveOwners'
  BY <1>1, AmmConfigAssumption DEF create_amm_config
<1>2. ASSUME NEW owner \in Keys, NEW update \in Updates, NEW key \in Keys \cup {NoKey},
             update_amm_config(owner, update[1], update[2], key)
      PROVE  FeesHaveOwners'
  BY <1>2 DEF update_amm_config, update_trade_fee_rate, update_protocol_fee_rate,
              update_fund_fee_rate, set_new_protocol_owner, set_new_fund_owner
<1>3. CASE UNCHANGED amm_config
  BY <1>3
<1> QED
  BY <1>1, <1>2, <1>3 DEF ConfigNext

\* Whatever updates the admin makes, both kinds of fee keep an owner who can collect.
THEOREM FeesAlwaysHaveOwners == ConfigSpec => []FeesHaveOwners
<1> DEFINE Inv == ConfigTypeOK /\ RatesStayAllowed /\ FeesHaveOwners
<1>1. ConfigInit => Inv
  BY ConfigInitially DEF ConfigInit, NoConfig, FeesHaveOwners
<1>2. Inv /\ [ConfigNext]_amm_config => Inv'
  BY ConfigStep, OwnersStep
<1>3. Inv => FeesHaveOwners
  OBVIOUS
<1> QED
  BY <1>1, <1>2, <1>3, PTL DEF ConfigSpec
============================================================================
