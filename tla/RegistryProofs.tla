--------------------------- MODULE RegistryProofs ---------------------------
(***************************************************************************)
(* What lies at the addresses of configs and pools, for any number of      *)
(* configs, mints and keys, any rents and any lamports sent ahead.         *)
(*                                                                         *)
(* The inductive invariant says of every address which data may be found   *)
(* at it, that a pool has all its accounts, and that none of them exists   *)
(* before the pool does: one instruction creates them together.            *)
(*                                                                         *)
(* At the end, what is in a mint that is_supported_mint once accepted, for *)
(* mints with any number of extensions.                                    *)
(***************************************************************************)
EXTENDS Registry, MintSupport, TLAPS

Wallets == { wallet(k) : k \in Keys }

PoolDataAt(p) ==
    { PoolData(index, creator, m[1], m[2], p) :
          index \in Configs, creator \in Keys, m \in OrderedPairs }

\* The data that may be found at an address.
FoundAt(a, data) ==
    \/ data = NoData
    \/ /\ a \in { amm_config(index) : index \in Configs }
       /\ \E fee \in Nat, disabled \in BOOLEAN : data = ConfigData(fee, disabled)
    \/ /\ a \in Wallets
       /\ data \in { WrappedSol(a, lamports) : lamports \in Nat } \cup PoolDataAt(a)
    \/ \E index \in Configs, creator \in Keys, m \in OrderedPairs :
          /\ a = <<"pool", index, m[1], m[2]>>
          /\ data = PoolData(index, creator, m[1], m[2], a)
    \/ \E p \in PoolAddresses, coin \in Mints :
          a = token_vault(p, coin) /\ data = TokenData(coin, authority)
    \/ \E p \in PoolAddresses : a = lp_mint(p) /\ data = MintData(authority)
    \/ \E p \in PoolAddresses : a = observation_state(p) /\ data = ObservationData(p)
    \/ \E p \in PoolAddresses, key \in Keys :
          a = lp_token(key, p) /\ data = TokenData(lp_mint(p), wallet(key))

OwnerOf(data) ==
    IF data.kind = "none" THEN "system"
    ELSE IF data.kind \in {"mint", "token"} THEN "token" ELSE "program"

\* An account that may be at the address, with the rent its data costs.  A token
\* account wraps at most what it holds beyond that.
Fits(a, acc) ==
    /\ acc = [ lamports |-> acc.lamports, owner |-> acc.owner, data |-> acc.data ]
    /\ acc.lamports \in Nat
    /\ acc.owner = OwnerOf(acc.data)
    /\ acc.data.kind # "none" => acc.lamports >= Rent[acc.data.kind]
    /\ acc.data.kind = "token" =>
           acc.data.wrapped \in Nat /\ acc.data.wrapped <= acc.lamports - Rent["token"]
    /\ FoundAt(a, acc.data)

AccountsFit ==
    /\ account = [a \in Addresses |-> account[a]]
    /\ \A a \in Addresses : Fits(a, account[a])

\* The accounts that only the creation of pool p gives data.
AccountsOf(p) ==
    { token_vault(p, coin) : coin \in Mints } \cup { lp_token(key, p) : key \in Keys }
        \cup { lp_mint(p), observation_state(p) }

Complete(p) ==
    LET data == account[p].data
    IN  /\ \A i \in 1..2 : account[data.token_vault[i]].data
                             = TokenData(data.token_mint[i], authority)
        /\ account[lp_mint(p)].data = MintData(authority)
        /\ account[observation_state(p)].data = ObservationData(p)

PoolsComplete == \A p \in PoolAddresses : IsPool(p) => Complete(p)

NothingBeforePool ==
    \A p \in PoolAddresses : ~IsPool(p) =>
        \A a \in AccountsOf(p) : account[a].data = NoData

RegistryInv == AccountsFit /\ PoolsComplete /\ NothingBeforePool

(***************************************************************************)
(* Addresses.                                                              *)
(***************************************************************************)
\* Lists of different seeds are different addresses.
LEMMA PoolsApart ==
    ASSUME NEW p \in PoolAddresses, NEW q
    PROVE  /\ \A index : p # amm_config(index)
           /\ \A coin : p # token_vault(q, coin)
           /\ p # lp_mint(q)
           /\ p # observation_state(q)
           /\ \A key : p # lp_token(key, q)
  BY DEF PoolAddresses, wallet, amm_config, token_vault, lp_mint, observation_state, lp_token

LEMMA VaultsApart ==
    ASSUME NEW p, NEW q, NEW coin
    PROVE  /\ \A index : token_vault(p, coin) # amm_config(index)
           /\ \A other : token_vault(p, coin) = token_vault(q, other) => p = q /\ coin = other
           /\ token_vault(p, coin) # lp_mint(q)
           /\ token_vault(p, coin) # observation_state(q)
           /\ \A key : token_vault(p, coin) # lp_token(key, q)
  BY DEF amm_config, token_vault, lp_mint, observation_state, lp_token

LEMMA LpTokensApart ==
    ASSUME NEW p, NEW q, NEW key
    PROVE  /\ \A index : lp_token(key, p) # amm_config(index)
           /\ \A other : lp_token(key, p) = lp_token(other, q) => p = q /\ key = other
           /\ lp_token(key, p) # lp_mint(q)
           /\ lp_token(key, p) # observation_state(q)
  BY DEF amm_config, lp_mint, observation_state, lp_token, wallet

LEMMA LpMintsApart ==
    ASSUME NEW p, NEW q
    PROVE  /\ \A index : lp_mint(p) # amm_config(index) /\ observation_state(p) # amm_config(index)
           /\ lp_mint(p) = lp_mint(q) => p = q
           /\ observation_state(p) = observation_state(q) => p = q
           /\ lp_mint(p) # observation_state(q)
  BY DEF amm_config, lp_mint, observation_state

\* An address of seeds is nobody's wallet.
LEMMA WalletsApart ==
    /\ \A index : amm_config(index) \notin Wallets
    /\ \A c, m, n : <<"pool", c, m, n>> \notin Wallets
    /\ \A key, other : wallet(key) = wallet(other) => key = other
  BY DEF Wallets, wallet, amm_config

LEMMA AddressesKnown ==
    /\ Wallets \subseteq PoolAddresses
    /\ PoolAddresses \subseteq Addresses
    /\ \A key \in Keys : wallet(key) \in Wallets
    /\ \A index \in Configs : amm_config(index) \in Addresses
    /\ \A index \in Configs, m \in OrderedPairs : <<"pool", index, m[1], m[2]>> \in PoolAddresses
    /\ \A p \in PoolAddresses :
          /\ AccountsOf(p) \subseteq Addresses
          /\ \A coin \in Mints : token_vault(p, coin) \in AccountsOf(p)
          /\ \A key \in Keys : lp_token(key, p) \in AccountsOf(p)
          /\ lp_mint(p) \in AccountsOf(p)
          /\ observation_state(p) \in AccountsOf(p)
    /\ create_pool_fee \in Wallets
<1>1. Wallets \subseteq PoolAddresses /\ PoolAddresses \subseteq Addresses
  BY DEF Wallets, PoolAddresses, Addresses
<1>2. \A key \in Keys : wallet(key) \in Wallets
  BY DEF Wallets
<1>3. \A index \in Configs : amm_config(index) \in Addresses
  BY DEF Addresses
<1>4. \A index \in Configs, m \in OrderedPairs : <<"pool", index, m[1], m[2]>> \in PoolAddresses
  BY DEF PoolAddresses
<1>5. ASSUME NEW p \in PoolAddresses
      PROVE  /\ AccountsOf(p) \subseteq Addresses
             /\ \A coin \in Mints : token_vault(p, coin) \in AccountsOf(p)
             /\ \A key \in Keys : lp_token(key, p) \in AccountsOf(p)
             /\ lp_mint(p) \in AccountsOf(p)
             /\ observation_state(p) \in AccountsOf(p)
  BY DEF AccountsOf, Addresses
<1>6. create_pool_fee \in Wallets
  BY <1>2, RegistryAssumption DEF create_pool_fee
<1> QED
  BY <1>1, <1>2, <1>3, <1>4, <1>5, <1>6

\* No account of a pool is a pool, a config or an account of another pool.
LEMMA AccountsOfApart ==
    ASSUME NEW p \in PoolAddresses, NEW a \in AccountsOf(p)
    PROVE  /\ a \notin PoolAddresses
           /\ \A index : a # amm_config(index)
           /\ \A q \in PoolAddresses \ {p} : a \notin AccountsOf(q)
<1>1. a \notin PoolAddresses
  BY PoolsApart DEF AccountsOf
<1>2. \A index : a # amm_config(index)
  BY VaultsApart, LpTokensApart, LpMintsApart DEF AccountsOf
<1>3. ASSUME NEW q \in PoolAddresses \ {p}, a \in AccountsOf(q)
      PROVE  FALSE
  <2>1. CASE \E coin \in Mints : a = token_vault(p, coin)
    <3>1. PICK coin \in Mints : a = token_vault(p, coin)
      BY <2>1
    <3>2. q # p
      BY <1>3
    <3>3. \A other : token_vault(p, coin) # token_vault(q, other)
      BY <3>2, VaultsApart
    <3>4. \A other : token_vault(p, coin) # lp_token(other, q)
      BY VaultsApart
    <3>5. token_vault(p, coin) # lp_mint(q) /\ token_vault(p, coin) # observation_state(q)
      BY VaultsApart
    <3> QED
      BY <1>3, <3>1, <3>3, <3>4, <3>5 DEF AccountsOf
  <2>2. CASE \E key \in Keys : a = lp_token(key, p)
    <3>1. PICK key \in Keys : a = lp_token(key, p)
      BY <2>2
    <3>2. q # p
      BY <1>3
    <3>3. \A other : lp_token(key, p) # lp_token(other, q)
      BY <3>2, LpTokensApart
    <3>4. \A coin : lp_token(key, p) # token_vault(q, coin)
      BY VaultsApart
    <3>5. lp_token(key, p) # lp_mint(q) /\ lp_token(key, p) # observation_state(q)
      BY LpTokensApart
    <3> QED
      BY <1>3, <3>1, <3>3, <3>4, <3>5 DEF AccountsOf
  <2>3. CASE a = lp_mint(p)
    BY <1>3, <2>3, VaultsApart, LpTokensApart, LpMintsApart DEF AccountsOf
  <2>4. CASE a = observation_state(p)
    BY <1>3, <2>4, VaultsApart, LpTokensApart, LpMintsApart DEF AccountsOf
  <2> QED
    BY <2>1, <2>2, <2>3, <2>4 DEF AccountsOf
<1> QED
  BY <1>1, <1>2, <1>3

(***************************************************************************)
(* Accounts.                                                               *)
(***************************************************************************)
\* What is missing to the rent, if anything.
LEMMA RequiredLamports ==
    ASSUME NEW a, account[a].lamports \in Nat, NEW kind \in Kinds
    PROVE  /\ required_lamports(a, kind) \in Nat
           /\ required_lamports(a, kind) <= Rent[kind]
           /\ account[a].lamports + required_lamports(a, kind) >= Rent[kind]
<1> DEFINE missing == Rent[kind] - account[a].lamports
           least == IF missing > 0 THEN missing ELSE 0
<1>1. Rent[kind] \in Nat /\ missing \in Int
  BY RegistryAssumption
<1>2. least \in {0, missing} /\ \A n \in {0, missing} : least >= n
  BY <1>1
<1>3. Max({0, missing}) \in {0, missing} /\ \A n \in {0, missing} : Max({0, missing}) >= n
  BY <1>2 DEF Max
<1>4. required_lamports(a, kind) = Max({0, missing})
  BY DEF required_lamports
<1> QED
  BY <1>1, <1>3, <1>4

\* An account without data is the system program's.
LEMMA NothingIsSystems == OwnerOf(NoData) = "system"
  BY DEF OwnerOf, NoData

\* The kinds there are.
LEMMA FoundKinds ==
    ASSUME NEW a, NEW data, FoundAt(a, data)
    PROVE  data.kind \in Kinds
<1>1. CASE data = NoData
  BY <1>1 DEF NoData, Kinds
<1>2. CASE \E fee \in Nat, disabled \in BOOLEAN : data = ConfigData(fee, disabled)
  BY <1>2 DEF ConfigData, Kinds
<1>3. CASE data \in { WrappedSol(a, lamports) : lamports \in Nat }
  BY <1>3 DEF WrappedSol, TokenData, Kinds
<1>4. CASE data \in PoolDataAt(a)
  BY <1>4 DEF PoolDataAt, PoolData, Kinds
<1>5. CASE \E index \in Configs, creator \in Keys, m \in OrderedPairs :
               data = PoolData(index, creator, m[1], m[2], a)
  BY <1>5 DEF PoolData, Kinds
<1>6. CASE \E coin, owner : data = TokenData(coin, owner)
  BY <1>6 DEF TokenData, Kinds
<1>7. CASE data = MintData(authority)
  BY <1>7 DEF MintData, Kinds
<1>8. CASE \E p \in PoolAddresses : data = ObservationData(p)
  BY <1>8 DEF ObservationData, Kinds
<1> QED
  BY <1>1, <1>2, <1>3, <1>4, <1>5, <1>6, <1>7, <1>8 DEF FoundAt

\* Only an address of a config has the data of one.
LEMMA FoundConfig ==
    ASSUME NEW a, NEW data, FoundAt(a, data), data.kind = "amm_config"
    PROVE  \E fee \in Nat, disabled \in BOOLEAN : data = ConfigData(fee, disabled)
  BY DEF FoundAt, NoData, WrappedSol, TokenData, PoolDataAt, PoolData, MintData, ObservationData

\* A pool is where its seeds say, or at somebody's wallet.
LEMMA FoundPool ==
    ASSUME NEW a, NEW data, FoundAt(a, data), data.kind = "pool"
    PROVE  \E index \in Configs, creator \in Keys, m \in OrderedPairs :
              /\ data = PoolData(index, creator, m[1], m[2], a)
              /\ a \in Wallets \/ a = <<"pool", index, m[1], m[2]>>
  BY DEF FoundAt, NoData, ConfigData, WrappedSol, TokenData, PoolDataAt, MintData, ObservationData

\* At an address for pools nothing else is found but wrapped SOL.
LEMMA FoundAtPoolAddress ==
    ASSUME NEW a \in PoolAddresses, NEW data, FoundAt(a, data)
    PROVE  \/ data = NoData
           \/ data \in { WrappedSol(a, lamports) : lamports \in Nat }
           \/ data.kind = "pool"
<1>1. \A index : a # amm_config(index)
  BY PoolsApart
<1>2. \A p : a # lp_mint(p) /\ a # observation_state(p)
  BY PoolsApart
<1>3. \A p, coin : a # token_vault(p, coin)
  BY PoolsApart
<1>4. \A p, key : a # lp_token(key, p)
  BY PoolsApart
<1> QED
  BY <1>1, <1>2, <1>3, <1>4 DEF FoundAt, PoolDataAt, PoolData

\* At the address of seeds there is a pool or nothing.
LEMMA FoundAtPool ==
    ASSUME NEW a \in PoolAddresses \ Wallets, NEW data, FoundAt(a, data), data.kind # "pool"
    PROVE  data = NoData
<1>1. \A index : a # amm_config(index)
  BY PoolsApart
<1>2. \A p : a # lp_mint(p) /\ a # observation_state(p)
  BY PoolsApart
<1>3. \A p, coin : a # token_vault(p, coin)
  BY PoolsApart
<1>4. \A p, key : a # lp_token(key, p)
  BY PoolsApart
<1> QED
  BY <1>1, <1>2, <1>3, <1>4 DEF FoundAt, PoolData

\* More lamports change nothing else.
LEMMA FundedFits ==
    ASSUME NEW a, NEW acc, Fits(a, acc), NEW lamports \in Nat,
           lamports >= acc.lamports \/ acc.data.kind = "none"
    PROVE  LET funded == [acc EXCEPT !.lamports = lamports]
           IN  /\ Fits(a, funded)
               /\ funded.data = acc.data
               /\ funded.lamports = lamports
<1> DEFINE funded == [acc EXCEPT !.lamports = lamports]
<1>1. funded = [ lamports |-> lamports, owner |-> acc.owner, data |-> acc.data ]
  BY DEF Fits
<1>2. funded.lamports = lamports /\ funded.owner = acc.owner /\ funded.data = acc.data
  BY <1>1
<1>3. acc.data.kind \in Kinds
  BY FoundKinds DEF Fits
<1> QED
  BY <1>1, <1>2, <1>3, RegistryAssumption DEF Fits

\* What create_or_allocate_account makes of an unused account.
LEMMA CreatedFits ==
    ASSUME NEW a, Fits(a, account[a]), Unused(a), NEW owner, NEW data, FoundAt(a, data),
           owner = OwnerOf(data), data.kind = "token" => data.wrapped = 0
    PROVE  Fits(a, Created(a, owner, data)) /\ Created(a, owner, data).data = data
<1> DEFINE new == Created(a, owner, data)
<1>1. data.kind \in Kinds
  BY FoundKinds
<1>2. account[a].lamports \in Nat
  BY DEF Fits
<1>3. /\ required_lamports(a, data.kind) \in Nat
      /\ account[a].lamports + required_lamports(a, data.kind) >= Rent[data.kind]
  BY <1>1, <1>2, RequiredLamports
<1>4. new = [ lamports |-> account[a].lamports + required_lamports(a, data.kind),
              owner    |-> owner,
              data     |-> data ]
  BY DEF Created
<1> HIDE DEF new
<1>5. /\ new.lamports = account[a].lamports + required_lamports(a, data.kind)
      /\ new.owner = owner
      /\ new.data = data
  BY <1>4
<1>6. data.kind = "token" => data.wrapped \in Nat /\ data.wrapped <= new.lamports - Rent["token"]
  BY <1>1, <1>2, <1>3, <1>5, RegistryAssumption
<1> QED
  BY <1>2, <1>3, <1>4, <1>5, <1>6 DEF Fits, new

\* A pool names accounts of its own.
LEMMA PoolNames ==
    ASSUME AccountsFit, NEW p \in PoolAddresses, IsPool(p)
    PROVE  LET data == account[p].data
           IN  \E index \in Configs, m \in OrderedPairs :
                  /\ p \in Wallets \/ p = <<"pool", index, m[1], m[2]>>
                  /\ data.amm_config = amm_config(index)
                  /\ data.token_mint = <<m[1], m[2]>>
                  /\ data.token_vault = <<token_vault(p, m[1]), token_vault(p, m[2])>>
                  /\ data.lp_mint = lp_mint(p)
                  /\ data.observation_key = observation_state(p)
<1>1. FoundAt(p, account[p].data) /\ account[p].data.kind = "pool"
  BY AddressesKnown DEF AccountsFit, Fits, IsPool
<1>2. PICK index \in Configs, creator \in Keys, m \in OrderedPairs :
          /\ account[p].data = PoolData(index, creator, m[1], m[2], p)
          /\ p \in Wallets \/ p = <<"pool", index, m[1], m[2]>>
  BY <1>1, FoundPool
<1> QED
  BY <1>2 DEF PoolData

\* A pool stays complete as long as its data and that of its accounts stay.
LEMMA CompleteStays ==
    ASSUME RegistryInv, NEW p \in PoolAddresses, IsPool(p),
           account'[p].data = account[p].data,
           \A a \in AccountsOf(p) : account'[a].data = account[a].data
    PROVE  Complete(p)'
<1>1. Complete(p)
  BY DEF RegistryInv, PoolsComplete
<1>2. PICK m \in OrderedPairs :
          account[p].data.token_vault = <<token_vault(p, m[1]), token_vault(p, m[2])>>
  BY PoolNames DEF RegistryInv
<1>3. /\ \A i \in 1..2 : account[p].data.token_vault[i] \in AccountsOf(p)
      /\ lp_mint(p) \in AccountsOf(p)
      /\ observation_state(p) \in AccountsOf(p)
  BY <1>2 DEF AccountsOf, OrderedPairs
<1> QED
  BY <1>1, <1>3 DEF Complete

\* A step that gives data only to configs, and to wallets that are no pools before or
\* after it, disturbs no pool.
LEMMA QuietStep ==
    ASSUME RegistryInv, AccountsFit',
           \A a \in Addresses :
              \/ account'[a].data = account[a].data
              \/ \E index : a = amm_config(index)
              \/ a \in PoolAddresses /\ ~IsPool(a) /\ ~IsPool(a)'
    PROVE  RegistryInv' /\ \A p \in PoolAddresses : IsPool(p)' <=> IsPool(p)
<1>1. ASSUME NEW p \in PoolAddresses
      PROVE  /\ IsPool(p)' <=> IsPool(p)
             /\ IsPool(p) => account'[p].data = account[p].data
             /\ \A a \in AccountsOf(p) : account'[a].data = account[a].data
  <2>1. \A index : p # amm_config(index)
    BY PoolsApart
  <2>2. p \in Addresses /\ AccountsOf(p) \subseteq Addresses
    BY AddressesKnown
  <2>3. \A a \in AccountsOf(p) : a \notin PoolAddresses /\ \A index : a # amm_config(index)
    BY AccountsOfApart
  <2> QED
    BY <2>1, <2>2, <2>3 DEF IsPool
<1>2. ASSUME NEW p \in PoolAddresses, IsPool(p)'
      PROVE  Complete(p)'
  <2>1. IsPool(p) /\ account'[p].data = account[p].data
    BY <1>1, <1>2
  <2> QED
    BY <1>1, <2>1, CompleteStays
<1>3. ASSUME NEW p \in PoolAddresses, ~IsPool(p)'
      PROVE  \A a \in AccountsOf(p) : account'[a].data = NoData
  BY <1>1, <1>3 DEF RegistryInv, NothingBeforePool
<1> QED
  BY <1>1, <1>2, <1>3 DEF RegistryInv, PoolsComplete, NothingBeforePool

----------------------------------------------------------------------------
(***************************************************************************)
(* Every instruction keeps the invariant.                                  *)
(***************************************************************************)
LEMMA InitialInv == Init => RegistryInv
<1> SUFFICES ASSUME Init
             PROVE  RegistryInv
  OBVIOUS
<1> DEFINE Empty(a) == [ lamports |-> IF \E k \in Keys : a = wallet(k) THEN Wealth[a[2]] ELSE 0,
                         owner    |-> "system",
                         data     |-> NoData ]
<1>1. account = [a \in Addresses |-> Empty(a)]
  BY DEF Init
<1>2. ASSUME NEW a \in Addresses
      PROVE  Fits(a, account[a]) /\ account[a].data = NoData
  <2>1. account[a] = Empty(a)
    BY <1>1
  <2>2. Empty(a).lamports \in Nat /\ Empty(a).owner = "system" /\ Empty(a).data = NoData
    <3>1. CASE \E k \in Keys : a = wallet(k)
      BY <3>1, RegistryAssumption DEF wallet
    <3>2. CASE ~\E k \in Keys : a = wallet(k)
      BY <3>2
    <3> QED
      BY <3>1, <3>2
  <2>3. FoundAt(a, NoData) /\ NoData.kind = "none" /\ OwnerOf(NoData) = "system"
    BY DEF FoundAt, OwnerOf, NoData
  <2>4. Empty(a) = [ lamports |-> Empty(a).lamports, owner |-> Empty(a).owner, data |-> Empty(a).data ]
    OBVIOUS
  <2> HIDE DEF Empty
  <2> QED
    BY <2>1, <2>2, <2>3, <2>4 DEF Fits
<1>3. AccountsFit
  <2>1. account = [a \in Addresses |-> account[a]]
    BY <1>1
  <2> QED
    BY <1>2, <2>1 DEF AccountsFit
<1>4. \A p \in PoolAddresses : ~IsPool(p) /\ AccountsOf(p) \subseteq Addresses
  BY <1>2, AddressesKnown DEF IsPool, NoData
<1> QED
  BY <1>2, <1>3, <1>4 DEF RegistryInv, PoolsComplete, NothingBeforePool

\* Lamports change no data.
LEMMA SendLamportsInv ==
    ASSUME RegistryInv, NEW from \in Keys, NEW to, NEW lamports \in Nat,
           SendLamports(from, to, lamports)
    PROVE  RegistryInv' /\ \A p \in PoolAddresses : IsPool(p)' <=> IsPool(p)
<1> DEFINE source == wallet(from)
<1>1. source \in Addresses /\ Fits(source, account[source]) /\ account[source].data = NoData
  BY AddressesKnown DEF RegistryInv, AccountsFit, SendLamports, Wallet, Unused
<1>2. account[source].lamports - lamports \in Nat
  BY <1>1 DEF SendLamports, Fits
<1>3. ASSUME NEW a \in Addresses
      PROVE  Fits(a, account'[a]) /\ account'[a].data = account[a].data
  <2>1. Fits(a, account[a])
    BY DEF RegistryInv, AccountsFit
  <2>2. CASE a = source
    <3>1. account'[a] = [account[a] EXCEPT !.lamports = account[a].lamports - lamports]
      BY <2>2 DEF SendLamports, RegistryInv, AccountsFit
    <3> QED
      BY <1>1, <1>2, <2>1, <2>2, <3>1, FundedFits DEF NoData
  <2>3. CASE a = to /\ a # source
    <3>1. account'[a] = [account[a] EXCEPT !.lamports = account[a].lamports + lamports]
      BY <2>3 DEF SendLamports, RegistryInv, AccountsFit
    <3>2. account[a].lamports + lamports \in Nat /\ account[a].lamports + lamports >= account[a].lamports
      BY <2>1 DEF Fits
    <3> QED
      BY <2>1, <3>1, <3>2, FundedFits
  <2>4. CASE a # to /\ a # source
    <3>1. account'[a] = account[a]
      BY <2>4 DEF SendLamports, RegistryInv, AccountsFit
    <3> QED
      BY <2>1, <3>1
  <2> QED
    BY <2>2, <2>3, <2>4
<1>4. account' = [a \in Addresses |-> account'[a]]
  BY DEF SendLamports, RegistryInv, AccountsFit
<1>5. AccountsFit'
  BY <1>3, <1>4 DEF AccountsFit
<1> QED
  BY <1>3, <1>5, QuietStep

LEMMA WrapSolInv ==
    ASSUME RegistryInv, NEW key \in Keys, WrapSol(key)
    PROVE  RegistryInv' /\ \A p \in PoolAddresses : IsPool(p)' <=> IsPool(p)
<1> DEFINE w == wallet(key)
           lamports == account[w].lamports
           data == WrappedSol(w, lamports)
<1>1. w \in Wallets /\ w \in PoolAddresses /\ w \in Addresses /\ Fits(w, account[w])
  BY AddressesKnown DEF RegistryInv, AccountsFit
<1>2. account[w].data = NoData /\ lamports \in Nat /\ lamports >= Rent["token"]
  BY <1>1 DEF WrapSol, Wallet, Unused, Fits
<1>3. account' = [account EXCEPT ![w] = [ lamports |-> lamports, owner |-> "token", data |-> data ]]
  BY DEF WrapSol
<1>4. data.kind = "token" /\ data.wrapped = lamports - Rent["token"]
  BY DEF WrappedSol, TokenData
<1>5. FoundAt(w, data)
  BY <1>1, <1>2 DEF FoundAt
<1>6. OwnerOf(data) = "token" /\ data.wrapped \in Nat
  BY <1>2, <1>4, RegistryAssumption DEF OwnerOf, Kinds
<1> HIDE DEF data, lamports, w
<1>7. ASSUME NEW a \in Addresses
      PROVE  /\ Fits(a, account'[a])
             /\ a = w => account'[a].data = data
             /\ a # w => account'[a] = account[a]
  <2>1. CASE a = w
    <3>1. account'[a] = [ lamports |-> lamports, owner |-> "token", data |-> data ]
      BY <1>1, <1>3, <2>1 DEF RegistryInv, AccountsFit
    <3>2. /\ account'[a].lamports = lamports
          /\ account'[a].owner = "token"
          /\ account'[a].data = data
      BY <3>1
    <3> QED
      BY <1>2, <1>4, <1>5, <1>6, <2>1, <3>1, <3>2 DEF Fits
  <2>2. CASE a # w
    <3>1. account'[a] = account[a]
      BY <1>3, <2>2 DEF RegistryInv, AccountsFit
    <3> QED
      BY <2>2, <3>1 DEF RegistryInv, AccountsFit
  <2> QED
    BY <2>1, <2>2
<1>8. account' = [a \in Addresses |-> account'[a]]
  BY <1>3 DEF RegistryInv, AccountsFit
<1>9. AccountsFit'
  BY <1>7, <1>8 DEF AccountsFit
<1>10. ~IsPool(w) /\ ~IsPool(w)'
  BY <1>1, <1>2, <1>4, <1>7 DEF IsPool, NoData
<1> QED
  BY <1>1, <1>7, <1>9, <1>10, QuietStep

LEMMA CreateConfigInv ==
    ASSUME RegistryInv, NEW owner \in Keys, NEW index \in Configs, NEW fee \in CreatePoolFees,
           create_amm_config(owner, index, fee)
    PROVE  RegistryInv' /\ \A p \in PoolAddresses : IsPool(p)' <=> IsPool(p)
<1> DEFINE w == wallet(owner)
           c == amm_config(index)
           data == ConfigData(fee, FALSE)
           rent == required_lamports(c, "amm_config")
<1>1. /\ w \in Wallets /\ w \in Addresses /\ c \in Addresses /\ w # c
      /\ Fits(w, account[w]) /\ Fits(c, account[c])
  BY AddressesKnown, WalletsApart DEF RegistryInv, AccountsFit
<1>2. account[w].data = NoData /\ rent <= account[w].lamports /\ Unused(c)
  BY DEF create_amm_config, CanCreateConfig, Wallet, Unused, create_or_allocate_accepts,
         create_account_accepts, allocate_and_assign_accept
<1>3. account' = [account EXCEPT ![c] = Created(c, "program", data),
                                 ![w].lamports = @ - rent]
  BY DEF create_amm_config
<1>4. FoundAt(c, data) /\ data.kind = "amm_config" /\ OwnerOf(data) = "program"
  <2>1. data.kind = "amm_config"
    BY DEF ConfigData
  <2>2. OwnerOf(data) = "program"
    BY <2>1 DEF OwnerOf
  <2>3. c \in { amm_config(i) : i \in Configs }
    OBVIOUS
  <2>4. \E f \in Nat, d \in BOOLEAN : data = ConfigData(f, d)
    <3>1. fee \in Nat /\ FALSE \in BOOLEAN
      BY RegistryAssumption
    <3> QED
      BY <3>1, Zenon
  <2> HIDE DEF c, data
  <2> QED
    BY <2>1, <2>2, <2>3, <2>4 DEF FoundAt
<1>5. Fits(c, Created(c, "program", data))
  BY <1>1, <1>2, <1>4, CreatedFits
<1>6. account[w].lamports - rent \in Nat
  BY <1>1, <1>2, RequiredLamports DEF Fits, Kinds
<1> HIDE DEF w, c, data, rent
<1>7. ASSUME NEW a \in Addresses, a # c
      PROVE  Fits(a, account'[a]) /\ account'[a].data = account[a].data
  <2>1. Fits(a, account[a])
    BY DEF RegistryInv, AccountsFit
  <2>2. CASE a = w
    <3>1. account'[a] = [account[a] EXCEPT !.lamports = account[a].lamports - rent]
      BY <1>3, <1>7, <2>2 DEF RegistryInv, AccountsFit
    <3> QED
      BY <1>2, <1>6, <2>1, <2>2, <3>1, FundedFits DEF NoData
  <2>3. CASE a # w
    <3>1. account'[a] = account[a]
      BY <1>3, <1>7, <2>3 DEF RegistryInv, AccountsFit
    <3> QED
      BY <2>1, <3>1
  <2> QED
    BY <2>2, <2>3
<1>8. account'[c] = Created(c, "program", data)
  BY <1>1, <1>3 DEF RegistryInv, AccountsFit
<1>9. account' = [a \in Addresses |-> account'[a]]
  BY <1>3 DEF RegistryInv, AccountsFit
<1>10. AccountsFit'
  BY <1>5, <1>7, <1>8, <1>9 DEF AccountsFit
<1> QED
  BY <1>7, <1>10, QuietStep DEF c

LEMMA UpdateConfigInv ==
    ASSUME RegistryInv, NEW owner, NEW index \in Configs, NEW param, NEW value \in CreatePoolFees,
           update_amm_config(owner, index, param, value)
    PROVE  RegistryInv' /\ \A p \in PoolAddresses : IsPool(p)' <=> IsPool(p)
<1> DEFINE c == amm_config(index)
<1>1. c \in Addresses /\ Fits(c, account[c]) /\ account[c].data.kind = "amm_config"
  BY AddressesKnown DEF RegistryInv, AccountsFit, update_amm_config, IsConfig
<1>2. PICK fee \in Nat, disabled \in BOOLEAN : account[c].data = ConfigData(fee, disabled)
  BY <1>1, FoundConfig DEF Fits
<1>3. account[c] = [ lamports |-> account[c].lamports, owner |-> account[c].owner,
                     data |-> ConfigData(fee, disabled) ]
  BY <1>1, <1>2 DEF Fits
<1>4. PICK newfee \in Nat, newdisabled \in BOOLEAN :
          account'[c] = [ lamports |-> account[c].lamports, owner |-> account[c].owner,
                          data |-> ConfigData(newfee, newdisabled) ]
  <2>1. CASE account' = [account EXCEPT ![c].data.create_pool_fee = value]
    <3>1. account'[c] = [account[c] EXCEPT !.data.create_pool_fee = value]
      BY <1>1, <2>1 DEF RegistryInv, AccountsFit
    <3>2. account'[c] = [ lamports |-> account[c].lamports, owner |-> account[c].owner,
                          data |-> ConfigData(value, disabled) ]
      BY <1>3, <3>1 DEF ConfigData
    <3> QED
      BY <3>2, RegistryAssumption
  <2>2. CASE account' = [account EXCEPT ![c].data.disable_create_pool = (value # 0)]
    <3>1. account'[c] = [account[c] EXCEPT !.data.disable_create_pool = (value # 0)]
      BY <1>1, <2>2 DEF RegistryInv, AccountsFit
    <3>2. account'[c] = [ lamports |-> account[c].lamports, owner |-> account[c].owner,
                          data |-> ConfigData(fee, value # 0) ]
      BY <1>3, <3>1 DEF ConfigData
    <3> QED
      BY <3>2
  <2> QED
    BY <2>1, <2>2 DEF update_amm_config
<1>5. /\ account' = [a \in Addresses |-> account'[a]]
      /\ \A a \in Addresses \ {c} : account'[a] = account[a]
  BY DEF update_amm_config, RegistryInv, AccountsFit
<1>6. Fits(c, account'[c])
  <2> DEFINE new == account'[c]
  <2>1. /\ new.lamports = account[c].lamports
        /\ new.owner = account[c].owner
        /\ new.data = ConfigData(newfee, newdisabled)
    BY <1>4
  <2>2. new.data.kind = "amm_config" /\ FoundAt(c, new.data)
    <3>1. ConfigData(newfee, newdisabled).kind = "amm_config"
      BY DEF ConfigData
    <3> QED
      BY <2>1, <3>1 DEF FoundAt
  <2>3. OwnerOf(new.data) = OwnerOf(account[c].data)
    BY <1>1, <2>2 DEF OwnerOf
  <2> QED
    BY <1>1, <1>4, <2>1, <2>2, <2>3 DEF Fits
<1>7. AccountsFit'
  BY <1>5, <1>6 DEF AccountsFit, RegistryInv
<1> QED
  BY <1>5, <1>7, QuietStep

\* What initialize creates, by address.
LEMMA NewAccountsAre ==
    ASSUME NEW creator \in Keys, NEW index \in Configs, NEW m \in OrderedPairs,
           NEW pool \in PoolAddresses
    PROVE  LET new == NewAccounts(creator, index, m[1], m[2], pool)
           IN  /\ DOMAIN new = { lp_mint(pool), lp_token(creator, pool), observation_state(pool),
                                 token_vault(pool, m[1]), token_vault(pool, m[2]), pool }
               /\ new[lp_mint(pool)] = [ owner |-> "token", data |-> MintData(authority) ]
               /\ new[lp_token(creator, pool)] =
                      [ owner |-> "token", data |-> TokenData(lp_mint(pool), wallet(creator)) ]
               /\ new[observation_state(pool)] =
                      [ owner |-> "program", data |-> ObservationData(pool) ]
               /\ \A i \in 1..2 : new[token_vault(pool, m[i])] =
                      [ owner |-> "token", data |-> TokenData(m[i], authority) ]
               /\ new[pool] =
                      [ owner |-> "program", data |-> PoolData(index, creator, m[1], m[2], pool) ]
<1> DEFINE a1 == lp_mint(pool)
           a2 == lp_token(creator, pool)
           a3 == observation_state(pool)
           a4 == token_vault(pool, m[1])
           a5 == token_vault(pool, m[2])
           new == NewAccounts(creator, index, m[1], m[2], pool)
<1>1. pool # a1 /\ pool # a2 /\ pool # a3 /\ pool # a4 /\ pool # a5
  BY PoolsApart
<1>2. a1 # a2 /\ a1 # a3 /\ a1 # a4 /\ a1 # a5
  BY VaultsApart, LpTokensApart, LpMintsApart
<1>3. a2 # a3 /\ a2 # a4 /\ a2 # a5 /\ a3 # a4 /\ a3 # a5
  BY VaultsApart, LpTokensApart
<1>4. m[1] # m[2]
  <2>1. m[1] \in Mints /\ m[2] \in Mints /\ m[1] < m[2]
    BY DEF OrderedPairs
  <2>2. Mints \subseteq Nat
    BY RegistryAssumption
  <2>3. \A x, y \in Nat : x < y => x # y
    OBVIOUS
  <2> QED
    BY <2>1, <2>2, <2>3
<1>5. a4 # a5
  <2>1. \A p, q, coin, other :
            token_vault(p, coin) = token_vault(q, other) => coin = other
    BY VaultsApart
  <2> QED
    BY <1>4, <2>1, Zenon
<1> HIDE DEF a1, a2, a3, a4, a5
<1>6. new = [ a \in { a1, a2, a3, a4, a5, pool } |->
                  CASE a = a1 -> [ owner |-> "token", data |-> MintData(authority) ]
                    [] a = a2 -> [ owner |-> "token", data |-> TokenData(a1, wallet(creator)) ]
                    [] a = a3 -> [ owner |-> "program", data |-> ObservationData(pool) ]
                    [] a = a4 -> [ owner |-> "token", data |-> TokenData(m[1], authority) ]
                    [] a = a5 -> [ owner |-> "token", data |-> TokenData(m[2], authority) ]
                    [] a = pool -> [ owner |-> "program",
                                     data |-> PoolData(index, creator, m[1], m[2], pool) ] ]
  BY DEF NewAccounts, a1, a2, a3, a4, a5
<1> HIDE DEF new
<1>7. /\ DOMAIN new = { a1, a2, a3, a4, a5, pool }
      /\ new[a1] = [ owner |-> "token", data |-> MintData(authority) ]
      /\ new[a2] = [ owner |-> "token", data |-> TokenData(a1, wallet(creator)) ]
      /\ new[a3] = [ owner |-> "program", data |-> ObservationData(pool) ]
      /\ new[a4] = [ owner |-> "token", data |-> TokenData(m[1], authority) ]
      /\ new[a5] = [ owner |-> "token", data |-> TokenData(m[2], authority) ]
      /\ new[pool] = [ owner |-> "program", data |-> PoolData(index, creator, m[1], m[2], pool) ]
  BY <1>1, <1>2, <1>3, <1>5, <1>6
<1> QED
  BY <1>7 DEF new, a1, a2, a3, a4, a5

\* Each of them may be at its address, under its owner.
LEMMA NewAccountsFit ==
    ASSUME NEW creator \in Keys, NEW index \in Configs, NEW m \in OrderedPairs,
           NEW pool \in PoolAddresses, pool \in Wallets \/ pool = <<"pool", index, m[1], m[2]>>,
           NEW a \in DOMAIN NewAccounts(creator, index, m[1], m[2], pool)
    PROVE  LET new == NewAccounts(creator, index, m[1], m[2], pool)[a]
           IN  /\ FoundAt(a, new.data)
               /\ new.owner = OwnerOf(new.data)
               /\ new.data.kind = "token" => new.data.wrapped = 0
               /\ a # pool => a \in AccountsOf(pool) /\ new.data.kind # "pool"
<1> DEFINE new == NewAccounts(creator, index, m[1], m[2], pool)
<1>1. m[1] \in Mints /\ m[2] \in Mints
  BY DEF OrderedPairs
<1>9. /\ DOMAIN new = { lp_mint(pool), lp_token(creator, pool), observation_state(pool),
                        token_vault(pool, m[1]), token_vault(pool, m[2]), pool }
      /\ new[lp_mint(pool)] = [ owner |-> "token", data |-> MintData(authority) ]
      /\ new[lp_token(creator, pool)] =
             [ owner |-> "token", data |-> TokenData(lp_mint(pool), wallet(creator)) ]
      /\ new[observation_state(pool)] =
             [ owner |-> "program", data |-> ObservationData(pool) ]
      /\ \A i \in 1..2 : new[token_vault(pool, m[i])] =
             [ owner |-> "token", data |-> TokenData(m[i], authority) ]
      /\ new[pool] =
             [ owner |-> "program", data |-> PoolData(index, creator, m[1], m[2], pool) ]
  BY NewAccountsAre
<1>10. a \in DOMAIN new
  OBVIOUS
<1> SUFFICES /\ FoundAt(a, new[a].data)
             /\ new[a].owner = OwnerOf(new[a].data)
             /\ new[a].data.kind = "token" => new[a].data.wrapped = 0
             /\ a # pool => a \in AccountsOf(pool) /\ new[a].data.kind # "pool"
  OBVIOUS
<1> HIDE DEF new
<1>2. /\ pool # lp_mint(pool) /\ pool # lp_token(creator, pool) /\ pool # observation_state(pool)
      /\ \A i \in 1..2 : pool # token_vault(pool, m[i])
  BY PoolsApart
<1>3. CASE a = lp_mint(pool)
  <2>1. new[a].owner = "token" /\ new[a].data = MintData(authority)
    BY <1>3, <1>9
  <2>2. MintData(authority).kind = "mint"
    BY DEF MintData
  <2>3. FoundAt(a, MintData(authority))
    BY <1>3 DEF FoundAt
  <2> QED
    BY <1>3, <2>1, <2>2, <2>3, AddressesKnown DEF OwnerOf
<1>4. CASE a = lp_token(creator, pool)
  <2>1. new[a].owner = "token" /\ new[a].data = TokenData(lp_mint(pool), wallet(creator))
    BY <1>4, <1>9
  <2>2. new[a].data.kind = "token" /\ new[a].data.wrapped = 0
    BY <2>1 DEF TokenData
  <2>3. FoundAt(a, TokenData(lp_mint(pool), wallet(creator)))
    BY <1>4 DEF FoundAt
  <2> QED
    BY <1>4, <2>1, <2>2, <2>3, AddressesKnown DEF OwnerOf
<1>5. CASE a = observation_state(pool)
  <2>1. new[a].owner = "program" /\ new[a].data = ObservationData(pool)
    BY <1>5, <1>9
  <2>2. ObservationData(pool).kind = "observation"
    BY DEF ObservationData
  <2>3. FoundAt(a, ObservationData(pool))
    BY <1>5 DEF FoundAt
  <2> QED
    BY <1>5, <2>1, <2>2, <2>3, AddressesKnown DEF OwnerOf
<1>6. ASSUME NEW i \in 1..2, a = token_vault(pool, m[i])
      PROVE  /\ FoundAt(a, new[a].data) /\ new[a].owner = OwnerOf(new[a].data)
             /\ new[a].data.kind = "token" /\ new[a].data.wrapped = 0
             /\ a \in AccountsOf(pool)
  <2>1. new[a].owner = "token" /\ new[a].data = TokenData(m[i], authority)
    BY <1>6, <1>9
  <2>2. new[a].data.kind = "token" /\ new[a].data.wrapped = 0
    BY <2>1 DEF TokenData
  <2>3. m[i] \in Mints
    BY <1>1
  <2>4. FoundAt(a, TokenData(m[i], authority))
    BY <1>6, <2>3 DEF FoundAt
  <2> QED
    BY <1>6, <2>1, <2>2, <2>3, <2>4, AddressesKnown DEF OwnerOf
<1>7. CASE a = pool
  <2>1. new[a].owner = "program" /\ new[a].data = PoolData(index, creator, m[1], m[2], pool)
    BY <1>7, <1>9
  <2>2. new[a].data.kind = "pool"
    BY <2>1 DEF PoolData
  <2>3. new[a].data \in PoolDataAt(a)
    BY <1>7, <2>1 DEF PoolDataAt
  <2>4. FoundAt(a, new[a].data)
    BY <1>7, <2>1, <2>3 DEF FoundAt
  <2> QED
    BY <1>7, <2>1, <2>2, <2>4 DEF OwnerOf
<1>8. \/ a = lp_mint(pool) \/ a = lp_token(creator, pool) \/ a = observation_state(pool)
      \/ (\E i \in 1..2 : a = token_vault(pool, m[i])) \/ a = pool
  BY <1>9, <1>10
<1> QED
  BY <1>2, <1>3, <1>4, <1>5, <1>6, <1>7, <1>8

\* The rent of a pool's accounts, and at most how much it is.
LEMMA RentOfPool ==
    ASSUME AccountsFit, NEW creator \in Keys, NEW pool \in PoolAddresses,
           NEW mint_0 \in Mints, NEW mint_1 \in Mints
    PROVE  /\ RentOf(creator, pool, mint_0, mint_1) \in Nat
           /\ RentOf(creator, pool, mint_0, mint_1)
                  <= Rent["mint"] + Rent["observation"] + Rent["pool"] + 3 * Rent["token"]
<1>1. \A a \in AccountsOf(pool) \cup {pool} : account[a].lamports \in Nat
  BY AddressesKnown DEF AccountsFit, Fits
<1>2. /\ lp_mint(pool) \in AccountsOf(pool) /\ lp_token(creator, pool) \in AccountsOf(pool)
      /\ observation_state(pool) \in AccountsOf(pool)
      /\ token_vault(pool, mint_0) \in AccountsOf(pool)
      /\ token_vault(pool, mint_1) \in AccountsOf(pool)
  BY AddressesKnown
<1>3. \A a \in AccountsOf(pool) \cup {pool}, kind \in Kinds :
          required_lamports(a, kind) \in Nat /\ required_lamports(a, kind) <= Rent[kind]
  BY <1>1, RequiredLamports
<1>4. /\ "mint" \in Kinds /\ "observation" \in Kinds /\ "pool" \in Kinds /\ "token" \in Kinds
      /\ \A kind \in Kinds : Rent[kind] \in Nat
  BY RegistryAssumption DEF Kinds
<1>5. /\ required_lamports(lp_mint(pool), "mint") \in 0..Rent["mint"]
      /\ required_lamports(lp_token(creator, pool), "token") \in 0..Rent["token"]
      /\ required_lamports(observation_state(pool), "observation") \in 0..Rent["observation"]
      /\ required_lamports(token_vault(pool, mint_0), "token") \in 0..Rent["token"]
      /\ required_lamports(token_vault(pool, mint_1), "token") \in 0..Rent["token"]
      /\ required_lamports(pool, "pool") \in 0..Rent["pool"]
  BY <1>2, <1>3, <1>4
<1> QED
  BY <1>4, <1>5 DEF RentOf

\* A config's fee.
LEMMA CreationFee ==
    ASSUME AccountsFit, NEW index \in Configs, IsConfig(amm_config(index))
    PROVE  creation_fee(index) \in Nat
<1>1. FoundAt(amm_config(index), account[amm_config(index)].data)
  BY AddressesKnown DEF AccountsFit, Fits
<1>2. \E fee \in Nat, disabled \in BOOLEAN :
          account[amm_config(index)].data = ConfigData(fee, disabled)
  BY <1>1, FoundConfig DEF IsConfig
<1> QED
  BY <1>2 DEF ConfigData, creation_fee

\* What initialize found: nothing at any of the addresses it creates, so the payer and
\* the receiver of the fee are none of them.
LEMMA InitializeFound ==
    ASSUME RegistryInv, NEW creator \in Keys, NEW index \in Configs,
           NEW mint_0 \in Mints, NEW mint_1 \in Mints, NEW pool \in PoolAddresses,
           NEW signers \in SUBSET Keys,
           CanInitialize(creator, index, mint_0, mint_1, pool, signers)
    PROVE  LET new == NewAccounts(creator, index, mint_0, mint_1, pool)
           IN  /\ <<mint_0, mint_1>> \in OrderedPairs
               /\ pool \in Wallets \/ pool = <<"pool", index, mint_0, mint_1>>
               /\ DOMAIN new \subseteq Addresses /\ pool \in DOMAIN new
               /\ \A a \in DOMAIN new : Unused(a) /\ a # wallet(creator)
               /\ Wallet(creator)
               /\ creation_fee(index) \in Nat
               /\ account[wallet(creator)].lamports
                      - RentOf(creator, pool, mint_0, mint_1) - creation_fee(index) \in Nat
<1> DEFINE new == NewAccounts(creator, index, mint_0, mint_1, pool)
           m == <<mint_0, mint_1>>
           w == wallet(creator)
<1>1. m \in OrderedPairs /\ m[1] = mint_0 /\ m[2] = mint_1
  BY DEF CanInitialize, OrderedPairs
<1>2. pool \in Wallets \/ pool = <<"pool", index, mint_0, mint_1>>
  BY DEF CanInitialize, CanCreatePool, PoolSigned, pool_pda, Wallets,
         create_or_allocate_accepts
<1>3. DOMAIN new = { lp_mint(pool), lp_token(creator, pool), observation_state(pool),
                     token_vault(pool, mint_0), token_vault(pool, mint_1), pool }
  BY DEF NewAccounts
<1>4. DOMAIN new \subseteq AccountsOf(pool) \cup {pool}
  BY <1>3, AddressesKnown
<1>5. DOMAIN new \subseteq Addresses /\ pool \in DOMAIN new
  BY <1>3, <1>4, AddressesKnown
<1>6. ASSUME NEW a \in DOMAIN new
      PROVE  Unused(a) /\ a # w
  <2>1. w \in PoolAddresses
    BY AddressesKnown
  <2>2. a # w
    BY <1>4, <2>1, AccountsOfApart DEF CanInitialize
  <2>3. create_or_allocate_accepts(a, TRUE) \/
        create_or_allocate_accepts(a, PoolSigned(pool, index, mint_0, mint_1, signers))
    BY DEF CanInitialize, CanCreatePool
  <2>4. Unused(a)
    BY <2>3 DEF create_or_allocate_accepts, create_account_accepts, allocate_and_assign_accept
  <2> QED
    BY <2>2, <2>4
<1>7. creation_fee(index) \in Nat /\ Wallet(creator)
  BY CreationFee DEF CanInitialize, RegistryInv
<1>8. account[w].lamports - RentOf(creator, pool, mint_0, mint_1) - creation_fee(index) \in Nat
  <2>1. RentOf(creator, pool, mint_0, mint_1) \in Nat
    BY RentOfPool DEF RegistryInv
  <2>2. account[w].lamports \in Nat
    BY AddressesKnown DEF RegistryInv, AccountsFit, Fits
  <2>3. RentOf(creator, pool, mint_0, mint_1) + creation_fee(index) <= account[w].lamports
    BY DEF CanInitialize
  <2> QED
    BY <1>7, <2>1, <2>2, <2>3
<1> QED
  BY <1>1, <1>2, <1>5, <1>6, <1>7, <1>8

\* The receiver of a fee is a wrapped-SOL account.
LEMMA ReceiverWraps ==
    ASSUME RegistryInv, sync_native_accepts(create_pool_fee)
    PROVE  LET acc == account[create_pool_fee]
           IN  /\ create_pool_fee \in Addresses
               /\ acc.lamports \in Nat /\ acc.owner = "token"
               /\ acc.data.wrapped <= acc.lamports - Rent["token"]
               /\ acc.data.wrapped \in Nat
               /\ acc = [ lamports |-> acc.lamports, owner |-> acc.owner, data |-> acc.data ]
               /\ acc.data = [ kind |-> "token", mint |-> "SOL", owner |-> create_pool_fee,
                               wrapped |-> acc.data.wrapped ]
<1> DEFINE acc == account[create_pool_fee]
<1>1. create_pool_fee \in PoolAddresses /\ create_pool_fee \in Addresses
  BY AddressesKnown
<1>2. Fits(create_pool_fee, acc) /\ acc.data.kind = "token"
  BY <1>1 DEF RegistryInv, AccountsFit, sync_native_accepts
<1>3. \E lamports \in Nat : acc.data = WrappedSol(create_pool_fee, lamports)
  BY <1>1, <1>2, FoundAtPoolAddress DEF Fits, NoData
<1>4. acc.data = [ kind |-> "token", mint |-> "SOL", owner |-> create_pool_fee,
                   wrapped |-> acc.data.wrapped ]
  BY <1>3 DEF WrappedSol, TokenData
<1>5. acc.owner = "token"
  BY <1>2 DEF Fits, OwnerOf
<1> HIDE DEF acc
<1> QED
  BY <1>1, <1>2, <1>4, <1>5 DEF Fits, acc

\* What initialize leaves: the new accounts, less lamports with the payer, the fee with
\* its receiver.
LEMMA InitializeLeaves ==
    ASSUME RegistryInv, NEW creator \in Keys, NEW index \in Configs,
           NEW mint_0 \in Mints, NEW mint_1 \in Mints, NEW pool \in PoolAddresses,
           NEW signers \in SUBSET Keys,
           Initialize(creator, index, mint_0, mint_1, pool, signers)
    PROVE  LET new == NewAccounts(creator, index, mint_0, mint_1, pool)
               fee == creation_fee(index)
               w == wallet(creator)
               lamports == account[create_pool_fee].lamports + fee
           IN  /\ account' = [a \in Addresses |-> account'[a]]
               /\ \A a \in DOMAIN new : account'[a] = Created(a, new[a].owner, new[a].data)
               /\ account'[w] = [account[w] EXCEPT !.lamports =
                      account[w].lamports - RentOf(creator, pool, mint_0, mint_1) - fee]
               /\ fee # 0 =>
                      /\ sync_native_accepts(create_pool_fee)
                      /\ create_pool_fee \notin DOMAIN new \cup {w}
                      /\ account'[create_pool_fee] =
                            [ lamports |-> lamports, owner |-> "token",
                              data |-> WrappedSol(create_pool_fee, lamports) ]
               /\ \A a \in Addresses \ (DOMAIN new \cup {w}) :
                      (fee # 0 /\ a = create_pool_fee) \/ account'[a] = account[a]
<1> DEFINE new == NewAccounts(creator, index, mint_0, mint_1, pool)
           fee == creation_fee(index)
           w == wallet(creator)
           r == create_pool_fee
           lamports == account[r].lamports + fee
           left == account[w].lamports - RentOf(creator, pool, mint_0, mint_1) - fee
           charged == IF fee = 0 THEN account ELSE PayCreationFee(fee)
           paid == [charged EXCEPT ![w].lamports = left]
<1>1. CanInitialize(creator, index, mint_0, mint_1, pool, signers)
  BY DEF Initialize
<1>2. /\ DOMAIN new \subseteq Addresses
      /\ \A a \in DOMAIN new : Unused(a) /\ a # w
      /\ Wallet(creator) /\ w \in Addresses
  BY <1>1, InitializeFound, AddressesKnown
<1>3. fee # 0 => sync_native_accepts(r)
  BY DEF Initialize
<1>4. account' = [a \in Addresses |-> IF a \in DOMAIN new
                                      THEN Created(a, new[a].owner, new[a].data)
                                      ELSE paid[a]]
  BY DEF Initialize
<1>5. fee # 0 => r \in Addresses /\ r \notin DOMAIN new \cup {w}
  BY <1>2, <1>3, AddressesKnown DEF sync_native_accepts, Wallet, Unused, NoData
<1>6. account = [a \in Addresses |-> account[a]]
  BY DEF RegistryInv, AccountsFit
<1>7. fee # 0 => charged[r] = [ lamports |-> lamports, owner |-> "token",
                                data |-> WrappedSol(r, lamports) ]
  <2> SUFFICES ASSUME fee # 0
               PROVE  charged[r] = [ lamports |-> lamports, owner |-> "token",
                                     data |-> WrappedSol(r, lamports) ]
    OBVIOUS
  <2>1. /\ r \in Addresses
        /\ account[r] = [ lamports |-> account[r].lamports, owner |-> "token",
                          data |-> account[r].data ]
        /\ account[r].data = [ kind |-> "token", mint |-> "SOL", owner |-> r,
                               wrapped |-> account[r].data.wrapped ]
    BY <1>3, ReceiverWraps
  <2> DEFINE before == [ kind |-> "token", mint |-> "SOL", owner |-> r,
                         wrapped |-> account[r].data.wrapped ]
             after  == [ kind |-> "token", mint |-> "SOL", owner |-> r,
                         wrapped |-> lamports - Rent["token"] ]
  <2>2. account[r] = [ lamports |-> account[r].lamports, owner |-> "token", data |-> before ]
    BY <2>1
  <2>3. charged = [account EXCEPT ![r].lamports = lamports,
                                  ![r].data.wrapped = lamports - Rent["token"]]
    BY DEF PayCreationFee
  <2>4. charged[r] = [[account[r] EXCEPT !.lamports = lamports]
                         EXCEPT !.data.wrapped = lamports - Rent["token"]]
    BY <1>6, <2>1, <2>3
  <2>5. [account[r] EXCEPT !.lamports = lamports] =
            [ lamports |-> lamports, owner |-> "token", data |-> before ]
    BY <2>2
  <2>6. [before EXCEPT !.wrapped = lamports - Rent["token"]] = after
    OBVIOUS
  <2>7. charged[r] = [[ lamports |-> lamports, owner |-> "token", data |-> before ]
                         EXCEPT !.data.wrapped = lamports - Rent["token"]]
    BY <2>4, <2>5
  <2>8. charged[r] = [ lamports |-> lamports, owner |-> "token", data |-> after ]
    BY <2>6, <2>7
  <2>9. WrappedSol(r, lamports) = [ kind |-> "token", mint |-> "SOL", owner |-> r,
                                    wrapped |-> lamports - Rent["token"] ]
    BY DEF WrappedSol, TokenData
  <2> QED
    BY <2>9, <2>8
<1>8. \A a \in Addresses : (fee # 0 /\ a = r) \/ charged[a] = account[a]
  BY <1>6 DEF PayCreationFee
<1>9. charged = [a \in Addresses |-> charged[a]]
  BY <1>6 DEF PayCreationFee
<1>10. charged[w] = account[w]
  BY <1>2, <1>5, <1>8
<1> HIDE DEF charged
<1>11. /\ paid[w] = [account[w] EXCEPT !.lamports = left]
       /\ \A a \in Addresses \ {w} : paid[a] = charged[a]
  BY <1>2, <1>9, <1>10
<1> HIDE DEF paid, new, fee, w, r, lamports, left
<1>12. /\ account' = [a \in Addresses |-> account'[a]]
       /\ \A a \in DOMAIN new : account'[a] = Created(a, new[a].owner, new[a].data)
       /\ \A a \in Addresses \ DOMAIN new : account'[a] = paid[a]
  BY <1>2, <1>4
<1>13. account'[w] = [account[w] EXCEPT !.lamports = left]
  BY <1>2, <1>11, <1>12
<1>14. fee # 0 => account'[r] = [ lamports |-> lamports, owner |-> "token",
                                  data |-> WrappedSol(r, lamports) ]
  BY <1>5, <1>7, <1>11, <1>12
<1>15. \A a \in Addresses \ (DOMAIN new \cup {w}) : (fee # 0 /\ a = r) \/ account'[a] = account[a]
  BY <1>8, <1>11, <1>12
<1> QED
  BY <1>3, <1>5, <1>12, <1>13, <1>14, <1>15 DEF new, fee, w, r, lamports, left

LEMMA InitializeInv ==
    ASSUME RegistryInv, NEW creator \in Keys, NEW index \in Configs,
           NEW mint_0 \in Mints, NEW mint_1 \in Mints, NEW pool \in PoolAddresses,
           NEW signers \in SUBSET Keys,
           Initialize(creator, index, mint_0, mint_1, pool, signers)
    PROVE  /\ RegistryInv'
           /\ account'[pool].data.amm_config = amm_config(index)
           /\ \A p \in PoolAddresses : IsPool(p)' <=> IsPool(p) \/ p = pool
<1> DEFINE new == NewAccounts(creator, index, mint_0, mint_1, pool)
           fee == creation_fee(index)
           w == wallet(creator)
           r == create_pool_fee
           lamports == account[r].lamports + fee
           left == account[w].lamports - RentOf(creator, pool, mint_0, mint_1) - fee
           m == <<mint_0, mint_1>>
<1>1. /\ m \in OrderedPairs /\ m[1] = mint_0 /\ m[2] = mint_1
      /\ pool \in Wallets \/ pool = <<"pool", index, m[1], m[2]>>
      /\ DOMAIN new \subseteq Addresses /\ pool \in DOMAIN new
      /\ \A a \in DOMAIN new : Unused(a) /\ a # w
      /\ Wallet(creator)
      /\ fee \in Nat /\ left \in Nat
  BY InitializeFound DEF Initialize
<1>2. w \in Addresses /\ w \in PoolAddresses /\ r \in PoolAddresses
  BY AddressesKnown
<1>3. /\ account' = [a \in Addresses |-> account'[a]]
      /\ \A a \in DOMAIN new : account'[a] = Created(a, new[a].owner, new[a].data)
      /\ account'[w] = [account[w] EXCEPT !.lamports = left]
      /\ fee # 0 =>
             /\ sync_native_accepts(r)
             /\ r \notin DOMAIN new \cup {w}
             /\ account'[r] = [ lamports |-> lamports, owner |-> "token",
                                data |-> WrappedSol(r, lamports) ]
      /\ \A a \in Addresses \ (DOMAIN new \cup {w}) : (fee # 0 /\ a = r) \/ account'[a] = account[a]
  BY InitializeLeaves
<1>4. \A a \in DOMAIN new :
          /\ FoundAt(a, new[a].data)
          /\ new[a].owner = OwnerOf(new[a].data)
          /\ new[a].data.kind = "token" => new[a].data.wrapped = 0
          /\ a # pool => a \in AccountsOf(pool) /\ new[a].data.kind # "pool"
  <2>1. new = NewAccounts(creator, index, m[1], m[2], pool)
    BY <1>1
  <2> HIDE DEF new, m
  <2> QED
    BY <1>1, <2>1, NewAccountsFit
<1>5. /\ DOMAIN new = { lp_mint(pool), lp_token(creator, pool), observation_state(pool),
                        token_vault(pool, m[1]), token_vault(pool, m[2]), pool }
      /\ new[lp_mint(pool)].data = MintData(authority)
      /\ new[observation_state(pool)].data = ObservationData(pool)
      /\ \A i \in 1..2 : new[token_vault(pool, m[i])].data = TokenData(m[i], authority)
      /\ new[pool].data = PoolData(index, creator, m[1], m[2], pool)
  <2> HIDE DEF m
  <2> DEFINE made == NewAccounts(creator, index, m[1], m[2], pool)
  <2>1. made = new /\ m \in OrderedPairs
    BY <1>1
  <2>2. /\ DOMAIN made = { lp_mint(pool), lp_token(creator, pool), observation_state(pool),
                           token_vault(pool, m[1]), token_vault(pool, m[2]), pool }
        /\ made[lp_mint(pool)] = [ owner |-> "token", data |-> MintData(authority) ]
        /\ made[lp_token(creator, pool)] =
               [ owner |-> "token", data |-> TokenData(lp_mint(pool), wallet(creator)) ]
        /\ made[observation_state(pool)] =
               [ owner |-> "program", data |-> ObservationData(pool) ]
        /\ \A i \in 1..2 : made[token_vault(pool, m[i])] =
               [ owner |-> "token", data |-> TokenData(m[i], authority) ]
        /\ made[pool] =
               [ owner |-> "program", data |-> PoolData(index, creator, m[1], m[2], pool) ]
    BY <2>1, NewAccountsAre
  <2> HIDE DEF new, made
  <2> QED
    BY <2>1, <2>2
<1> HIDE DEF new, fee, w, r, lamports, left, m
<1>6. \A a \in Addresses : Fits(a, account[a])
  BY DEF RegistryInv, AccountsFit
<1>7. ASSUME NEW a \in DOMAIN new
      PROVE  Fits(a, account'[a]) /\ account'[a].data = new[a].data
  BY <1>1, <1>3, <1>4, <1>6, CreatedFits
<1>8. Fits(w, account'[w]) /\ account'[w].data = NoData /\ account[w].data = NoData
  <2>1. account[w].data = NoData /\ NoData.kind = "none"
    BY <1>1 DEF Wallet, Unused, NoData, w
  <2> QED
    BY <1>1, <1>2, <1>3, <1>6, <2>1, FundedFits
<1>9. ASSUME fee # 0
      PROVE  Fits(r, account'[r]) /\ account'[r].data.kind = "token" /\ account[r].data.kind = "token"
  <2> DEFINE data == WrappedSol(r, lamports)
  <2>1. account[r].data.kind = "token" /\ account[r].lamports \in Nat
        /\ account[r].lamports >= Rent["token"]
    BY <1>2, <1>3, <1>6, <1>9, AddressesKnown DEF Fits, sync_native_accepts, r
  <2>2. lamports \in Nat /\ lamports - Rent["token"] \in Nat /\ lamports >= Rent["token"]
    BY <1>1, <2>1, RegistryAssumption DEF lamports, Kinds
  <2>3. data.kind = "token" /\ data.wrapped = lamports - Rent["token"]
    BY DEF WrappedSol, TokenData
  <2>4. FoundAt(r, data)
    BY <2>2, AddressesKnown DEF FoundAt, r
  <2>5. OwnerOf(data) = "token"
    BY <2>3 DEF OwnerOf
  <2> HIDE DEF data
  <2>6. account'[r] = [ lamports |-> lamports, owner |-> "token", data |-> data ]
    BY <1>3, <1>9 DEF data
  <2>7. account'[r].lamports = lamports /\ account'[r].owner = "token" /\ account'[r].data = data
    BY <2>6
  <2> QED
    BY <2>1, <2>2, <2>3, <2>4, <2>5, <2>6, <2>7 DEF Fits
<1>10. \A a \in Addresses : Fits(a, account'[a])
  BY <1>3, <1>6, <1>7, <1>8, <1>9
<1>11. AccountsFit'
  BY <1>3, <1>10 DEF AccountsFit
<1>12. ASSUME NEW a \in Addresses, a \notin DOMAIN new
       PROVE  \/ account'[a].data = account[a].data
              \/ a \in PoolAddresses /\ ~IsPool(a) /\ ~IsPool(a)'
  BY <1>2, <1>3, <1>8, <1>9, <1>12 DEF IsPool, NoData
<1>13. IsPool(pool)' /\ account'[pool].data = PoolData(index, creator, m[1], m[2], pool)
  BY <1>1, <1>5, <1>7 DEF IsPool, PoolData
<1>14. ~IsPool(pool)
  BY <1>1 DEF IsPool, Unused, NoData
<1>15. ASSUME NEW p \in PoolAddresses \ {pool}
       PROVE  /\ IsPool(p)' <=> IsPool(p)
              /\ IsPool(p) => account'[p].data = account[p].data
              /\ \A a \in AccountsOf(p) : account'[a].data = account[a].data
  <2>1. p \in Addresses /\ AccountsOf(p) \subseteq Addresses
    BY AddressesKnown
  <2>2. DOMAIN new \subseteq AccountsOf(pool) \cup {pool}
    BY <1>4
  <2>3. p \notin DOMAIN new
    BY <2>2, AccountsOfApart
  <2>4. \A a \in AccountsOf(p) : a \notin PoolAddresses /\ a \notin DOMAIN new
    BY <2>2, AccountsOfApart
  <2> QED
    BY <1>12, <2>1, <2>3, <2>4 DEF IsPool
<1>16. Complete(pool)'
  <2> DEFINE data == account'[pool].data
  <2>1. /\ data.token_mint = <<m[1], m[2]>>
        /\ data.token_vault = <<token_vault(pool, m[1]), token_vault(pool, m[2])>>
    BY <1>13 DEF PoolData
  <2>2. \A i \in 1..2 : data.token_mint[i] = m[i] /\ data.token_vault[i] = token_vault(pool, m[i])
    BY <2>1
  <2>3. \A i \in 1..2 : token_vault(pool, m[i]) \in DOMAIN new
    BY <1>5
  <2>4. \A i \in 1..2 : account'[token_vault(pool, m[i])].data = TokenData(m[i], authority)
    BY <1>5, <1>7, <2>3
  <2>5. /\ account'[lp_mint(pool)].data = MintData(authority)
        /\ account'[observation_state(pool)].data = ObservationData(pool)
    BY <1>5, <1>7
  <2> QED
    BY <2>2, <2>4, <2>5 DEF Complete
<1>17. ASSUME NEW p \in PoolAddresses, IsPool(p)'
       PROVE  Complete(p)'
  <2>1. CASE p = pool
    BY <1>16, <2>1
  <2>2. CASE p # pool
    <3>1. IsPool(p) /\ account'[p].data = account[p].data
      BY <1>15, <1>17, <2>2
    <3> QED
      BY <1>15, <2>2, <3>1, CompleteStays
  <2> QED
    BY <2>1, <2>2
<1>18. ASSUME NEW p \in PoolAddresses, ~IsPool(p)'
       PROVE  \A a \in AccountsOf(p) : account'[a].data = NoData
  BY <1>13, <1>15, <1>18 DEF RegistryInv, NothingBeforePool
<1>19. RegistryInv'
  BY <1>11, <1>17, <1>18 DEF RegistryInv, PoolsComplete, NothingBeforePool
<1> QED
  BY <1>13, <1>15, <1>19 DEF PoolData

LEMMA StepInv == RegistryInv /\ [Next]_account => RegistryInv'
<1> SUFFICES ASSUME RegistryInv, [Next]_account
             PROVE  RegistryInv'
  OBVIOUS
<1>1. ASSUME NEW owner \in Keys, NEW index \in Configs, NEW fee \in CreatePoolFees,
             create_amm_config(owner, index, fee)
      PROVE  RegistryInv'
  BY <1>1, CreateConfigInv
<1>2. ASSUME NEW owner \in Keys, NEW index \in Configs, NEW param \in {5, 6},
             NEW value \in CreatePoolFees, update_amm_config(owner, index, param, value)
      PROVE  RegistryInv'
  BY <1>2, UpdateConfigInv
<1>3. ASSUME NEW creator \in Keys, NEW index \in Configs, NEW mint_0 \in Mints,
             NEW mint_1 \in Mints, NEW pool \in PoolAddresses, NEW signers \in SUBSET Keys,
             Initialize(creator, index, mint_0, mint_1, pool, signers)
      PROVE  RegistryInv'
  BY <1>3, InitializeInv
<1>4. ASSUME NEW from \in Donors, NEW to \in DonationTargets, NEW lamports \in Donations,
             SendLamports(from, to, lamports)
      PROVE  RegistryInv'
  BY <1>4, SendLamportsInv, RegistryAssumption
<1>5. ASSUME NEW key \in Keys, WrapSol(key)
      PROVE  RegistryInv'
  BY <1>5, WrapSolInv
<1>6. CASE UNCHANGED account
  BY <1>6 DEF RegistryInv, AccountsFit, PoolsComplete, Complete, NothingBeforePool, IsPool
<1> QED
  BY <1>1, <1>2, <1>3, <1>4, <1>5, <1>6 DEF Next

\* The invariant holds from the beginning on.
LEMMA InvAlways == Spec => []RegistryInv
  BY InitialInv, StepInv, PTL DEF Spec

----------------------------------------------------------------------------
(***************************************************************************)
(* What follows.                                                           *)
(***************************************************************************)
\* Whatever was sent to an address before, its account has a known kind, its owner and
\* its rent, and a pool has its mints in order.
THEOREM AccountsTyped == Spec => []TypeOK
<1>1. RegistryInv => TypeOK
  <2> SUFFICES ASSUME RegistryInv
               PROVE  TypeOK
    OBVIOUS
  <2>1. DOMAIN account = Addresses
    BY DEF RegistryInv, AccountsFit
  <2>2. ASSUME NEW a \in Addresses
        PROVE  LET acc == account[a]
               IN  /\ acc.lamports \in Nat
                   /\ acc.data.kind \in Kinds
                   /\ acc.owner = CASE acc.data.kind = "none" -> "system"
                                    [] acc.data.kind \in {"mint", "token"} -> "token"
                                    [] OTHER -> "program"
                   /\ acc.data.kind # "none" => acc.lamports >= Rent[acc.data.kind]
                   /\ IsPool(a) => acc.data.token_mint[1] < acc.data.token_mint[2]
    <3> DEFINE acc == account[a]
    <3>1. Fits(a, acc)
      BY DEF RegistryInv, AccountsFit
    <3>2. acc.data.kind \in Kinds
      BY <3>1, FoundKinds DEF Fits
    <3>3. acc.owner = OwnerOf(acc.data)
      BY <3>1 DEF Fits
    <3>4. acc.owner = CASE acc.data.kind = "none" -> "system"
                        [] acc.data.kind \in {"mint", "token"} -> "token"
                        [] OTHER -> "program"
      BY <3>3 DEF OwnerOf
    <3>5. IsPool(a) => acc.data.token_mint[1] < acc.data.token_mint[2]
      <4> SUFFICES ASSUME IsPool(a)
                   PROVE  acc.data.token_mint[1] < acc.data.token_mint[2]
        OBVIOUS
      <4>1. PICK index \in Configs, creator \in Keys, m \in OrderedPairs :
                acc.data = PoolData(index, creator, m[1], m[2], a)
        BY <3>1, FoundPool DEF IsPool, Fits
      <4>2. acc.data.token_mint = <<m[1], m[2]>>
        BY <4>1 DEF PoolData
      <4>3. m[1] < m[2]
        BY DEF OrderedPairs
      <4> QED
        BY <4>2, <4>3
    <3> QED
      BY <3>1, <3>2, <3>4, <3>5 DEF Fits
  <2> QED
    BY <2>1, <2>2 DEF TypeOK
<1> QED
  BY <1>1, InvAlways, PTL

\* No number of pools, at addresses of seeds or of keys, makes two of them share a
\* vault, an LP mint or an oracle, or gives one the vaults of other mints.
THEOREM PoolsAlwaysOwnTheirAccounts == Spec => []PoolsOwnTheirAccounts
<1>1. RegistryInv => PoolsOwnTheirAccounts
  <2> SUFFICES ASSUME RegistryInv
               PROVE  PoolsOwnTheirAccounts
    OBVIOUS
  <2> DEFINE Named(p) == { account[p].data.token_vault[1], account[p].data.token_vault[2],
                           account[p].data.lp_mint, account[p].data.observation_key }
  <2>1. ASSUME NEW p \in PoolAddresses, IsPool(p)
        PROVE  /\ \A i \in 1..2 : account[account[p].data.token_vault[i]].data
                                      = TokenData(account[p].data.token_mint[i], authority)
               /\ account[account[p].data.lp_mint].data = MintData(authority)
               /\ account[account[p].data.observation_key].data = ObservationData(p)
               /\ Named(p) \subseteq AccountsOf(p)
    <3>1. Complete(p)
      BY <2>1 DEF RegistryInv, PoolsComplete
    <3>2. PICK m \in OrderedPairs :
              /\ account[p].data.token_vault = <<token_vault(p, m[1]), token_vault(p, m[2])>>
              /\ account[p].data.lp_mint = lp_mint(p)
              /\ account[p].data.observation_key = observation_state(p)
      BY <2>1, PoolNames DEF RegistryInv
    <3>3. Named(p) \subseteq AccountsOf(p)
      BY <3>2 DEF AccountsOf, OrderedPairs
    <3> QED
      BY <3>1, <3>2, <3>3 DEF Complete
  <2>2. ASSUME NEW p \in PoolAddresses, NEW q \in PoolAddresses \ {p}
        PROVE  AccountsOf(p) \cap AccountsOf(q) = {}
    BY AccountsOfApart
  <2>3. ASSUME NEW p \in PoolAddresses, IsPool(p), NEW q \in PoolAddresses \ {p}, IsPool(q)
        PROVE  Named(p) \cap Named(q) = {}
    BY <2>1, <2>2, <2>3
  <2> HIDE DEF Named
  <2> QED
    BY <2>1, <2>3 DEF PoolsOwnTheirAccounts, Named
<1> QED
  BY <1>1, InvAlways, PTL

\* The address of some seeds has the pool of those seeds or none.
THEOREM SeedsAlwaysFindTheirPool == Spec => []SeedsFindTheirPool
<1>1. RegistryInv => SeedsFindTheirPool
  <2> SUFFICES ASSUME RegistryInv, NEW index \in Configs, NEW m \in OrderedPairs,
                      account[<<"pool", index, m[1], m[2]>>].data.kind = "pool"
               PROVE  LET data == account[<<"pool", index, m[1], m[2]>>].data
                      IN  data.amm_config = amm_config(index) /\ data.token_mint = m
    BY DEF SeedsFindTheirPool
  <2> DEFINE p == <<"pool", index, m[1], m[2]>>
  <2>1. p \in PoolAddresses /\ IsPool(p) /\ p \notin Wallets
    BY AddressesKnown, WalletsApart DEF IsPool
  <2>2. PICK i \in Configs, n \in OrderedPairs :
            /\ p = <<"pool", i, n[1], n[2]>>
            /\ account[p].data.amm_config = amm_config(i)
            /\ account[p].data.token_mint = <<n[1], n[2]>>
    BY <2>1, PoolNames DEF RegistryInv
  <2>3. i = index /\ n[1] = m[1] /\ n[2] = m[2]
    BY <2>2
  <2>4. m = <<m[1], m[2]>>
    BY DEF OrderedPairs
  <2> QED
    BY <2>2, <2>3, <2>4
<1> QED
  BY <1>1, InvAlways, PTL

\* Whatever lamports were sent ahead, and wherever other pools are, whoever can pay
\* creates the pool at the address of its seeds.
THEOREM CreationIsNeverBlocked == Spec => []CreationNeverBlocked
<1>1. RegistryInv => CreationNeverBlocked
  <2> DEFINE most == Rent["mint"] + Rent["observation"] + Rent["pool"] + 3 * Rent["token"]
  <2> SUFFICES ASSUME RegistryInv, NEW creator \in Keys, NEW index \in Configs,
                      NEW mint_0 \in SupportedMints, NEW mint_1 \in SupportedMints,
                      Wallet(creator),
                      IsConfig(amm_config(index)),
                      ~account[amm_config(index)].data.disable_create_pool,
                      mint_0 < mint_1,
                      ~IsPool(<<"pool", index, mint_0, mint_1>>),
                      account[wallet(creator)].lamports >= most + creation_fee(index)
               PROVE  CanInitialize(creator, index, mint_0, mint_1,
                                    <<"pool", index, mint_0, mint_1>>, {creator})
    BY DEF CreationNeverBlocked
  <2> DEFINE pool == <<"pool", index, mint_0, mint_1>>
             m == <<mint_0, mint_1>>
             new == NewAccounts(creator, index, mint_0, mint_1, pool)
  <2>1. mint_0 \in Mints /\ mint_1 \in Mints
    BY RegistryAssumption
  <2>2. m \in OrderedPairs /\ m[1] = mint_0 /\ m[2] = mint_1
    BY <2>1 DEF OrderedPairs
  <2>3. pool \in PoolAddresses /\ pool \notin Wallets
    <3>1. <<"pool", index, m[1], m[2]>> \in PoolAddresses
      BY <2>2, AddressesKnown
    <3> QED
      BY <2>2, <3>1, WalletsApart
  <2> HIDE DEF pool
  <2>4. DOMAIN new = { lp_mint(pool), lp_token(creator, pool), observation_state(pool),
                       token_vault(pool, mint_0), token_vault(pool, mint_1), pool }
    BY DEF NewAccounts
  <2>5. DOMAIN new \ {pool} \subseteq AccountsOf(pool)
    BY <2>1, <2>3, <2>4, AddressesKnown
  <2>6. \A a \in Addresses : Fits(a, account[a])
    BY DEF RegistryInv, AccountsFit
  <2>7. ~IsPool(pool)
    BY DEF pool
  <2>8. ASSUME NEW a \in AccountsOf(pool)
        PROVE  create_or_allocate_accepts(a, TRUE)
    <3>1. account[a].data = NoData
      BY <2>3, <2>7 DEF RegistryInv, NothingBeforePool
    <3>2. a \in Addresses
      BY <2>3, AddressesKnown
    <3>3. Unused(a)
      BY <2>6, <3>1, <3>2, NothingIsSystems DEF Unused, Fits
    <3> QED
      BY <3>3 DEF create_or_allocate_accepts, create_account_accepts, allocate_and_assign_accept
  <2>9. CanCreatePool(pool, PoolSigned(pool, index, mint_0, mint_1, {creator}))
    <3>1. PoolSigned(pool, index, mint_0, mint_1, {creator})
      BY DEF PoolSigned, pool_pda, pool
    <3>2. Fits(pool, account[pool]) /\ account[pool].data.kind # "pool"
      BY <2>3, <2>6, <2>7, AddressesKnown DEF IsPool
    <3>3. account[pool].data = NoData
      BY <2>3, <3>2, FoundAtPool DEF Fits
    <3>4. Unused(pool)
      BY <3>2, <3>3, NothingIsSystems DEF Unused, Fits
    <3> QED
      BY <3>1, <3>4 DEF CanCreatePool, create_or_allocate_accepts, create_account_accepts,
                        allocate_and_assign_accept, Unused
  <2>10. RentOf(creator, pool, mint_0, mint_1) + creation_fee(index)
            <= account[wallet(creator)].lamports
    <3>1. /\ RentOf(creator, pool, mint_0, mint_1) \in Nat
          /\ RentOf(creator, pool, mint_0, mint_1) <= most
      BY <2>1, <2>3, RentOfPool DEF RegistryInv
    <3>2. creation_fee(index) \in Nat
      BY CreationFee DEF RegistryInv
    <3>3. account[wallet(creator)].lamports \in Nat
      BY <2>6, AddressesKnown DEF Fits
    <3>4. most \in Nat
      BY RegistryAssumption DEF Kinds
    <3> HIDE DEF most
    <3> QED
      BY <3>1, <3>2, <3>3, <3>4
  <2>11. pool # wallet(creator)
    BY <2>3, AddressesKnown
  <2> HIDE DEF new
  <2> QED
    BY <2>5, <2>8, <2>9, <2>10, <2>11 DEF CanInitialize, new, pool
<1> QED
  BY <1>1, InvAlways, PTL

\* Every creation fee, of any size and to a receiver with any balance, can be spent by
\* its receiver as wrapped SOL.
THEOREM FeesAlwaysArriveWrapped == Spec => FeesArriveWrapped
<1> DEFINE FeeArrives(p) ==
             LET fee == account[account'[p].data.amm_config].data.create_pool_fee
             IN  fee # 0 => account'[create_pool_fee].data.wrapped
                               >= account[create_pool_fee].data.wrapped + fee
           FeesArrive == \A p \in PoolAddresses : ~IsPool(p) /\ IsPool(p)' => FeeArrives(p)
<1>1. ASSUME RegistryInv, NEW creator \in Keys, NEW index \in Configs, NEW mint_0 \in Mints,
             NEW mint_1 \in Mints, NEW pool \in PoolAddresses, NEW signers \in SUBSET Keys,
             Initialize(creator, index, mint_0, mint_1, pool, signers)
      PROVE  FeesArrive
  <2>1. /\ account'[pool].data.amm_config = amm_config(index)
        /\ \A p \in PoolAddresses : IsPool(p)' <=> IsPool(p) \/ p = pool
    BY <1>1, InitializeInv
  <2>2. FeeArrives(pool)
    <3> DEFINE fee == creation_fee(index)
               r == create_pool_fee
               lamports == account[r].lamports + fee
    <3>1. account[account'[pool].data.amm_config].data.create_pool_fee = fee
      BY <2>1 DEF creation_fee
    <3>2. fee \in Nat
      BY <1>1, InitializeFound DEF Initialize
    <3>3. fee # 0 => /\ sync_native_accepts(r)
                     /\ account'[r] = [ lamports |-> lamports, owner |-> "token",
                                        data |-> WrappedSol(r, lamports) ]
      BY <1>1, InitializeLeaves
    <3>4. fee # 0 => /\ account[r].lamports \in Nat /\ account[r].data.wrapped \in Nat
                     /\ account[r].data.wrapped <= account[r].lamports - Rent["token"]
      BY <1>1, <3>3, ReceiverWraps
    <3>5. WrappedSol(r, lamports).wrapped = lamports - Rent["token"]
      BY DEF WrappedSol, TokenData
    <3>6. fee # 0 => account'[r].data.wrapped = lamports - Rent["token"]
      BY <3>3, <3>5
    <3>7. Rent["token"] \in Nat
      BY RegistryAssumption DEF Kinds
    <3>8. fee # 0 => account'[r].data.wrapped >= account[r].data.wrapped + fee
      BY <3>2, <3>4, <3>6, <3>7
    <3> QED
      BY <3>1, <3>8
  <2> HIDE DEF FeeArrives
  <2> QED
    BY <2>1, <2>2
<1>2. ASSUME \A p \in PoolAddresses : IsPool(p)' <=> IsPool(p)
      PROVE  FeesArrive
  BY <1>2
<1> HIDE DEF FeesArrive
<1>3. RegistryInv /\ [Next]_account => FeesArrive
  <2> SUFFICES ASSUME RegistryInv, [Next]_account
               PROVE  FeesArrive
    OBVIOUS
  <2>1. ASSUME NEW owner \in Keys, NEW index \in Configs, NEW fee \in CreatePoolFees,
               create_amm_config(owner, index, fee)
        PROVE  FeesArrive
    BY <1>2, <2>1, CreateConfigInv
  <2>2. ASSUME NEW owner \in Keys, NEW index \in Configs, NEW param \in {5, 6},
               NEW value \in CreatePoolFees, update_amm_config(owner, index, param, value)
        PROVE  FeesArrive
    BY <1>2, <2>2, UpdateConfigInv
  <2>3. ASSUME NEW creator \in Keys, NEW index \in Configs, NEW mint_0 \in Mints,
               NEW mint_1 \in Mints, NEW pool \in PoolAddresses, NEW signers \in SUBSET Keys,
               Initialize(creator, index, mint_0, mint_1, pool, signers)
        PROVE  FeesArrive
    BY <1>1, <2>3
  <2>4. ASSUME NEW from \in Donors, NEW to \in DonationTargets, NEW lamports \in Donations,
               SendLamports(from, to, lamports)
        PROVE  FeesArrive
    BY <1>2, <2>4, SendLamportsInv, RegistryAssumption
  <2>5. ASSUME NEW key \in Keys, WrapSol(key)
        PROVE  FeesArrive
    BY <1>2, <2>5, WrapSolInv
  <2>6. CASE UNCHANGED account
    BY <1>2, <2>6 DEF IsPool
  <2> QED
    BY <2>1, <2>2, <2>3, <2>4, <2>5, <2>6 DEF Next
<1>4. FeesArrive => \A p \in PoolAddresses : ~IsPool(p) /\ IsPool(p)' =>
              LET fee == account[account'[p].data.amm_config].data.create_pool_fee
              IN  fee # 0 => account'[create_pool_fee].data.wrapped
                                >= account[create_pool_fee].data.wrapped + fee
  BY DEF FeesArrive
<1> QED
  BY <1>3, <1>4, InvAlways, PTL DEF Spec, FeesArriveWrapped

----------------------------------------------------------------------------
(***************************************************************************)
(* The mints a pool is created for.                                        *)
(***************************************************************************)
\* A mint gets late what the program could not see, and only that.
MintInv ==
    /\ mint \in [ program: {"Token", "Token2022"}, whitelisted: BOOLEAN,
                  extensions: SUBSET ExtensionType, initialized: BOOLEAN ]
    /\ mint.program = "Token" => mint.extensions = {}
    /\ has_pool => mint.initialized
    /\ has_pool /\ ~mint.whitelisted =>
          \A e \in mint.extensions : extension_allowed(e) \/ e \in LateExtensions

\* The discriminant that is_supported_mint takes for a hook's is another extension's.
LEMMA OutOfReachAllowed ==
    ASSUME NEW e \in { "PermanentDelegate", "NonTransferable", "ConfidentialTransferMint",
                       "ConfidentialTransferFeeConfig" }
    PROVE  ~extension_allowed(e) /\ e \notin LateExtensions
<1>1. discriminant[e] # EXTENSION_TYPE_TRANSFER_HOOK
  BY DEF discriminant, EXTENSION_TYPE_TRANSFER_HOOK
<1> QED
  BY <1>1 DEF extension_allowed, LateExtensions

LEMMA MintInvStep ==
    ASSUME MintInv, [MintNext]_mint_vars
    PROVE  MintInv'
<1> USE DEF MintInv
<1>1. ASSUME NEW e \in ExtensionType, AddExtension(e)
      PROVE  MintInv'
  <2>1. has_pool => e \in LateExtensions
    BY <1>1 DEF AddExtension
  <2>2. /\ mint' = [mint EXCEPT !.extensions = mint.extensions \cup {e}]
        /\ mint.program = "Token2022" /\ UNCHANGED has_pool
    BY <1>1 DEF AddExtension
  <2>3. /\ mint'.extensions = mint.extensions \cup {e}
        /\ mint'.program = mint.program
        /\ mint'.whitelisted = mint.whitelisted
        /\ mint'.initialized = mint.initialized
        /\ mint' \in [ program: {"Token", "Token2022"}, whitelisted: BOOLEAN,
                       extensions: SUBSET ExtensionType, initialized: BOOLEAN ]
    BY <2>2
  <2> QED
    BY <2>1, <2>2, <2>3
<1>2. CASE InitializeMint
  BY <1>2 DEF InitializeMint
<1>3. CASE CreatePool
  BY <1>3 DEF CreatePool, is_supported_mint
<1>4. CASE UNCHANGED mint_vars
  BY <1>4 DEF mint_vars
<1> QED
  BY <1>1, <1>2, <1>3, <1>4 DEF MintNext

\* For mints with any number of extensions, and whatever they get later.
THEOREM VaultsAlwaysOutOfReach == MintSpec => []VaultsOutOfReach
<1>1. MintInit => MintInv
  BY DEF MintInit, MintInv
<1>2. MintInv /\ [MintNext]_mint_vars => MintInv'
  BY MintInvStep
<1>3. MintInv => VaultsOutOfReach
  BY OutOfReachAllowed DEF MintInv, VaultsOutOfReach
<1> QED
  BY <1>1, <1>2, <1>3, PTL DEF MintSpec
=============================================================================
