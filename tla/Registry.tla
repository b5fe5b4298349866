------------------------------ MODULE Registry ------------------------------
(***************************************************************************)
(* Which account lies at which address: how create_amm_config and          *)
(* initialize create the accounts of configs and pools (anchor's init      *)
(* constraints, create_pool, create_token_account and                      *)
(* create_or_allocate_account), pay for them and charge the creation fee,  *)
(* while others send lamports to addresses that are not in use yet.        *)
(*                                                                         *)
(* An address that is derived from seeds is the tuple of its seeds: no two *)
(* lists of seeds have the same address and nobody holds a key to it.      *)
(* What a pool does with its tokens is module Pool.                        *)
(***************************************************************************)
EXTENDS Integers, FiniteSetsExt

CONSTANTS
    Keys,                \* key pairs that can sign
    Admin,               \* the key admin::ID
    Configs,             \* indices of configs
    Mints,               \* mints, ordered like their addresses
    SupportedMints,      \* those is_supported_mint accepts
    CreatePoolFees,      \* pool creation fees the admin sets
    Rent,                \* lamports an account must hold, by the kind of its data
    Wealth,              \* lamports each key starts with
    Donors, Donations,   \* who sends lamports ahead, and how many
    DonationTargets      \* addresses they are sent to

Kinds == {"none", "amm_config", "pool", "observation", "mint", "token"}

ASSUME RegistryAssumption ==
    /\ Admin \in Keys
    /\ Mints \subseteq Nat
    /\ SupportedMints \subseteq Mints
    /\ CreatePoolFees \subseteq Nat
    /\ Rent \in [Kinds -> Nat \ {0}]
    /\ Wealth \in [Keys -> Nat]
    /\ Donors \subseteq Keys
    /\ Donations \subseteq Nat

VARIABLE account         \* lamports, owner and data at every address

----------------------------------------------------------------------------
(***************************************************************************)
(* Addresses.                                                              *)
(***************************************************************************)
wallet(key)              == <<"key", key>>
authority                == <<"vault_and_lp_mint_auth_seed">>
amm_config(index)        == <<"amm_config", index>>
token_vault(pool, mint)  == <<"pool_vault", pool, mint>>
lp_mint(pool)            == <<"pool_lp_mint", pool>>
observation_state(pool)  == <<"observation", pool>>
lp_token(creator, pool)  == <<"associated_token", wallet(creator), lp_mint(pool)>>

\* MUTANT of pool_pda: one pool per pair of mints, whatever its config.
pool_pda_without_config(index, mint_0, mint_1) ==
    <<"pool", CHOOSE c \in Configs : TRUE, mint_0, mint_1>>

pool_pda(index, mint_0, mint_1) == <<"pool", index, mint_0, mint_1>>

\* create_pool_fee_reveiver::ID is the same key as admin::ID.
create_pool_fee == wallet(Admin)

OrderedPairs == { m \in Mints \X Mints : m[1] < m[2] }

PoolAddresses ==
    { wallet(k) : k \in Keys }
        \cup { <<"pool", c, m[1], m[2]>> : c \in Configs, m \in OrderedPairs }

Addresses ==
    PoolAddresses \cup { amm_config(c) : c \in Configs }
        \cup { token_vault(p, m) : p \in PoolAddresses, m \in Mints }
        \cup { lp_mint(p) : p \in PoolAddresses }
        \cup { observation_state(p) : p \in PoolAddresses }
        \cup { lp_token(k, p) : k \in Keys, p \in PoolAddresses }

(***************************************************************************)
(* Accounts.                                                               *)
(***************************************************************************)
NoData == [ kind |-> "none" ]

ConfigData(fee, disabled) ==
    [ kind |-> "amm_config", create_pool_fee |-> fee, disable_create_pool |-> disabled ]

MintData(mint_authority) == [ kind |-> "mint", mint_authority |-> mint_authority ]

\* wrapped counts lamports for an account of the native mint "SOL".
TokenData(mint, owner) == [ kind |-> "token", mint |-> mint, owner |-> owner, wrapped |-> 0 ]

WrappedSol(owner, lamports) ==
    [TokenData("SOL", owner) EXCEPT !.wrapped = lamports - Rent["token"]]

ObservationData(pool) == [ kind |-> "observation", pool_id |-> pool ]

\* MUTANT of PoolData: the vaults are stored in the other order.
PoolDataSwapped(index, creator, mint_0, mint_1, pool) ==
    [ kind |-> "pool", amm_config |-> amm_config(index), pool_creator |-> creator,
      token_mint |-> <<mint_0, mint_1>>,
      token_vault |-> <<token_vault(pool, mint_1), token_vault(pool, mint_0)>>,
      lp_mint |-> lp_mint(pool), observation_key |-> observation_state(pool) ]

\* PoolState::initialize, as far as it names other accounts.
PoolData(index, creator, mint_0, mint_1, pool) ==
    [ kind |-> "pool", amm_config |-> amm_config(index), pool_creator |-> creator,
      token_mint |-> <<mint_0, mint_1>>,
      token_vault |-> <<token_vault(pool, mint_0), token_vault(pool, mint_1)>>,
      lp_mint |-> lp_mint(pool), observation_key |-> observation_state(pool) ]

Unused(a) == account[a].owner = "system" /\ account[a].data = NoData

\* The system program moves lamports only out of accounts like these.
Wallet(key) == Unused(wallet(key))

\* The owner and the discriminator tell what an account is; load_init writes it
\* once.
IsConfig(a) == account[a].data.kind = "amm_config"
IsPool(a)   == account[a].data.kind = "pool"

----------------------------------------------------------------------------
(***************************************************************************)
(* create_or_allocate_account, and the code anchor and the associated      *)
(* token program have for the same purpose.                                *)
(***************************************************************************)
\* system_program::create_account refuses an address that holds lamports;
\* allocate and assign do not.
create_account_accepts(a) == Unused(a) /\ account[a].lamports = 0
allocate_and_assign_accept(a) == Unused(a)

\* MUTANT of create_or_allocate_accepts: lamports at the address are not expected.
create_accepts(a, signed) == signed /\ create_account_accepts(a)

\* The address must sign, with a key or with the program's seeds.
create_or_allocate_accepts(a, signed) ==
    /\ signed
    /\ IF account[a].lamports = 0 THEN create_account_accepts(a)
                                  ELSE allocate_and_assign_accept(a)

\* MUTANT of required_lamports: what lies at the address is taken to be enough.
nothing_if_funded(a, kind) == IF account[a].lamports = 0 THEN Rent[kind] ELSE 0

\* rent.minimum_balance(space).max(1).saturating_sub(current_lamports).
required_lamports(a, kind) == Max({0, Rent[kind] - account[a].lamports})

\* What an account is after it was created with this owner and this data.
Created(a, owner, data) ==
    [ lamports |-> account[a].lamports + required_lamports(a, data.kind),
      owner    |-> owner,
      data     |-> data ]

----------------------------------------------------------------------------
CanCreateConfig(owner, index) ==
    /\ owner = Admin
    /\ Wallet(owner)
    /\ create_or_allocate_accepts(amm_config(index), TRUE)
    /\ required_lamports(amm_config(index), "amm_config") <= account[wallet(owner)].lamports

create_amm_config(owner, index, fee) ==
    /\ CanCreateConfig(owner, index)
    /\ account' = [account EXCEPT
            ![amm_config(index)] = Created(amm_config(index), "program", ConfigData(fee, FALSE)),
            ![wallet(owner)].lamports = @ - required_lamports(amm_config(index), "amm_config")]

\* Params 5 and 6; the others are in module AmmConfig.
update_amm_config(owner, index, param, value) ==
    /\ owner = Admin
    /\ IsConfig(amm_config(index))
    /\ \/ /\ param = 5
          /\ account' = [account EXCEPT ![amm_config(index)].data.create_pool_fee = value]
       \/ /\ param = 6
          /\ account' = [account EXCEPT ![amm_config(index)].data.disable_create_pool = (value # 0)]

----------------------------------------------------------------------------
\* Everything initialize creates, by address: by anchor (init), by
\* create_token_account and by create_pool.
NewAccounts(creator, index, mint_0, mint_1, pool) ==
    LET New(owner, data) == [ owner |-> owner, data |-> data ]
    IN  [ a \in { lp_mint(pool), lp_token(creator, pool), observation_state(pool),
                  token_vault(pool, mint_0), token_vault(pool, mint_1), pool } |->
            CASE a = lp_mint(pool) -> New("token", MintData(authority))
              [] a = lp_token(creator, pool) ->
                     New("token", TokenData(lp_mint(pool), wallet(creator)))
              [] a = observation_state(pool) -> New("program", ObservationData(pool))
              [] a = token_vault(pool, mint_0) -> New("token", TokenData(mint_0, authority))
              [] a = token_vault(pool, mint_1) -> New("token", TokenData(mint_1, authority))
              [] a = pool -> New("program", PoolData(index, creator, mint_0, mint_1, pool)) ]

creation_fee(index) == account[amm_config(index)].data.create_pool_fee

\* What the creator pays for all of them.
RentOf(creator, pool, mint_0, mint_1) ==
    required_lamports(lp_mint(pool), "mint")
      + required_lamports(lp_token(creator, pool), "token")
      + required_lamports(observation_state(pool), "observation")
      + required_lamports(token_vault(pool, mint_0), "token")
      + required_lamports(token_vault(pool, mint_1), "token")
      + required_lamports(pool, "pool")

\* spl_token's sync_native takes only an account of the native mint.
sync_native_accepts(a) ==
    account[a].data.kind = "token" /\ account[a].data.mint = "SOL"

\* MUTANT of PayCreationFee: the receiver is not told of its lamports.
pay_without_sync(fee) == [account EXCEPT ![create_pool_fee].lamports = @ + fee]

PayCreationFee(fee) ==
    LET lamports == account[create_pool_fee].lamports + fee
    IN  [account EXCEPT
            ![create_pool_fee].lamports = lamports,
            ![create_pool_fee].data.wrapped = lamports - Rent["token"]]

\* create_pool: the pool's address is the one its seeds give, or one that signs.
PoolSigned(pool, index, mint_0, mint_1, signers) ==
    \/ pool = pool_pda(index, mint_0, mint_1)
    \/ pool \in { wallet(k) : k \in signers }

CanCreatePool(pool, signed) ==
    /\ account[pool].owner = "system"
    /\ create_or_allocate_accepts(pool, signed)

\* Every check on the way to a new pool but the one of the fee receiver.  The
\* creator's own account cannot become the pool: it stays borrowed while the
\* creator's tokens are to be moved.
CanInitialize(creator, index, mint_0, mint_1, pool, signers) ==
    LET new == NewAccounts(creator, index, mint_0, mint_1, pool)
    IN  /\ creator \in signers
        /\ Wallet(creator)
        /\ pool # wallet(creator)
        /\ IsConfig(amm_config(index))
        /\ mint_0 < mint_1
        /\ {mint_0, mint_1} \subseteq SupportedMints
        /\ ~account[amm_config(index)].data.disable_create_pool
        /\ CanCreatePool(pool, PoolSigned(pool, index, mint_0, mint_1, signers))
        /\ \A a \in DOMAIN new \ {pool} : create_or_allocate_accepts(a, TRUE)
        /\ RentOf(creator, pool, mint_0, mint_1) + creation_fee(index)
              <= account[wallet(creator)].lamports

Initialize(creator, index, mint_0, mint_1, pool, signers) ==
    LET new == NewAccounts(creator, index, mint_0, mint_1, pool)
        fee == creation_fee(index)
        left == account[wallet(creator)].lamports
                  - RentOf(creator, pool, mint_0, mint_1) - fee
        charged == IF fee = 0 THEN account ELSE PayCreationFee(fee)
        paid == [charged EXCEPT ![wallet(creator)].lamports = left]
    IN  /\ CanInitialize(creator, index, mint_0, mint_1, pool, signers)
        /\ fee # 0 => sync_native_accepts(create_pool_fee)
        /\ account' = [a \in Addresses |-> IF a \in DOMAIN new
                                            THEN Created(a, new[a].owner, new[a].data)
                                            ELSE paid[a]]

----------------------------------------------------------------------------
(***************************************************************************)
(* What others do.                                                         *)
(***************************************************************************)
\* Anybody may send lamports to any address.
SendLamports(from, to, lamports) ==
    /\ Wallet(from)
    /\ to # wallet(from)
    /\ lamports <= account[wallet(from)].lamports
    /\ account' = [account EXCEPT ![wallet(from)].lamports = @ - lamports,
                                  ![to].lamports = @ + lamports]

\* The holder of a key turns its account into a wrapped-SOL account.
WrapSol(key) ==
    /\ Wallet(key)
    /\ account[wallet(key)].lamports >= Rent["token"]
    /\ account' = [account EXCEPT ![wallet(key)] =
            [ lamports |-> account[wallet(key)].lamports,
              owner    |-> "token",
              data     |-> WrappedSol(wallet(key), account[wallet(key)].lamports) ]]

Init ==
    account = [a \in Addresses |->
        [ lamports |-> IF \E k \in Keys : a = wallet(k) THEN Wealth[a[2]] ELSE 0,
          owner    |-> "system",
          data     |-> NoData ]]

Next ==
    \/ \E owner \in Keys, index \in Configs, fee \in CreatePoolFees :
          create_amm_config(owner, index, fee)
    \/ \E owner \in Keys, index \in Configs, param \in {5, 6}, value \in CreatePoolFees :
          update_amm_config(owner, index, param, value)
    \/ \E creator \in Keys, index \in Configs, mint_0, mint_1 \in Mints,
          pool \in PoolAddresses, signers \in SUBSET Keys :
          Initialize(creator, index, mint_0, mint_1, pool, signers)
    \/ \E from \in Donors, to \in DonationTargets, lamports \in Donations :
          SendLamports(from, to, lamports)
    \/ \E key \in Keys : WrapSol(key)

Spec == Init /\ [][Next]_account

----------------------------------------------------------------------------
\* Every account is of a kind the program and the token programs know, under
\* the right owner, with the rent its data costs, however little was at its
\* address before; a pool is for two mints in the order of their addresses.
TypeOK ==
    /\ DOMAIN account = Addresses
    /\ \A a \in Addresses :
          LET acc == account[a]
          IN  /\ acc.lamports \in Nat
              /\ acc.data.kind \in Kinds
              /\ acc.owner = CASE acc.data.kind = "none" -> "system"
                               [] acc.data.kind \in {"mint", "token"} -> "token"
                               [] OTHER -> "program"
              /\ acc.data.kind # "none" => acc.lamports >= Rent[acc.data.kind]
              /\ IsPool(a) => acc.data.token_mint[1] < acc.data.token_mint[2]

\* Lamports that somebody sent ahead never keep a pool from being created at the
\* address its seeds give, nor a pool that exists at another address: whoever can
\* pay creates it, for every config that allows it and every pair of mints in
\* order, as long as there is no pool there yet.  create_or_allocate_account
\* exists for this.  CanInitialize leaves out what sync_native asks of the receiver
\* of a creation fee: where that is no token account, a fee does block creation
\* (FeeDoesNotBlockCreation).
CreationNeverBlocked ==
    \A creator \in Keys, index \in Configs, mint_0, mint_1 \in SupportedMints :
        LET pool == <<"pool", index, mint_0, mint_1>>
            most == Rent["mint"] + Rent["observation"] + Rent["pool"] + 3 * Rent["token"]
        IN  /\ Wallet(creator)
            /\ IsConfig(amm_config(index))
            /\ ~account[amm_config(index)].data.disable_create_pool
            /\ mint_0 < mint_1
            /\ ~IsPool(pool)
            /\ account[wallet(creator)].lamports >= most + creation_fee(index)
            => CanInitialize(creator, index, mint_0, mint_1, pool, {creator})

\* A pool names two vaults of its own that hold its own mints in its own order
\* and are controlled by the program's authority, its own LP mint and its own
\* oracle; no other pool names any of them.  All pools share that authority, so
\* this is what keeps them apart.
PoolsOwnTheirAccounts ==
    LET Pools == { a \in PoolAddresses : IsPool(a) }
        Named(p) == { account[p].data.token_vault[1], account[p].data.token_vault[2],
                      account[p].data.lp_mint, account[p].data.observation_key }
    IN  \A p \in Pools :
            LET data == account[p].data
            IN  /\ \A i \in 1..2 : account[data.token_vault[i]].data
                                     = TokenData(data.token_mint[i], authority)
                /\ account[data.lp_mint].data = MintData(authority)
                /\ account[data.observation_key].data = ObservationData(p)
                /\ \A q \in Pools \ {p} : Named(p) \cap Named(q) = {}

\* Clients find a pool by the address of its seeds: what lies there is the pool
\* of that config and those mints and of no other, wherever else pools of the
\* same pair were created with a key, and whoever created them first.
SeedsFindTheirPool ==
    \A index \in Configs, m \in OrderedPairs :
        LET pool == account[<<"pool", index, m[1], m[2]>>]
        IN  pool.data.kind = "pool" =>
                /\ pool.data.amm_config = amm_config(index)
                /\ pool.data.token_mint = m

\* A pool created for a fee leaves the fee with its receiver as wrapped SOL that
\* can be spent, on top of all it had.  It is about the receiver of the documents, the
\* SOL token account that WrapSol makes of the address in lib.rs: as long as the
\* address is a plain wallet, no pool is created for a fee.
FeesArriveWrapped ==
    [][\A p \in PoolAddresses :
          ~IsPool(p) /\ IsPool(p)' =>
              LET fee == account[account'[p].data.amm_config].data.create_pool_fee
              IN  fee # 0 => account'[create_pool_fee].data.wrapped
                                >= account[create_pool_fee].data.wrapped + fee]_account

\* transfer-hook-whitelist-changes.md says create_pool_fee_reveiver is the SOL
\* token account created for the purpose, and a test creates a pool with a fee: a
\* creation fee would never keep a pool from being created.
FeeDoesNotBlockCreation ==
    \A creator \in Keys, index \in Configs, mint_0, mint_1 \in SupportedMints :
        /\ IsConfig(amm_config(index))
        /\ creation_fee(index) # 0
        /\ CanInitialize(creator, index, mint_0, mint_1,
                         pool_pda(index, mint_0, mint_1), {creator})
        => sync_native_accepts(create_pool_fee)
============================================================================
