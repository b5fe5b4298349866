--------------------------- MODULE AccountsProofs ---------------------------
(***************************************************************************)
(* Pools stay apart for any number of pools, configs, mints and accounts,  *)
(* and whichever of them a caller passes.                                  *)
(*                                                                         *)
(* Inv is inductive.  Every lemma about an instruction says that it keeps  *)
(* Inv, leaves all pools but the one it was called for untouched, and is a *)
(* transaction of PoolLedger to that one; to the others it is a gift.  The *)
(* theorems combine them.                                                  *)
(***************************************************************************)
EXTENDS Accounts, CurveProofs

Inv == TypeOK /\ LpTokensCounted

\* What an instruction on one pool leaves behind.
KeepsApart(pool) == Inv' /\ \A q \in Pools \ {pool} : Untouched(q)

\* What the holders of a pool's LP tokens have of one token.
reserve(p, s) == balance[token_vault[p][s]] - owed(p, s)

\* What it is to that pool.
KeepsItsLedger(pool) == Ledger(pool)!Next \/ UNCHANGED Ledger(pool)!ledger

\* Nothing is taken off the books of any pool.
NothingCollected ==
    \A p \in Pools, k \in Kinds, s \in Sides : fees'[p][k][s] >= fees[p][k][s]

(***************************************************************************)
(* The token program.                                                      *)
(***************************************************************************)
\* A transfer of what is there lowers no account but its source.
LEMMA TransferType ==
    ASSUME NEW b \in [TokenAccounts -> Nat], NEW from \in TokenAccounts,
           NEW to \in TokenAccounts, NEW amount \in Nat, amount <= b[from]
    PROVE  /\ Transferred(b, from, to, amount) \in [TokenAccounts -> Nat]
           /\ \A a \in TokenAccounts \ {from} : Transferred(b, from, to, amount)[a] >= b[a]
<1>1. CASE from = to
  BY <1>1 DEF Transferred
<1>2. CASE from # to
  BY <1>2 DEF Transferred
<1> QED
  BY <1>1, <1>2

\* Two transfers from different sources lower no account but these two, take no more
\* than their amounts, and these arrive at an account that pays nothing itself.
LEMMA TwoTransfers ==
    ASSUME NEW b \in [TokenAccounts -> Nat],
           NEW from0 \in TokenAccounts, NEW to0 \in TokenAccounts, NEW amount0 \in Nat,
           NEW from1 \in TokenAccounts, NEW to1 \in TokenAccounts, NEW amount1 \in Nat,
           from0 # from1, amount0 <= b[from0], amount1 <= b[from1]
    PROVE  LET after == Transferred(Transferred(b, from0, to0, amount0), from1, to1, amount1)
           IN  /\ after \in [TokenAccounts -> Nat]
               /\ \A a \in TokenAccounts \ {from0, from1} : after[a] >= b[a]
               /\ after[from0] >= b[from0] - amount0
               /\ after[from1] >= b[from1] - amount1
               /\ from1 # to0 => after[from1] <= b[from1]
               /\ to0 \notin {from0, from1} => after[to0] >= b[to0] + amount0
               /\ to1 \notin {from0, from1} => after[to1] >= b[to1] + amount1
<1> DEFINE first == Transferred(b, from0, to0, amount0)
<1>1. /\ first \in [TokenAccounts -> Nat]
      /\ \A a \in TokenAccounts \ {from0} : first[a] >= b[a]
  BY TransferType
<1>2. /\ first[from0] >= b[from0] - amount0
      /\ to0 # from0 => first[to0] = b[to0] + amount0
      /\ from1 # to0 => first[from1] = b[from1]
  BY DEF Transferred
<1> HIDE DEF first
<1>3. amount1 <= first[from1]
  BY <1>1
<1> DEFINE after == Transferred(first, from1, to1, amount1)
<1>4. /\ after \in [TokenAccounts -> Nat]
      /\ \A a \in TokenAccounts \ {from1} : after[a] >= first[a]
  BY <1>1, <1>3, TransferType
<1>5. /\ after[from1] >= first[from1] - amount1
      /\ after[from1] <= first[from1]
      /\ to1 # from1 => after[to1] = first[to1] + amount1
  BY <1>1 DEF Transferred
<1> HIDE DEF after
<1>6. \A a \in TokenAccounts : b[a] \in Nat /\ first[a] \in Nat /\ after[a] \in Nat
  BY <1>1, <1>4
<1>7. \A a \in TokenAccounts \ {from0, from1} : after[a] >= b[a]
  BY <1>1, <1>4, <1>6
<1>8. after[from0] >= b[from0] - amount0 /\ after[from1] >= b[from1] - amount1
  BY <1>1, <1>2, <1>4, <1>5, <1>6
<1>9. from1 # to0 => after[from1] <= b[from1]
  BY <1>2, <1>5
<1>10. to0 \notin {from0, from1} => after[to0] >= b[to0] + amount0
  BY <1>2, <1>4, <1>6
<1>11. to1 \notin {from0, from1} => after[to1] >= b[to1] + amount1
  BY <1>1, <1>5, <1>6
<1> QED
  BY <1>4, <1>7, <1>8, <1>9, <1>10, <1>11 DEF after, first

\* No pool has a vault of another.
LEMMA VaultsApart ==
    ASSUME NEW p \in Pools, NEW q \in Pools \ {p}, NEW s \in Sides, NEW t \in Sides
    PROVE  token_vault[q][s] # token_vault[p][t]
  BY OwnAccountsAssumption

\* A vault's owner signs for no one else.
LEMMA VaultNotUsers ==
    ASSUME NEW p \in Pools, NEW s \in Sides, NEW key \in Keys,
           NEW a \in TokenAccounts, account_owner[a] = key
    PROVE  token_vault[p][s] \in TokenAccounts /\ token_vault[p][s] # a
  BY OwnAccountsAssumption, AccountsAssumption

(***************************************************************************)
(* The pool of an instruction.                                             *)
(***************************************************************************)
\* Every pool has LP tokens, the locked ones at least.
LEMMA PoolHasShares ==
    ASSUME Inv, NEW p \in Pools
    PROVE  lp_supply[p] \in Nat \ {0}
<1>1. lp_supply[p] \in Nat /\ mint_supply[p] \in Nat
  BY DEF Inv, TypeOK
<1>2. lp_supply[p] >= mint_supply[p] + LOCK_LP_AMOUNT
  BY DEF Inv, LpTokensCounted
<1> QED
  BY <1>1, <1>2, AccountsAssumption

\* The constraints leave one choice for the vaults and for the LP mint, and there
\* is something to divide by.
LEMMA AcceptedAccounts ==
    ASSUME Inv, NEW pool \in Pools, NEW vault \in vaults_of(pool)
    PROVE  /\ \A s \in Sides : vault[s] \in TokenAccounts /\ vault[s] = token_vault[pool][s]
           /\ vault[0] # vault[1]
           /\ account_mint[vault[0]] # account_mint[vault[1]]
           /\ \A mint \in lp_mint_of(pool) : mint = pool
           /\ lp_supply[pool] \in Nat \ {0}
<1>1. \A s \in Sides : vault[s] \in TokenAccounts /\ vault[s] = token_vault[pool][s]
  BY OwnAccountsAssumption DEF vaults_of
<1>2. account_mint[vault[0]] # account_mint[vault[1]]
  BY <1>1, OwnAccountsAssumption DEF Sides
<1>3. \A mint \in lp_mint_of(pool) : mint = pool
  BY OwnAccountsAssumption DEF lp_mint_of
<1>4. lp_supply[pool] \in Nat \ {0}
  BY PoolHasShares
<1> QED
  BY <1>1, <1>2, <1>3, <1>4

\* What a pool owes, and what its vaults hold beyond that, are amounts.
LEMMA ReserveType ==
    ASSUME Inv, NEW pool \in Pools, NEW s \in Sides, NEW vault,
           vault[s] \in TokenAccounts, covers_fees(pool, vault, s)
    PROVE  vault_amount_without_fee(pool, vault, s) \in Nat
<1>1. fees[pool]["protocol"][s] \in Nat /\ fees[pool]["fund"][s] \in Nat
  BY DEF Inv, TypeOK, Kinds
<1>2. balance[vault[s]] \in Nat
  BY DEF Inv, TypeOK
<1> QED
  BY <1>1, <1>2 DEF covers_fees, vault_amount_without_fee, owed

\* Other pools are untouched when the books of one pool change and no token account
\* but its vaults and a user's is lowered.
LEMMA OthersUntouched ==
    ASSUME Inv, NEW pool \in Pools, NEW key \in Keys,
           \A a \in TokenAccounts :
               a # token_vault[pool][0] /\ a # token_vault[pool][1] /\ account_owner[a] # key
                   => balance'[a] >= balance[a],
           \A q \in Pools \ {pool} :
               /\ mint_supply'[q] = mint_supply[q]
               /\ lp_supply'[q] = lp_supply[q]
               /\ fees'[q] = fees[q]
               /\ status'[q] = status[q]
               /\ observed'[q] = observed[q]
    PROVE  \A q \in Pools \ {pool} : Untouched(q)
<1> SUFFICES ASSUME NEW q \in Pools \ {pool}, NEW s \in Sides
             PROVE  balance'[token_vault[q][s]] >= balance[token_vault[q][s]]
  BY DEF Untouched
<1>1. /\ token_vault[q][s] \in TokenAccounts
      /\ account_owner[token_vault[q][s]] = Authority
  BY OwnAccountsAssumption
<1>2. account_owner[token_vault[q][s]] # key
  BY <1>1, AccountsAssumption
<1>3. token_vault[q][s] # token_vault[pool][0] /\ token_vault[q][s] # token_vault[pool][1]
  BY VaultsApart DEF Sides
<1> QED
  BY <1>1, <1>2, <1>3

(***************************************************************************)
(* The ledger of a pool.                                                   *)
(***************************************************************************)
\* A reserve is a difference of amounts.
LEMMA ReserveParts ==
    ASSUME Inv, NEW p \in Pools, NEW s \in Sides
    PROVE  /\ balance[token_vault[p][s]] \in Nat
           /\ fees[p]["protocol"][s] \in Nat
           /\ fees[p]["fund"][s] \in Nat
           /\ reserve(p, s) = balance[token_vault[p][s]]
                                  - (fees[p]["protocol"][s] + fees[p]["fund"][s])
           /\ reserve(p, s) \in Int
<1>1. token_vault[p][s] \in TokenAccounts
  BY OwnAccountsAssumption
<1>2. balance[token_vault[p][s]] \in Nat
  BY <1>1 DEF Inv, TypeOK
<1>3. fees[p]["protocol"][s] \in Nat /\ fees[p]["fund"][s] \in Nat
  BY DEF Inv, TypeOK, Kinds
<1> QED
  BY <1>2, <1>3 DEF reserve, owed

\* The same after a step.
LEMMA ReservePartsAfter ==
    ASSUME Inv', NEW p \in Pools, NEW s \in Sides
    PROVE  /\ balance'[token_vault[p][s]] \in Nat
           /\ fees'[p]["protocol"][s] \in Nat
           /\ fees'[p]["fund"][s] \in Nat
           /\ reserve(p, s)' = balance'[token_vault[p][s]]
                                   - (fees'[p]["protocol"][s] + fees'[p]["fund"][s])
           /\ reserve(p, s)' \in Int
<1>1. token_vault[p][s] \in TokenAccounts
  BY OwnAccountsAssumption
<1>2. balance'[token_vault[p][s]] \in Nat
  BY <1>1 DEF Inv, TypeOK
<1>3. fees'[p]["protocol"][s] \in Nat /\ fees'[p]["fund"][s] \in Nat
  BY DEF Inv, TypeOK, Kinds
<1> QED
  BY <1>2, <1>3 DEF reserve, owed

\* To a pool it was not called for an instruction is a gift, of nothing perhaps.
LEMMA UntouchedIsGift ==
    ASSUME Inv, Inv', NEW q \in Pools, Untouched(q)
    PROVE  Ledger(q)!Gift
<1>1. lp_supply[q] > 0 /\ lp_supply'[q] = lp_supply[q] /\ fees'[q] = fees[q]
  BY PoolHasShares DEF Untouched
<1>2. ASSUME NEW s \in Sides
      PROVE  reserve(q, s)' >= reserve(q, s)
  <2>1. balance'[token_vault[q][s]] >= balance[token_vault[q][s]]
    BY DEF Untouched
  <2> QED
    BY <1>1, <2>1, ReserveParts, ReservePartsAfter
<1> QED
  BY <1>1, <1>2 DEF Ledger!Gift, Ledger!ReservesKept, Ledger!Sides, Sides, reserve

(***************************************************************************)
(* The instructions.                                                       *)
(***************************************************************************)
LEMMA DepositApart ==
    ASSUME Inv, NEW owner \in Keys, NEW pool \in Pools, NEW lp_amount \in LpAmounts,
           NEW vault \in vaults_of(pool), NEW mint \in lp_mint_of(pool),
           NEW lp_token \in accounts_of(owner), NEW account \in deposit_accounts(owner, vault),
           Deposit(owner, pool, vault, mint, lp_token, account, lp_amount)
    PROVE  KeepsApart(pool) /\ Ledger(pool)!Join
<1> DEFINE amount(s) == share(pool, vault, lp_amount, "Ceiling", s)
           paid == Transferred(Transferred(balance, account[0], vault[0], amount(0)),
                               account[1], vault[1], amount(1))
<1>1. /\ \A s \in Sides : vault[s] \in TokenAccounts /\ vault[s] = token_vault[pool][s]
      /\ account_mint[vault[0]] # account_mint[vault[1]]
      /\ mint = pool
      /\ lp_supply[pool] \in Nat \ {0}
  BY AcceptedAccounts
<1>2. lp_amount \in Nat /\ lp_amount > 0
  BY AccountsAssumption DEF Deposit
<1>3. \A s \in Sides :
          /\ vault_amount_without_fee(pool, vault, s) \in Nat
          /\ amount(s) \in Nat
          /\ lp_amount * vault_amount_without_fee(pool, vault, s) <= amount(s) * lp_supply[pool]
  <2> TAKE s \in Sides
  <2>1. covers_fees(pool, vault, s)
    BY DEF Deposit
  <2>2. vault_amount_without_fee(pool, vault, s) \in Nat
    BY <1>1, <2>1, ReserveType
  <2>3. amount(s) # 0
    BY DEF Deposit
  <2> QED
    BY <1>1, <1>2, <2>2, <2>3, ShareType, CeilingShare DEF share
<1>4. \A s \in Sides :
          /\ account[s] \in TokenAccounts
          /\ account_owner[account[s]] = owner
          /\ account_mint[account[s]] = account_mint[vault[s]]
          /\ amount(s) <= balance[account[s]]
  BY DEF Deposit, deposit_accounts, Pairs, transfer_accepts
<1>5. lp_token \in TokenAccounts /\ account_owner[lp_token] = owner
  BY DEF accounts_of
<1>6. /\ balance' = [paid EXCEPT ![lp_token] = @ + lp_amount]
      /\ mint_supply' = [mint_supply EXCEPT ![pool] = @ + lp_amount]
      /\ lp_supply' = [lp_supply EXCEPT ![pool] = @ + lp_amount]
      /\ signer' = owner
      /\ UNCHANGED <<fees, status, observed>>
  BY <1>1 DEF Deposit
<1> HIDE DEF amount
<1>7. /\ paid \in [TokenAccounts -> Nat]
      /\ \A a \in TokenAccounts \ {account[0], account[1]} : paid[a] >= balance[a]
      /\ \A s \in Sides : paid[vault[s]] >= balance[vault[s]] + amount(s)
  <2>1. balance \in [TokenAccounts -> Nat]
    BY DEF Inv, TypeOK
  <2>2. account[0] # account[1]
    BY <1>1, <1>4 DEF Sides
  <2>3. 0 \in Sides /\ 1 \in Sides
    BY DEF Sides
  <2>4. vault[0] \notin {account[0], account[1]} /\ vault[1] \notin {account[0], account[1]}
    BY <1>1, <1>4, <2>3, VaultNotUsers
  <2>5. /\ paid \in [TokenAccounts -> Nat]
        /\ \A a \in TokenAccounts \ {account[0], account[1]} : paid[a] >= balance[a]
        /\ paid[vault[0]] >= balance[vault[0]] + amount(0)
        /\ paid[vault[1]] >= balance[vault[1]] + amount(1)
    BY <1>1, <1>3, <1>4, <2>1, <2>2, <2>3, <2>4, TwoTransfers
  <2> QED
    BY <2>5 DEF Sides
<1> HIDE DEF paid
<1>8. balance' \in [TokenAccounts -> Nat]
  BY <1>2, <1>5, <1>6, <1>7
<1>9. TypeOK'
  BY <1>2, <1>6, <1>8 DEF Inv, TypeOK
<1>10. LpTokensCounted'
  BY <1>2, <1>6, AccountsAssumption DEF Inv, TypeOK, LpTokensCounted
<1>11. \A a \in TokenAccounts : account_owner[a] # owner => balance'[a] >= balance[a]
  BY <1>4, <1>5, <1>6, <1>7 DEF Sides
<1>12. \A q \in Pools \ {pool} :
          /\ mint_supply'[q] = mint_supply[q]
          /\ lp_supply'[q] = lp_supply[q]
          /\ fees'[q] = fees[q]
          /\ status'[q] = status[q]
          /\ observed'[q] = observed[q]
  BY <1>6 DEF Inv, TypeOK
<1>13. \A q \in Pools \ {pool} : Untouched(q)
  BY <1>11, <1>12, OthersUntouched
<1>14. Inv'
  BY <1>9, <1>10 DEF Inv
<1>15. ASSUME NEW s \in Sides
       PROVE  reserve(pool, s)' * lp_supply[pool] >= reserve(pool, s) * lp_supply'[pool]
  <2>1. /\ reserve(pool, s) = vault_amount_without_fee(pool, vault, s)
        /\ reserve(pool, s) \in Nat
    BY <1>1, <1>3 DEF reserve, vault_amount_without_fee
  <2>2. vault[s] # lp_token
    BY <1>1, <1>5, VaultNotUsers
  <2>3. balance'[vault[s]] = paid[vault[s]]
    BY <1>1, <1>6, <1>7, <2>2
  <2>4. fees'[pool] = fees[pool]
    BY <1>6
  <2>5. balance'[token_vault[pool][s]] >= balance[token_vault[pool][s]] + amount(s)
    BY <1>1, <1>7, <2>3
  <2>6. reserve(pool, s)' >= reserve(pool, s) + amount(s)
    BY <1>3, <1>14, <2>4, <2>5, ReserveParts, ReservePartsAfter
  <2>7. reserve(pool, s)' \in Nat
    BY <1>3, <1>14, <2>1, <2>6, ReservePartsAfter
  <2>8. lp_supply'[pool] = lp_supply[pool] + lp_amount
    BY <1>6 DEF Inv, TypeOK
  <2> QED
    BY <1>1, <1>2, <1>3, <2>1, <2>6, <2>7, <2>8, PaidSharesKeep
<1>16. Ledger(pool)!Join
  <2>1. lp_supply[pool] > 0 /\ lp_supply'[pool] > lp_supply[pool] /\ fees'[pool] = fees[pool]
    BY <1>1, <1>2, <1>6 DEF Inv, TypeOK
  <2> QED
    BY <1>15, <2>1 DEF Ledger!Join, Ledger!NoDilution, Ledger!Sides, Sides, reserve
<1> QED
  BY <1>13, <1>14, <1>16 DEF KeepsApart

LEMMA WithdrawApart ==
    ASSUME Inv, NEW owner \in Keys, NEW pool \in Pools, NEW lp_amount \in LpAmounts,
           NEW vault \in vaults_of(pool), NEW mint \in lp_mint_of(pool),
           NEW lp_token \in accounts_of(owner), NEW account \in withdraw_accounts(vault),
           Withdraw(owner, pool, vault, mint, lp_token, account, lp_amount)
    PROVE  KeepsApart(pool) /\ Ledger(pool)!Leave
<1> DEFINE amount(s) == min_of(vault_amount_without_fee(pool, vault, s),
                               share(pool, vault, lp_amount, "Floor", s))
           burnt == [balance EXCEPT ![lp_token] = @ - lp_amount]
<1>1. /\ \A s \in Sides : vault[s] \in TokenAccounts /\ vault[s] = token_vault[pool][s]
      /\ vault[0] # vault[1]
      /\ mint = pool
      /\ lp_supply[pool] \in Nat \ {0}
  BY AcceptedAccounts
<1>2. lp_amount \in Nat /\ lp_amount > 0 /\ lp_amount <= lp_supply[pool]
          /\ lp_amount <= mint_supply[pool] /\ lp_amount <= balance[lp_token]
  BY <1>1, AccountsAssumption DEF Withdraw
<1>3. \A s \in Sides :
          LET whole == vault_amount_without_fee(pool, vault, s)
          IN  /\ whole \in Nat
              /\ amount(s) \in 0..whole
              /\ amount(s) * lp_supply[pool] <= lp_amount * whole
  <2> TAKE s \in Sides
  <2> DEFINE whole == vault_amount_without_fee(pool, vault, s)
             part == share(pool, vault, lp_amount, "Floor", s)
  <2>1. covers_fees(pool, vault, s)
    BY DEF Withdraw
  <2>2. whole \in Nat
    BY <1>1, <2>1, ReserveType
  <2>3. part \in Nat /\ part * lp_supply[pool] <= lp_amount * whole
    BY <1>1, <1>2, <2>2, ShareType, FloorShare DEF share
  <2>4. amount(s) = min_of(whole, part)
    OBVIOUS
  <2> HIDE DEF amount, whole, part
  <2>5. amount(s) \in 0..whole /\ amount(s) <= part
    BY <2>2, <2>3, <2>4 DEF min_of
  <2>6. amount(s) * lp_supply[pool] <= part * lp_supply[pool]
    BY <1>1, <2>2, <2>3, <2>5, MulMonotone
  <2>7. amount(s) * lp_supply[pool] <= lp_amount * whole
    BY <1>1, <1>2, <2>2, <2>3, <2>5, <2>6
  <2> QED
    BY <2>2, <2>5, <2>7 DEF whole
<1>4. \A s \in Sides : account[s] \in TokenAccounts
  BY DEF withdraw_accounts, Pairs
<1>5. lp_token \in TokenAccounts /\ account_owner[lp_token] = owner
  BY DEF accounts_of
<1>6. /\ \A s \in Sides : amount(s) <= balance[vault[s]]
      /\ balance' = Transferred(Transferred(burnt, vault[0], account[0], amount(0)),
                                vault[1], account[1], amount(1))
      /\ mint_supply' = [mint_supply EXCEPT ![pool] = @ - lp_amount]
      /\ lp_supply' = [lp_supply EXCEPT ![pool] = @ - lp_amount]
      /\ signer' = owner
      /\ UNCHANGED <<fees, status, observed>>
  BY <1>1 DEF Withdraw, transfer_accepts
<1> HIDE DEF amount
<1>7. burnt \in [TokenAccounts -> Nat]
      /\ \A a \in TokenAccounts \ {lp_token} : burnt[a] = balance[a]
  BY <1>2, <1>5 DEF Inv, TypeOK
<1>8. vault[0] # lp_token /\ vault[1] # lp_token
  BY <1>1, <1>5, VaultNotUsers DEF Sides
<1> HIDE DEF burnt
<1>9. /\ balance' \in [TokenAccounts -> Nat]
      /\ \A a \in TokenAccounts \ {vault[0], vault[1]} : balance'[a] >= burnt[a]
      /\ \A s \in Sides : balance'[vault[s]] >= balance[vault[s]] - amount(s)
  <2>1. /\ 0 \in Sides
        /\ 1 \in Sides
        /\ amount(0) <= burnt[vault[0]]
        /\ amount(1) <= burnt[vault[1]]
    BY <1>1, <1>6, <1>7, <1>8 DEF Sides
  <2>2. amount(0) \in Nat /\ amount(1) \in Nat
    BY <1>3, <2>1
  <2>3. /\ balance' \in [TokenAccounts -> Nat]
        /\ \A a \in TokenAccounts \ {vault[0], vault[1]} : balance'[a] >= burnt[a]
        /\ balance'[vault[0]] >= burnt[vault[0]] - amount(0)
        /\ balance'[vault[1]] >= burnt[vault[1]] - amount(1)
    BY <1>1, <1>4, <1>6, <1>7, <2>1, <2>2, TwoTransfers
  <2> QED
    BY <1>1, <1>7, <1>8, <2>1, <2>3 DEF Sides
<1>10. TypeOK'
  BY <1>2, <1>6, <1>9 DEF Inv, TypeOK
<1>11. LpTokensCounted'
  BY <1>2, <1>6, AccountsAssumption DEF Inv, TypeOK, LpTokensCounted
<1>12. \A a \in TokenAccounts :
          a # token_vault[pool][0] /\ a # token_vault[pool][1] /\ account_owner[a] # owner
              => balance'[a] >= balance[a]
  BY <1>1, <1>5, <1>7, <1>9 DEF Sides
<1>13. \A q \in Pools \ {pool} :
          /\ mint_supply'[q] = mint_supply[q]
          /\ lp_supply'[q] = lp_supply[q]
          /\ fees'[q] = fees[q]
          /\ status'[q] = status[q]
          /\ observed'[q] = observed[q]
  BY <1>6 DEF Inv, TypeOK
<1>14. \A q \in Pools \ {pool} : Untouched(q)
  BY <1>12, <1>13, OthersUntouched
<1>15. Inv'
  BY <1>10, <1>11 DEF Inv
<1>16. ASSUME NEW s \in Sides
       PROVE  reserve(pool, s)' * lp_supply[pool] >= reserve(pool, s) * lp_supply'[pool]
  <2>1. /\ reserve(pool, s) = vault_amount_without_fee(pool, vault, s)
        /\ reserve(pool, s) \in Nat
        /\ amount(s) \in 0..reserve(pool, s)
        /\ amount(s) * lp_supply[pool] <= lp_amount * reserve(pool, s)
    BY <1>1, <1>3 DEF reserve, vault_amount_without_fee
  <2>2. fees'[pool] = fees[pool]
    BY <1>6
  <2>3. balance'[token_vault[pool][s]] >= balance[token_vault[pool][s]] - amount(s)
    BY <1>1, <1>9
  <2>4. reserve(pool, s)' >= reserve(pool, s) - amount(s)
    BY <1>15, <2>1, <2>2, <2>3, ReserveParts, ReservePartsAfter
  <2>5. reserve(pool, s)' \in Nat
    BY <1>15, <2>1, <2>4, ReservePartsAfter
  <2>6. lp_supply'[pool] = lp_supply[pool] - lp_amount
    BY <1>6 DEF Inv, TypeOK
  <2> QED
    BY <1>1, <1>2, <2>1, <2>4, <2>5, <2>6, BurntSharesKeep
<1>17. Ledger(pool)!Leave
  <2>1. lp_supply'[pool] < lp_supply[pool] /\ fees'[pool] = fees[pool]
    BY <1>1, <1>2, <1>6 DEF Inv, TypeOK
  <2>2. 0 < lp_supply'[pool]
    BY <1>15, AccountsAssumption DEF Inv, TypeOK, LpTokensCounted
  <2> QED
    BY <1>16, <2>1, <2>2 DEF Ledger!Leave, Ledger!NoDilution, Ledger!Sides, Sides, reserve
<1> QED
  BY <1>14, <1>15, <1>17 DEF KeepsApart

\* The rates of a config are what the lemmas about fees ask for.
LEMMA ConfigRates ==
    ASSUME NEW config \in Configs
    PROVE  RatesFit(ConfigData[config])
<1>1. ConfigData[config] \in RatesAndOwners
  BY AccountsAssumption
<1> QED
  BY <1>1, RatesAssumption, FeeDenominatorAssumption DEF RatesAndOwners, RatesFit

\* What the curve says of a swap with these amounts, for the reserves of the vaults.
ResultFor(pool, config, input, vault, source, destination) ==
    SwapResult(source, destination, vault_amount_without_fee(pool, vault, input),
               vault_amount_without_fee(pool, vault, 1 - input), ConfigData[config])

\* Either swap, whatever the curve lets it pay and take.
LEMMA SwapApart ==
    ASSUME Inv, NEW payer \in Keys, NEW pool \in Pools, NEW config \in Configs,
           NEW input \in Sides,
           NEW vault \in [Sides -> swap_vault_of(pool)], NEW observation \in observation_of(pool),
           NEW from \in accounts_of(payer), NEW to \in TokenAccounts,
           NEW source \in Nat, NEW destination \in Nat,
           destination <= vault_amount_without_fee(pool, vault, 1 - input),
           Swap(payer, pool, input, vault, observation, from, to,
                ResultFor(pool, config, input, vault, source, destination))
    PROVE  KeepsApart(pool) /\ NothingCollected /\ Ledger(pool)!Trade(input)
<1> DEFINE output == 1 - input
           x == vault_amount_without_fee(pool, vault, input)
           y == vault_amount_without_fee(pool, vault, output)
           result == ResultFor(pool, config, input, vault, source, destination)
           fee == result.trade_fee
<1>1. output \in Sides /\ output # input
  BY DEF Sides
<1>2. /\ result.source_amount_swapped = source
      /\ result.destination_amount_swapped = destination
      /\ fee \in Nat /\ fee <= source
      /\ result.protocol_fee \in Nat /\ result.fund_fee \in Nat
      /\ result.protocol_fee + result.fund_fee <= fee
  BY ConfigRates, ResultFeesWithin DEF ResultFor
<1>3. \A s \in Sides : vault[s] \in TokenAccounts /\ vault[s] = token_vault[pool][s]
  BY OwnAccountsAssumption DEF Swap, swap_pair
<1>4. from \in TokenAccounts /\ account_owner[from] = payer
  BY DEF accounts_of
<1>5. observation = pool
  BY OwnAccountsAssumption DEF observation_of
<1>6. /\ source > 0 /\ destination > 0
      /\ source <= balance[from]
      /\ destination <= balance[vault[output]]
      /\ balance' = Transferred(Transferred(balance, from, vault[input], source),
                                vault[output], to, destination)
      /\ fees' = [fees EXCEPT ![pool]["protocol"][input] = @ + result.protocol_fee,
                              ![pool]["fund"][input] = @ + result.fund_fee]
      /\ observed' = [observed EXCEPT ![pool] = @ \cup {pool}]
      /\ signer' = payer
      /\ UNCHANGED <<mint_supply, lp_supply, status>>
  <2> HIDE DEF result
  <2> QED
    BY <1>2, <1>5 DEF Swap, transfer_accepts, result
<1>7. from # vault[output]
  BY <1>1, <1>3, <1>4, VaultNotUsers
<1>8. /\ balance' \in [TokenAccounts -> Nat]
      /\ \A a \in TokenAccounts \ {from, vault[output]} : balance'[a] >= balance[a]
      /\ balance'[vault[input]] >= balance[vault[input]] + source
      /\ balance'[vault[output]] >= balance[vault[output]] - destination
      /\ balance'[vault[output]] <= balance[vault[output]]
  <2>1. balance \in [TokenAccounts -> Nat]
    BY DEF Inv, TypeOK
  <2>2. vault[input] \notin {from, vault[output]}
    BY <1>1, <1>3, <1>4, VaultNotUsers, OwnAccountsAssumption
  <2>3. input \in Sides /\ output \in Sides /\ source \in Nat /\ destination \in Nat
    BY <1>1
  <2> HIDE DEF output, result
  <2>4. vault[input] \in TokenAccounts /\ vault[output] \in TokenAccounts
    BY <1>3, <2>3
  <2> QED
    BY <1>4, <1>6, <1>7, <2>1, <2>2, <2>3, <2>4, TwoTransfers
<1>9. fees' \in [Pools -> [Kinds -> [Sides -> Nat]]] /\ NothingCollected
  <2>1. fees \in [Pools -> [Kinds -> [Sides -> Nat]]]
    BY DEF Inv, TypeOK
  <2>2. \A p \in Pools, k \in Kinds, s \in Sides :
            /\ fees[p][k][s] \in Nat
            /\ fees'[p][k][s] =
                 IF p = pool /\ s = input
                 THEN fees[p][k][s] + (IF k = "protocol" THEN result.protocol_fee
                                                         ELSE result.fund_fee)
                 ELSE fees[p][k][s]
    BY <1>6, <2>1 DEF Kinds
  <2>3. NothingCollected
    BY <1>2, <2>2 DEF NothingCollected
  <2>4. fees[pool]["protocol"][input] + result.protocol_fee \in Nat
    BY <1>2, <2>1 DEF Kinds
  <2>5. fees[pool]["fund"][input] + result.fund_fee \in Nat
    BY <1>2, <2>1 DEF Kinds
  <2>6. fees' \in [Pools -> [Kinds -> [Sides -> Nat]]]
    BY <1>6, <2>1, <2>4, <2>5 DEF Kinds
  <2> QED
    BY <2>3, <2>6
<1>10. TypeOK'
  BY <1>6, <1>8, <1>9 DEF Inv, TypeOK
<1>11. LpTokensCounted'
  BY <1>6 DEF Inv, LpTokensCounted
<1>12. \A a \in TokenAccounts :
          a # token_vault[pool][0] /\ a # token_vault[pool][1] /\ account_owner[a] # payer
              => balance'[a] >= balance[a]
  BY <1>1, <1>3, <1>4, <1>8 DEF Sides
<1>13. \A q \in Pools \ {pool} :
          /\ mint_supply'[q] = mint_supply[q]
          /\ lp_supply'[q] = lp_supply[q]
          /\ fees'[q] = fees[q]
          /\ status'[q] = status[q]
          /\ observed'[q] = observed[q]
  BY <1>6 DEF Inv, TypeOK
<1>14. \A q \in Pools \ {pool} : Untouched(q)
  BY <1>12, <1>13, OthersUntouched
<1>15. Inv'
  BY <1>10, <1>11 DEF Inv
<1>16. Ledger(pool)!Trade(input)
  <2>1. /\ lp_supply[pool] > 0 /\ lp_supply'[pool] = lp_supply[pool]
        /\ fees'[pool]["protocol"][input] = fees[pool]["protocol"][input] + result.protocol_fee
        /\ fees'[pool]["protocol"][output] = fees[pool]["protocol"][output]
        /\ fees'[pool]["fund"][input] = fees[pool]["fund"][input] + result.fund_fee
        /\ fees'[pool]["fund"][output] = fees[pool]["fund"][output]
    BY <1>1, <1>6, PoolHasShares DEF Inv, TypeOK, Kinds
  <2>2. x = reserve(pool, input) /\ y = reserve(pool, output)
    BY <1>1, <1>3 DEF reserve, vault_amount_without_fee
  <2>3. x \in Nat \ {0} /\ y \in Nat /\ destination <= y
    BY <1>1, <2>2, ReserveParts DEF Swap
  <2>4. (x + (source - fee)) * (y - destination) >= x * y
    <3>1. constant_after(result) >= x * y
      <4>1. constant_after(result) >= vault_amount_without_fee(pool, vault, 0)
                                          * vault_amount_without_fee(pool, vault, 1)
        BY DEF Swap
      <4>2. CASE input = 0
        BY <4>1, <4>2
      <4>3. CASE input = 1
        <5>1. x = vault_amount_without_fee(pool, vault, 1)
              /\ y = vault_amount_without_fee(pool, vault, 0)
          BY <4>3
        <5>2. x * y = y * x
          BY <2>3
        <5> QED
          BY <4>1, <5>1, <5>2
      <4> QED
        BY <4>2, <4>3 DEF Sides
    <3>2. constant_after(result) = ((x + source) - fee) * (y - destination)
      BY ConstantAfterSwap DEF ResultFor
    <3> HIDE DEF result, fee, x, y
    <3>3. (x + source) - fee = x + (source - fee)
      BY <1>2, <2>3
    <3> QED
      BY <3>1, <3>2, <3>3
  <2> HIDE DEF result, fee, x, y, output
  <2>5. reserve(pool, input)' >= x + (source - fee)
    BY <1>2, <1>3, <1>8, <1>15, <2>1, <2>2, ReserveParts, ReservePartsAfter
  <2>6. \E leaves \in 0..destination : reserve(pool, output)' = y - leaves
    <3>1. /\ balance[token_vault[pool][output]] \in Nat
          /\ balance'[token_vault[pool][output]] \in Nat
      BY <1>1, <1>15, ReserveParts, ReservePartsAfter
    <3>2. balance[token_vault[pool][output]] - balance'[token_vault[pool][output]]
             \in 0..destination
      BY <1>1, <1>3, <1>8, <3>1
    <3>3. reserve(pool, output)'
             = y - (balance[token_vault[pool][output]] - balance'[token_vault[pool][output]])
      BY <1>1, <1>15, <2>1, <2>2, ReserveParts, ReservePartsAfter
    <3> QED
      BY <3>2, <3>3
  <2>7. PICK leaves \in 0..destination : reserve(pool, output)' = y - leaves
    BY <2>6
  <2>8. source - fee \in Nat /\ destination \in Nat \ {0}
    BY <1>2, <1>6
  <2>9. reserve(pool, input)' \in Nat /\ reserve(pool, output)' \in Nat
    BY <1>1, <1>15, <2>3, <2>5, <2>7, <2>8, ReservePartsAfter
  <2>10. ASSUME NEW xp \in Nat, NEW yp \in Nat, xp >= x + (source - fee), yp = y - leaves
         PROVE  xp > x /\ yp <= y /\ xp * yp >= x * y
    BY <2>3, <2>4, <2>8, <2>10, TradeArithmetic
  <2>11. /\ reserve(pool, input)' > reserve(pool, input)
         /\ reserve(pool, output)' <= reserve(pool, output)
         /\ reserve(pool, input)' * reserve(pool, output)'
                >= reserve(pool, input) * reserve(pool, output)
    BY <2>2, <2>5, <2>7, <2>9, <2>10
  <2>12. reserve(pool, 0)' * reserve(pool, 1)' >= reserve(pool, 0) * reserve(pool, 1)
    <3>1. CASE input = 0
      BY <2>11, <3>1 DEF output
    <3>2. CASE input = 1
      <4>1. output = 0
        BY <3>2 DEF output
      <4>2. /\ reserve(pool, 0) \in Int /\ reserve(pool, 1) \in Int
            /\ reserve(pool, 0)' \in Int /\ reserve(pool, 1)' \in Int
        BY <1>15, ReserveParts, ReservePartsAfter DEF Sides
      <4>3. reserve(pool, 1)' * reserve(pool, 0)' >= reserve(pool, 1) * reserve(pool, 0)
        BY <2>11, <3>2, <4>1
      <4> QED
        BY <4>2, <4>3
    <3> QED
      BY <3>1, <3>2 DEF Sides
  <2>13. \A s \in Sides, k \in Kinds : fees[pool][k][s] \in Nat
    BY DEF Inv, TypeOK
  <2>14. /\ fees'[pool]["protocol"][input] >= fees[pool]["protocol"][input]
         /\ fees'[pool]["fund"][input] >= fees[pool]["fund"][input]
    BY <1>2, <2>1, <2>13 DEF Kinds, result
  <2> QED
    BY <1>1, <2>1, <2>11, <2>12, <2>14 DEF Ledger!Trade, Sides, reserve, output
<1> QED
  BY <1>9, <1>14, <1>15, <1>16 DEF KeepsApart

\* A swap needs something in both vaults.
LEMMA ReservesOfSwap ==
    ASSUME Inv, NEW payer, NEW pool \in Pools, NEW input \in Sides,
           NEW vault \in [Sides -> swap_vault_of(pool)], NEW observation, NEW from, NEW to,
           NEW result, Swap(payer, pool, input, vault, observation, from, to, result)
    PROVE  /\ vault_amount_without_fee(pool, vault, input) \in Nat \ {0}
           /\ vault_amount_without_fee(pool, vault, 1 - input) \in Nat \ {0}
<1>1. \A s \in Sides : vault[s] \in TokenAccounts
  BY DEF swap_vault_of
<1>2. \A s \in Sides : balance[vault[s]] \in Nat /\ owed(pool, s) \in Nat
  BY <1>1 DEF Inv, TypeOK, owed, Kinds
<1>3. \A s \in Sides : vault_amount_without_fee(pool, vault, s) > 0
  BY DEF Swap
<1>4. \A s \in Sides : vault_amount_without_fee(pool, vault, s) \in Nat \ {0}
  BY <1>2, <1>3 DEF vault_amount_without_fee
<1> QED
  BY <1>4 DEF Sides

\* What a swap of an exact input takes and pays.
LEMMA SwapBaseInputIsSwap ==
    ASSUME Inv, NEW payer \in Keys, NEW pool \in Pools, NEW config \in Configs,
           NEW input \in Sides, NEW vault \in [Sides -> swap_vault_of(pool)],
           NEW observation, NEW from, NEW to, NEW amount_in \in TokenAmounts,
           SwapBaseInput(payer, pool, config, input, vault, observation, from, to, amount_in)
    PROVE  \E source, destination \in Nat :
               /\ destination <= vault_amount_without_fee(pool, vault, 1 - input)
               /\ Swap(payer, pool, input, vault, observation, from, to,
                       ResultFor(pool, config, input, vault, source, destination))
<1> DEFINE x == vault_amount_without_fee(pool, vault, input)
           y == vault_amount_without_fee(pool, vault, 1 - input)
           less_fees == amount_in - trading_fee(amount_in, ConfigData[config].trade_fee_rate)
           out == swap_base_input_without_fees(less_fees, x, y)
<1>1. swap_base_input(amount_in, x, y, ConfigData[config])
          = ResultFor(pool, config, input, vault, amount_in, out)
  BY DEF swap_base_input, ResultFor
<1>2. Swap(payer, pool, input, vault, observation, from, to,
           ResultFor(pool, config, input, vault, amount_in, out))
  BY <1>1 DEF SwapBaseInput
<1>3. x \in Nat \ {0} /\ y \in Nat
  BY <1>2, ReservesOfSwap
<1>4. amount_in \in Nat
  BY AccountsAssumption
<1>5. less_fees \in Nat
  <2> DEFINE rate == ConfigData[config].trade_fee_rate
  <2>1. rate \in 0..FEE_RATE_DENOMINATOR_VALUE
    BY ConfigRates, FeeDenominatorAssumption DEF RatesFit
  <2> HIDE DEF rate
  <2>2. trading_fee(amount_in, rate) \in Nat /\ trading_fee(amount_in, rate) <= amount_in
    BY <1>4, <2>1, TradingFeeAtMost
  <2> QED
    BY <1>4, <2>2 DEF rate
<1> HIDE DEF x, y, less_fees
<1>6. out \in Nat /\ out <= y
  BY <1>3, <1>5, InputSwapOutput
<1> QED
  BY <1>2, <1>4, <1>6 DEF y

\* What a swap for an exact output takes and pays.
LEMMA SwapBaseOutputIsSwap ==
    ASSUME Inv, NEW payer \in Keys, NEW pool \in Pools, NEW config \in Configs,
           NEW input \in Sides, NEW vault \in [Sides -> swap_vault_of(pool)],
           NEW observation, NEW from, NEW to, NEW amount_out \in TokenAmounts,
           SwapBaseOutput(payer, pool, config, input, vault, observation, from, to, amount_out)
    PROVE  \E source, destination \in Nat :
               /\ destination <= vault_amount_without_fee(pool, vault, 1 - input)
               /\ Swap(payer, pool, input, vault, observation, from, to,
                       ResultFor(pool, config, input, vault, source, destination))
<1> DEFINE x == vault_amount_without_fee(pool, vault, input)
           y == vault_amount_without_fee(pool, vault, 1 - input)
           result == swap_base_output(amount_out, x, y, ConfigData[config])
           cost == result.source_amount_swapped
<1>1. Swap(payer, pool, input, vault, observation, from, to, result)
  BY DEF SwapBaseOutput
<1>2. x \in Nat \ {0} /\ y \in Nat
  BY <1>1, ReservesOfSwap
<1>3. amount_out \in Nat /\ amount_out < y
  BY AccountsAssumption DEF SwapBaseOutput, swap_base_output_defined
<1>4. cost \in Nat /\ result = SwapResult(cost, amount_out, x, y, ConfigData[config])
  BY <1>2, <1>3, ConfigRates, OutputSwapPrice
<1>5. result = ResultFor(pool, config, input, vault, cost, amount_out)
  BY <1>4 DEF ResultFor
<1> HIDE DEF result, cost, x
<1>6. amount_out <= y
  BY <1>2, <1>3
<1>7. Swap(payer, pool, input, vault, observation, from, to,
           ResultFor(pool, config, input, vault, cost, amount_out))
  BY <1>1, <1>5, Zenon
<1> QED
  BY <1>3, <1>4, <1>6, <1>7 DEF y

LEMMA CollectApart ==
    ASSUME Inv, NEW pool \in Pools, NEW requested \in Requests, NEW kind \in Kinds,
           NEW vault \in vaults_of(pool), NEW config \in config_of(pool),
           NEW owner \in collectors(config, kind), NEW account \in recipients(vault),
           CollectFee(owner, pool, vault, kind, account, requested)
    PROVE  /\ KeepsApart(pool)
           /\ owner \in collectors(amm_config[pool], kind)
           /\ Ledger(pool)!PayProtocol \/ Ledger(pool)!PayFund
<1> DEFINE amount(s) == min_of(requested, fees[pool][kind][s])
<1>1. /\ \A s \in Sides : vault[s] \in TokenAccounts /\ vault[s] = token_vault[pool][s]
      /\ vault[0] # vault[1]
  BY AcceptedAccounts
<1>2. config \in Configs /\ config = amm_config[pool]
  BY DEF config_of
<1>3. owner \in Keys
  <2>1. ConfigData[config] \in RatesAndOwners
    BY <1>2, AccountsAssumption
  <2> QED
    BY <2>1, AccountsAssumption DEF RatesAndOwners, collectors
<1>4. fees \in [Pools -> [Kinds -> [Sides -> Nat]]]
  BY DEF Inv, TypeOK
<1>5. \A s \in Sides : amount(s) \in Nat /\ fees[pool][kind][s] - amount(s) \in Nat
  BY <1>4, AccountsAssumption DEF min_of
<1>6. \A s \in Sides : account[s] \in TokenAccounts
  BY DEF recipients, withdraw_accounts, Pairs
<1>7. /\ balance' = Transferred(Transferred(balance, vault[0], account[0], amount(0)),
                                vault[1], account[1], amount(1))
      /\ fees' = [fees EXCEPT ![pool][kind] = [s \in Sides |-> fees[pool][kind][s] - amount(s)]]
      /\ signer' = owner
      /\ UNCHANGED <<mint_supply, lp_supply, status, observed>>
  BY DEF CollectFee
<1>8. \A s \in Sides : amount(s) <= balance[vault[s]]
  <2> TAKE s \in Sides
  <2>1. balance[vault[s]] \in Nat
    BY <1>1 DEF Inv, TypeOK
  <2>2. amount(s) # 0 => amount(s) <= balance[vault[s]]
    BY DEF CollectFee, transfer_accepts
  <2> QED
    BY <1>5, <2>1, <2>2
<1>9. fees' \in [Pools -> [Kinds -> [Sides -> Nat]]]
  BY <1>4, <1>5, <1>7
<1> HIDE DEF amount
<1>10. /\ balance' \in [TokenAccounts -> Nat]
       /\ \A a \in TokenAccounts \ {vault[0], vault[1]} : balance'[a] >= balance[a]
       /\ \A s \in Sides : balance'[vault[s]] >= balance[vault[s]] - amount(s)
  <2>1. balance \in [TokenAccounts -> Nat] /\ 0 \in Sides /\ 1 \in Sides
    BY DEF Inv, TypeOK, Sides
  <2>2. /\ balance' \in [TokenAccounts -> Nat]
        /\ \A a \in TokenAccounts \ {vault[0], vault[1]} : balance'[a] >= balance[a]
        /\ balance'[vault[0]] >= balance[vault[0]] - amount(0)
        /\ balance'[vault[1]] >= balance[vault[1]] - amount(1)
    BY <1>1, <1>5, <1>6, <1>7, <1>8, <2>1, TwoTransfers
  <2> QED
    BY <2>2 DEF Sides
<1>11. TypeOK'
  BY <1>3, <1>7, <1>9, <1>10 DEF Inv, TypeOK
<1>12. LpTokensCounted'
  BY <1>7 DEF Inv, LpTokensCounted
<1>13. \A a \in TokenAccounts :
          a # token_vault[pool][0] /\ a # token_vault[pool][1] /\ account_owner[a] # owner
              => balance'[a] >= balance[a]
  BY <1>1, <1>10 DEF Sides
<1>14. \A q \in Pools \ {pool} :
          /\ mint_supply'[q] = mint_supply[q]
          /\ lp_supply'[q] = lp_supply[q]
          /\ fees'[q] = fees[q]
          /\ status'[q] = status[q]
          /\ observed'[q] = observed[q]
  BY <1>7 DEF Inv, TypeOK
<1>15. \A q \in Pools \ {pool} : Untouched(q)
  BY <1>3, <1>13, <1>14, OthersUntouched
<1>16. Inv'
  BY <1>11, <1>12 DEF Inv
<1>17. ASSUME NEW s \in Sides
       PROVE  /\ reserve(pool, s)' >= reserve(pool, s)
              /\ fees'[pool][kind][s] <= fees[pool][kind][s]
  <2>1. /\ fees'[pool][kind][s] = fees[pool][kind][s] - amount(s)
        /\ \A other \in Kinds \ {kind} : fees'[pool][other] = fees[pool][other]
    BY <1>4, <1>7
  <2>2. balance'[token_vault[pool][s]] >= balance[token_vault[pool][s]] - amount(s)
    BY <1>1, <1>10
  <2>3. \A k \in Kinds : fees[pool][k][s] \in Nat /\ fees'[pool][k][s] \in Nat
    BY <1>4, <1>9
  <2>4. fees'[pool]["protocol"][s] + fees'[pool]["fund"][s]
            = fees[pool]["protocol"][s] + fees[pool]["fund"][s] - amount(s)
    <3>1. CASE kind = "protocol"
      BY <1>5, <2>1, <2>3, <3>1 DEF Kinds
    <3>2. CASE kind = "fund"
      BY <1>5, <2>1, <2>3, <3>2 DEF Kinds
    <3> QED
      BY <3>1, <3>2 DEF Kinds
  <2>5. reserve(pool, s)' >= reserve(pool, s)
    BY <1>5, <1>16, <2>2, <2>4, ReserveParts, ReservePartsAfter
  <2> QED
    BY <1>4, <1>5, <2>1, <2>5
<1>18. /\ lp_supply'[pool] = lp_supply[pool]
       /\ \A other \in Kinds \ {kind} : fees'[pool][other] = fees[pool][other]
  BY <1>4, <1>7
<1>19. CASE kind = "protocol"
  <2>1. fees'[pool]["fund"] = fees[pool]["fund"]
    BY <1>18, <1>19 DEF Kinds
  <2>2. Ledger(pool)!PayProtocol
    BY <1>17, <1>18, <1>19, <2>1
    DEF Ledger!PayProtocol, Ledger!ReservesKept, Ledger!Sides, Sides, reserve
  <2> QED
    BY <1>2, <1>15, <1>16, <2>2 DEF KeepsApart
<1>20. CASE kind = "fund"
  <2>1. fees'[pool]["protocol"] = fees[pool]["protocol"]
    BY <1>18, <1>20 DEF Kinds
  <2>2. Ledger(pool)!PayFund
    BY <1>17, <1>18, <1>20, <2>1
    DEF Ledger!PayFund, Ledger!ReservesKept, Ledger!Sides, Sides, reserve
  <2> QED
    BY <1>2, <1>15, <1>16, <2>2 DEF KeepsApart
<1> QED
  BY <1>19, <1>20 DEF Kinds

\* The status of one pool is set; nothing else is written.
LEMMA StatusApart ==
    ASSUME Inv, NEW authority \in Keys, NEW pool \in Pools, NEW new_status \in Statuses,
           UpdatePoolStatus(authority, pool, new_status)
    PROVE  KeepsApart(pool) /\ UNCHANGED Ledger(pool)!ledger
<1>1. TypeOK'
  BY AccountsAssumption DEF Inv, TypeOK, UpdatePoolStatus
<1>2. LpTokensCounted'
  BY DEF Inv, LpTokensCounted, UpdatePoolStatus
<1>3. \A q \in Pools \ {pool} : Untouched(q)
  <2> SUFFICES ASSUME NEW q \in Pools \ {pool}
               PROVE  Untouched(q)
    OBVIOUS
  <2>1. \A s \in Sides : balance[token_vault[q][s]] \in Nat
    BY OwnAccountsAssumption DEF Inv, TypeOK
  <2> QED
    BY <2>1 DEF Inv, TypeOK, UpdatePoolStatus, Untouched
<1>4. UNCHANGED Ledger(pool)!ledger
  BY DEF UpdatePoolStatus, Ledger!ledger, owed
<1> QED
  BY <1>1, <1>2, <1>3, <1>4 DEF KeepsApart, Inv

(***************************************************************************)
(* The theorems.                                                           *)
(***************************************************************************)
\* The pools as they were created satisfy the invariant.
LEMMA InitInv == Init => Inv
<1> SUFFICES ASSUME Init PROVE Inv
  OBVIOUS
<1>1. TypeOK
  <2>1. mint_supply \in [Pools -> Nat]
    <3>1. \A p \in Pools : InitialLp[p] \in Nat /\ InitialLp[p] > LOCK_LP_AMOUNT
                             /\ LOCK_LP_AMOUNT \in Nat
      BY AccountsAssumption, OwnAccountsAssumption
    <3>2. \A p \in Pools : InitialLp[p] - LOCK_LP_AMOUNT \in Nat
      BY <3>1
    <3> QED
      BY <3>2 DEF Init
  <2> QED
    BY <2>1, AccountsAssumption DEF Init, TypeOK
<1>2. LpTokensCounted
  BY AccountsAssumption, OwnAccountsAssumption DEF Init, LpTokensCounted
<1> QED
  BY <1>1, <1>2 DEF Inv

\* What every instruction does, by its kind.
LEMMA StepKeepsApart ==
    ASSUME Inv, Next
    PROVE  /\ \E pool \in Pools : KeepsApart(pool) /\ KeepsItsLedger(pool)
           /\ \A p \in Pools, k \in Kinds, s \in Sides :
                 fees'[p][k][s] < fees[p][k][s] => signer' \in collectors(amm_config[p], k)
<1> DEFINE OwnersOnly == \A p \in Pools, k \in Kinds, s \in Sides :
                fees'[p][k][s] < fees[p][k][s] => signer' \in collectors(amm_config[p], k)
<1>1. \A p \in Pools, k \in Kinds, s \in Sides : fees[p][k][s] \in Nat
  BY DEF Inv, TypeOK
<1>2. ASSUME fees' = fees PROVE OwnersOnly
  BY <1>1, <1>2
<1>3. ASSUME NothingCollected, Inv' PROVE OwnersOnly
  <2>1. \A p \in Pools, k \in Kinds, s \in Sides : fees'[p][k][s] \in Nat
    BY <1>3 DEF Inv, TypeOK
  <2> QED
    BY <1>1, <1>3, <2>1 DEF NothingCollected
<1>4. CASE DepositWithAnyAccounts
  <2>1. PICK owner \in Keys, pool \in Pools, lp_amount \in LpAmounts :
            \E lp_token \in accounts_of(owner), mint \in lp_mint_of(pool), vault \in vaults_of(pool) :
                \E account \in deposit_accounts(owner, vault) :
                    Deposit(owner, pool, vault, mint, lp_token, account, lp_amount)
    BY <1>4 DEF DepositWithAnyAccounts
  <2>2. KeepsApart(pool) /\ KeepsItsLedger(pool)
    BY <2>1, DepositApart DEF KeepsItsLedger, Ledger!Next
  <2>3. fees' = fees
    BY <2>1 DEF Deposit
  <2> QED
    BY <1>2, <2>2, <2>3
<1>5. CASE WithdrawWithAnyAccounts
  <2>1. PICK owner \in Keys, pool \in Pools, lp_amount \in LpAmounts :
            \E lp_token \in accounts_of(owner), mint \in lp_mint_of(pool), vault \in vaults_of(pool) :
                \E account \in withdraw_accounts(vault) :
                    Withdraw(owner, pool, vault, mint, lp_token, account, lp_amount)
    BY <1>5 DEF WithdrawWithAnyAccounts
  <2>2. KeepsApart(pool) /\ KeepsItsLedger(pool)
    BY <2>1, WithdrawApart DEF KeepsItsLedger, Ledger!Next
  <2>3. fees' = fees
    BY <2>1 DEF Withdraw
  <2> QED
    BY <1>2, <2>2, <2>3
<1>6. CASE SwapWithAnyAccounts
  <2>1. PICK payer \in Keys, pool \in Pools, input \in Sides, amount \in TokenAmounts :
            \E config \in config_of(pool), vault \in [Sides -> swap_vault_of(pool)],
               observation \in observation_of(pool) :
                \E from \in accounts_of(payer), to \in TokenAccounts :
                    \/ SwapBaseInput(payer, pool, config, input, vault, observation, from, to, amount)
                    \/ SwapBaseOutput(payer, pool, config, input, vault, observation, from, to, amount)
    BY <1>6 DEF SwapWithAnyAccounts
  <2>2. PICK config \in config_of(pool), vault \in [Sides -> swap_vault_of(pool)],
            observation \in observation_of(pool) :
                \E from \in accounts_of(payer), to \in TokenAccounts :
                    \/ SwapBaseInput(payer, pool, config, input, vault, observation, from, to, amount)
                    \/ SwapBaseOutput(payer, pool, config, input, vault, observation, from, to, amount)
    BY <2>1
  <2>3. PICK from \in accounts_of(payer), to \in TokenAccounts :
            \/ SwapBaseInput(payer, pool, config, input, vault, observation, from, to, amount)
            \/ SwapBaseOutput(payer, pool, config, input, vault, observation, from, to, amount)
    BY <2>2
  <2>4. config \in Configs
    BY DEF config_of
  <2>5. PICK source \in Nat, destination \in Nat :
            /\ destination <= vault_amount_without_fee(pool, vault, 1 - input)
            /\ Swap(payer, pool, input, vault, observation, from, to,
                    ResultFor(pool, config, input, vault, source, destination))
    BY <2>3, <2>4, SwapBaseInputIsSwap, SwapBaseOutputIsSwap
  <2>6. KeepsApart(pool) /\ NothingCollected /\ Ledger(pool)!Trade(input)
    BY <2>4, <2>5, SwapApart
  <2>7. KeepsItsLedger(pool)
    BY <2>6 DEF KeepsItsLedger, Ledger!Next, Ledger!Sides, Sides
  <2> QED
    BY <1>3, <2>6, <2>7 DEF KeepsApart
<1>7. CASE CollectWithAnyAccounts
  <2>1. PICK pool \in Pools, requested \in Requests, kind \in Kinds :
            \E vault \in vaults_of(pool), config \in config_of(pool) :
                \E owner \in collectors(config, kind), account \in recipients(vault) :
                    CollectFee(owner, pool, vault, kind, account, requested)
    BY <1>7 DEF CollectWithAnyAccounts
  <2>2. PICK vault \in vaults_of(pool), config \in config_of(pool) :
            \E owner \in collectors(config, kind), account \in recipients(vault) :
                CollectFee(owner, pool, vault, kind, account, requested)
    BY <2>1
  <2>3. PICK owner \in collectors(config, kind), account \in recipients(vault) :
            CollectFee(owner, pool, vault, kind, account, requested)
    BY <2>2
  <2>4. /\ KeepsApart(pool) /\ KeepsItsLedger(pool)
        /\ owner \in collectors(amm_config[pool], kind)
    BY <2>3, CollectApart DEF KeepsItsLedger, Ledger!Next
  <2>5. signer' = owner
    BY <2>3 DEF CollectFee
  <2>6. \A p \in Pools, k \in Kinds, s \in Sides :
            p # pool \/ k # kind => fees'[p][k][s] = fees[p][k][s]
    BY <2>3 DEF CollectFee, Inv, TypeOK
  <2> QED
    BY <1>1, <2>4, <2>5, <2>6
<1>8. CASE \E authority \in Keys, pool \in Pools, new_status \in Statuses :
              UpdatePoolStatus(authority, pool, new_status)
  <2>1. PICK authority \in Keys, pool \in Pools, new_status \in Statuses :
            UpdatePoolStatus(authority, pool, new_status)
    BY <1>8
  <2>2. KeepsApart(pool) /\ KeepsItsLedger(pool)
    BY <2>1, StatusApart DEF KeepsItsLedger
  <2>3. fees' = fees
    BY <2>1 DEF UpdatePoolStatus
  <2> QED
    BY <1>2, <2>2, <2>3
<1> QED
  BY <1>4, <1>5, <1>6, <1>7, <1>8 DEF Next

\* The invariant holds throughout.
LEMMA InvAlways == Spec => []Inv
<1>1. Inv /\ [Next]_vars => Inv'
  <2>1. ASSUME Inv, Next PROVE Inv'
    BY <2>1, StepKeepsApart DEF KeepsApart
  <2>2. ASSUME Inv, UNCHANGED vars PROVE Inv'
    BY <2>2 DEF Inv, TypeOK, LpTokensCounted, vars
  <2> QED
    BY <2>1, <2>2
<1> QED
  BY InitInv, <1>1, PTL DEF Spec

\* No sequence of instructions makes an amount negative or a fee owed to nobody.
THEOREM AccountsTyped == Spec => []TypeOK
<1>1. Inv => TypeOK
  BY DEF Inv
<1> QED
  BY <1>1, InvAlways, PTL

\* Every pool counts the LP tokens of its own mint, whatever mints are passed.
THEOREM LpTokensAlwaysCounted == Spec => []LpTokensCounted
<1>1. Inv => LpTokensCounted
  BY DEF Inv
<1> QED
  BY <1>1, InvAlways, PTL

\* An instruction reaches into one pool at most, whatever accounts are passed.
THEOREM PoolsStayApart == Spec => OnlyOnePool
<1>1. Inv /\ [Next]_vars => [\E p \in Pools : \A q \in Pools \ {p} : Untouched(q)]_vars
  <2>1. ASSUME Inv, Next PROVE \E p \in Pools : \A q \in Pools \ {p} : Untouched(q)
    BY <2>1, StepKeepsApart DEF KeepsApart
  <2> QED
    BY <2>1
<1> QED
  BY <1>1, InvAlways, PTL DEF Spec, OnlyOnePool

\* Fees are collected by the owners of the pool's own config and the admin.
THEOREM OnlyOwnersEverCollect == Spec => OnlyOwnersCollect
<1>1. Inv /\ [Next]_vars =>
          [\A p \in Pools, k \in Kinds, s \in Sides :
               fees'[p][k][s] < fees[p][k][s] => signer' \in collectors(amm_config[p], k)]_vars
  <2>1. ASSUME Inv, Next
        PROVE  \A p \in Pools, k \in Kinds, s \in Sides :
                  fees'[p][k][s] < fees[p][k][s] => signer' \in collectors(amm_config[p], k)
    BY <2>1, StepKeepsApart
  <2> QED
    BY <2>1
<1> QED
  BY <1>1, InvAlways, PTL DEF Spec, OnlyOwnersCollect

\* Every pool keeps the promise of PoolLedger while the others trade and are traded in.
THEOREM EachPoolAlwaysKeepsLedger == Spec => EachPoolKeepsLedger
<1>1. Inv /\ Inv' /\ [Next]_vars =>
          [\A p \in Pools : [Ledger(p)!Next]_(Ledger(p)!ledger)]_vars
  <2> SUFFICES ASSUME Inv, Inv', Next, NEW p \in Pools
               PROVE  Ledger(p)!Next \/ UNCHANGED Ledger(p)!ledger
    OBVIOUS
  <2>1. PICK pool \in Pools : KeepsApart(pool) /\ KeepsItsLedger(pool)
    BY StepKeepsApart
  <2>2. CASE p = pool
    BY <2>1, <2>2 DEF KeepsItsLedger
  <2>3. CASE p # pool
    BY <2>1, <2>3, UntouchedIsGift DEF KeepsApart, Ledger!Next
  <2> QED
    BY <2>2, <2>3
<1> QED
  BY <1>1, InvAlways, PTL DEF Spec, EachPoolKeepsLedger
=============================================================================
