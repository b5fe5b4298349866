----------------------------- MODULE MCAccounts -----------------------------
(***************************************************************************)
(* Accounts for TLC: two pools of two configs.  The second pool trades     *)
(* against LP tokens of the first, so that LP tokens of one pool are       *)
(* reserves of another and the pools share the mint x.  One user holds     *)
(* tokens; the fees of the one config are the owner's, those of the other  *)
(* the admin's.                                                            *)
(***************************************************************************)
EXTENDS Accounts, TLC

CONSTANTS p, q,                 \* the pools
          x, y, lp_p, lp_q,     \* the mints
          user, owner           \* keys, next to the admin

\* Vaults, and the user's accounts, one for each mint.
Vaults == {p, q} \X Sides
UserAccounts == {user} \X Mints
MCTokenAccounts == Vaults \cup UserAccounts

MCMint == [a \in MCTokenAccounts |->
    IF a \in UserAccounts THEN a[2]
    ELSE IF a[2] = 0 THEN x
    ELSE IF a[1] = p THEN y ELSE lp_p]

MCOwner == [a \in MCTokenAccounts |-> IF a \in UserAccounts THEN user ELSE Authority]

MCVaults == [pool \in {p, q} |-> [s \in Sides |-> <<pool, s>>]]
MCLpMint == p :> lp_p @@ q :> lp_q
MCConfig == p :> "theirs" @@ q :> "ours"
MCOracle == [pool \in {p, q} |-> pool]

\* Half of every amount is the trading fee, and half of it the collectors'.
Config(key) ==
    [ trade_fee_rate |-> 5, protocol_fee_rate |-> 5, fund_fee_rate |-> 5,
      protocol_owner |-> key, fund_owner |-> key ]
MCConfigData == "theirs" :> Config(owner) @@ "ours" :> Config(Admin)

\* Of every vault and every first deposit.  Of p's LP tokens the user has those that
\* neither the lock nor q holds.
Reserve == p :> 4 @@ q :> 2
MCLp == Reserve
MCBalance == [a \in MCTokenAccounts |->
    IF a \in Vaults THEN Reserve[a[1]]
    ELSE CASE a[2] = lp_p -> Reserve[p] - LOCK_LP_AMOUNT - Reserve[q]
           [] a[2] = lp_q -> Reserve[q] - LOCK_LP_AMOUNT
           [] OTHER -> 2]
============================================================================
