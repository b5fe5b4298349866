----------------------------- MODULE MCRegistry -----------------------------
(***************************************************************************)
(* Registry for TLC: two configs, one pair of mints, the admin, a creator  *)
(* who can pay for two pools and a donor whose key may also become a pool. *)
(***************************************************************************)
EXTENDS Registry, TLC

CONSTANT Creator, Donor

ASSUME MCKeys == Keys = {Admin, Creator, Donor}

\* An empty account costs little, the others the same.
MCRent == [kind \in Kinds |-> IF kind = "none" THEN 1 ELSE 3]

\* Two configs, two pools with a fee, and one donation that is too small and one
\* that is more than enough, or two that add up.
MCWealth == Admin :> 6 @@ Creator :> 38 @@ Donor :> 4

\* Every account of one pool, a vault of another, and the fee receiver.
MCTargets ==
    LET c == CHOOSE i \in Configs : TRUE
        pool == pool_pda(c, 1, 2)
    IN  { pool, token_vault(pool, 1), token_vault(pool, 2), lp_mint(pool),
          observation_state(pool), lp_token(Creator, pool), amm_config(c),
          token_vault(wallet(Donor), 2), create_pool_fee }
============================================================================
