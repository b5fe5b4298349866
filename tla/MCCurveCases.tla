---------------------------- MODULE MCCurveCases ----------------------------
(***************************************************************************)
(* CurveCases and MintSupport for TLC: whatever a pool may be given, the   *)
(* rates of its config, the transfer fee of a mint, its extensions.        *)
(* Updates reach every trading rate that matters for rounding, shares of   *)
(* protocol and fund that are allowed alone but not together, rates above  *)
(* the denominator, and a param that does not exist.                       *)
(*                                                                         *)
(* Neither module asks anything of the other: a behaviour is either one of *)
(* a config and an operation or one of a mint, as it is of one operation.  *)
(***************************************************************************)
EXTENDS CurveCases, MintSupport

RateAndOwnerUpdates ==
    ({0} \X {0, 1, 3, 9, 10})
        \cup ({1, 2} \X {0, 4, 6, 10, 11})
        \cup {<<3, 0>>, <<4, 0>>, <<5, 1>>, <<6, 1>>, <<7, 0>>}

MCInit == Init /\ MintInit

NoMintYet == mint.program = "Token" /\ ~mint.whitelisted /\ ~mint.initialized

MCNext ==
    \/ NoMintYet /\ Next /\ UNCHANGED mint_vars
    \/ ~amm_config.exists /\ amount = 0 /\ MintNext /\ UNCHANGED vars

MCSpec == MCInit /\ [][MCNext]_<<vars, mint_vars>>
============================================================================
