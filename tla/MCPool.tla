------------------------------- MODULE MCPool -------------------------------
(***************************************************************************)
(* Instances of Pool small enough for TLC.  Rates are tenths instead of    *)
(* millionths and transfer fees tenths instead of basis points, so that    *)
(* every rounding case happens with amounts of a few tokens.               *)
(***************************************************************************)
EXTENDS Pool

CONSTANT Supply0, Supply1

MCSupply == [s \in Side |-> IF s = 0 THEN Supply0 ELSE Supply1]

Fee(points, maximum) == [ basis_points |-> points, maximum_fee |-> maximum ]

\* Token_0 charges a third capped at two tokens, and from epoch 1 on all of every
\* transfer up to one token.  Token_1 charges nothing.
FeeOnToken0 ==
    [s \in Side |->
        IF s = 0
        THEN [ older |-> Fee(3, 2), newer |-> Fee(MAX_FEE_BASIS_POINTS, 1), newer_epoch |-> 1 ]
        ELSE [ older |-> NoFee, newer |-> NoFee, newer_epoch |-> 0 ]]

\* The trading fee is switched between nothing and a half, the protocol's part of
\* it between nothing and a half.
RateUpdates == {0, 1} \X {0, 5}

Amounts == 0..(IF Supply0 > Supply1 THEN Supply0 ELSE Supply1)
============================================================================
