------------------------------ MODULE MCClient ------------------------------
(***************************************************************************)
(* Instances of Client for TLC: a pool of a few tokens, tenths instead of  *)
(* basis points, a slippage of a tenth.                                    *)
(***************************************************************************)
EXTENDS Client

CONSTANT Supply0, Supply1

MCSupply == [s \in Side |-> IF s = 0 THEN Supply0 ELSE Supply1]

Fee(points, maximum) == [ basis_points |-> points, maximum_fee |-> maximum ]

NoMintFee == [s \in Side |-> [ older |-> NoFee, newer |-> NoFee, newer_epoch |-> 0 ]]

\* Token_0 charges a third up to two tokens, from epoch 1 on a tenth up to one.
FeeOnToken0 ==
    [s \in Side |->
        IF s = 0
        THEN [ older |-> Fee(3, 2), newer |-> Fee(1, 1), newer_epoch |-> 1 ]
        ELSE [ older |-> NoFee, newer |-> NoFee, newer_epoch |-> 0 ]]

Typed(kind, side, first, second) ==
    [ kind |-> kind, input |-> side, amount |-> [s \in Side |-> IF s = 0 THEN first ELSE second] ]

\* Token_1 is bought both ways, token_0 once.
Swaps == {Typed("SwapBaseIn", 0, 6, 0), Typed("SwapBaseOut", 0, 1, 0),
          Typed("SwapBaseIn", 1, 4, 0), Typed("Withdraw", 0, 1, 0), Typed("SwapBaseOut", 0, 5, 0)}

LpChanges == {Typed("Deposit", 0, 1, 0), Typed("Withdraw", 0, 3, 0)}
                \cup {Typed("InitializePool", side, 2, 3) : side \in Side}

Deposits == {Typed("Deposit", 0, 2, 0)}

\* The admin switches the trading fee between nothing and a half.
TradeFeeUpdates == {<<0, 0>>, <<0, 5>>}
=============================================================================
