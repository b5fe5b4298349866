----------------------------- MODULE PoolLedger -----------------------------
(***************************************************************************)
(* What a pool promises to the three parties whose tokens lie in its       *)
(* vaults: the LP holders, who own the reserves in proportion to their     *)
(* shares, and the protocol and the fund, who are owed fees.  Nothing is   *)
(* said of how an amount is computed, only of what a transaction may do to *)
(* the claims.                                                             *)
(***************************************************************************)
EXTENDS Integers

VARIABLES shares,      \* LP tokens the pool has accounted for
          reserve,     \* per side, the tokens of the LP holders
          protocol,    \* per side, the tokens owed to the protocol
          fund         \* per side, the tokens owed to the fund

ledger == <<shares, reserve, protocol, fund>>

Sides == {0, 1}
NothingOwed == [s \in Sides |-> 0]

Init ==
    /\ shares = 0
    /\ reserve = NothingOwed
    /\ protocol = NothingOwed
    /\ fund = NothingOwed

\* No share of either token is diluted.
NoDilution == \A s \in Sides : reserve'[s] * shares >= reserve[s] * shares'

\* The first holder gets no more shares than the geometric mean of the reserves.
Open ==
    /\ shares = 0
    /\ shares' > 0
    /\ shares' * shares' <= reserve'[0] * reserve'[1]
    /\ UNCHANGED <<protocol, fund>>

\* A holder joins: no one already there is diluted, in either token.
Join ==
    /\ shares > 0
    /\ shares' > shares
    /\ NoDilution
    /\ UNCHANGED <<protocol, fund>>

\* A holder leaves, but somebody's shares stay.
Leave ==
    /\ 0 < shares' /\ shares' < shares
    /\ NoDilution
    /\ UNCHANGED <<protocol, fund>>

\* A trade: the input reserve grows, the product of the reserves does not fall, and
\* only in the input token does anybody come to be owed more.
Trade(input) ==
    LET output == 1 - input
    IN  /\ shares > 0
        /\ UNCHANGED shares
        /\ reserve'[input] > reserve[input]
        /\ reserve'[output] <= reserve[output]
        /\ reserve'[0] * reserve'[1] >= reserve[0] * reserve[1]
        /\ protocol'[input] >= protocol[input] /\ protocol'[output] = protocol[output]
        /\ fund'[input] >= fund[input] /\ fund'[output] = fund[output]

\* One of the two is paid some of what it is owed, the other and the holders lose
\* nothing.
ReservesKept == \A s \in Sides : reserve'[s] >= reserve[s]

PayProtocol ==
    /\ \A s \in Sides : protocol'[s] <= protocol[s]
    /\ ReservesKept
    /\ UNCHANGED <<shares, fund>>

PayFund ==
    /\ \A s \in Sides : fund'[s] <= fund[s]
    /\ ReservesKept
    /\ UNCHANGED <<shares, protocol>>

\* Somebody gives tokens to the holders.
Gift ==
    /\ shares > 0
    /\ ReservesKept
    /\ UNCHANGED <<shares, protocol, fund>>

Next ==
    \/ Open
    \/ Join
    \/ Leave
    \/ \E input \in Sides : Trade(input)
    \/ PayProtocol
    \/ PayFund
    \/ Gift

Spec == Init /\ [][Next]_ledger
============================================================================
