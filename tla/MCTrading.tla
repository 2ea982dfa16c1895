----------------------------- MODULE MCTrading -----------------------------
(***************************************************************************)
(* Instances of Trading for TLC.                                           *)
(***************************************************************************)
EXTENDS Trading, TLC

CONSTANTS k1, p1, p2, s1, s2, alice, bob

Order(cash, side, type, limit, quantity, key) ==
    [cash |-> cash, side |-> side, type |-> type, limit |-> limit,
     quantity |-> quantity, key |-> key]

Market(cash, side, quantity) == Order(cash, side, "market", 0, quantity, NoKey)
Limit(cash, side, limit, quantity) == Order(cash, side, "limit", limit, quantity, NoKey)

(* One user with two cash accounts around the position in lock order, and  *)
(* three share quanta that cost four money quanta.                         *)
MCUsers == {alice}
MCAccounts == 1..3
MCOwner == [a \in 1..3 |-> alice]
MCPositionOf == [u \in MCUsers |-> 2]
MCOpening == <<2, 4, 3>>
MCOpeningShares == [a \in {2} |-> 3]
MCMovements == {-2}
MCDeposits == {2}
MCPrices == {1, 2}

(* Races for cash account 1, for the three shares and for the key.         *)
MCTickets == {Order(1, "buy", "market", 0, 2, k1), Market(1, "sell", 3), Limit(3, "sell", 2, 2)}

(* Purchases that account 1 cannot afford before a deposit.                *)
MCPoorTickets == {Market(1, "buy", 4), Limit(1, "buy", 2, 4)}

(* A purchase that a transfer may forestall, and a sale that rests.        *)
MCLiveTickets == {Market(1, "buy", 2), Limit(3, "sell", 2, 2)}
=============================================================================
