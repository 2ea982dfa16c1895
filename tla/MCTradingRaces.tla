--------------------------- MODULE MCTradingRaces ---------------------------
(***************************************************************************)
(* The instance of Trading that its safety properties are checked on.      *)
(***************************************************************************)
EXTENDS MCTrading

(* Besides the user of MCTrading one with cash and an empty position.      *)
MCTwoUsers == {alice, bob}
MCTwoAccounts == 1..5
MCTwoOwner == <<alice, alice, alice, bob, bob>>
MCTwoPositionOf == [u \in MCTwoUsers |-> IF u = alice THEN 2 ELSE 5]
MCTwoOpening == <<2, 4, 3, 3, 0>>
MCTwoOpeningShares == [a \in {2, 5} |-> IF a = 2 THEN 3 ELSE 0]

(* Market and limit orders of both sides, of two users who send the same   *)
(* key; alice sends it for two different orders.                           *)
MCSweptTickets == {Order(1, "sell", "market", 0, 2, k1), Order(1, "sell", "limit", 2, 2, k1),
                   Order(4, "buy", "limit", 1, 2, k1),
                   Limit(4, "buy", 1, 2), Limit(4, "buy", 0, 2)}

MCTwoTickets == MCTickets \cup MCSweptTickets

-----------------------------------------------------------------------------
(* Three of the workers play: two placers, a sweep and a transfer, or a    *)
(* placer and two sweeps of which one worker may die.                      *)
VARIABLE cast

Rivals == Placers \subseteq cast

CastInit ==
    /\ Init
    /\ cast \in {S \in SUBSET Workers : Cardinality(S) = 3}

CastNext ==
    \/ \E w \in cast : Step(w) /\ UNCHANGED cast
    \/ \E s \in cast \cap Sweepers : Scan(s) /\ UNCHANGED cast
    \/ \E p \in cast \cap Placers, k \in IF Rivals THEN MCTickets ELSE MCSweptTickets :
           Receive(p, k) /\ UNCHANGED cast
    \/ \E o \in DOMAIN orders : Cancel(o) /\ UNCHANGED cast
    \/ Tick /\ UNCHANGED cast
    \/ \E a \in MCAccounts \ Positions, m \in Movements :
           Transfer(a, m) /\ Rivals /\ UNCHANGED cast
    \/ \E w \in cast : Crash(w) /\ ~Rivals /\ UNCHANGED cast

CastSpec == CastInit /\ [][CastNext]_<<vars, cast>>

PlayerSymmetry == Permutations(Placers) \cup Permutations(Sweepers)
=============================================================================
