----------------------------- MODULE MCPosting -----------------------------
(***************************************************************************)
(* Instances of Books for TLC: all lists of up to three lines over a cash  *)
(* account, an account that is not in USD, a position in each of two       *)
(* instruments and their contras, posted by either release behind three    *)
(* older entries. Two raw units are one quantum.                           *)
(***************************************************************************)
EXTENDS Books, TLC

CONSTANTS cash, savings, euros, ups, downs, upsContra, downsContra, up, down

MCAccounts == {cash, savings, euros, ups, downs, upsContra, downsContra}
MCInstruments == {up, down}
MCInstrumentOf == (cash :> NoInstrument) @@ (savings :> NoInstrument) @@ (euros :> NoInstrument)
                  @@ (ups :> up) @@ (downs :> down) @@ (upsContra :> up) @@ (downsContra :> down)
MCAssets == {cash, savings, euros, ups, downs}
MCDollars == MCAccounts \ {euros}
MCContraOf == (up :> upsContra) @@ (down :> downsContra)

Leg(a, m, q) == [account |-> a, amount |-> m, quantity |-> q]

(* Whole and half quanta: 1 and 3 are ties that round to even, 0 and 2.    *)
Legs == {Leg(cash, -2, NoQuantity), Leg(savings, 2, NoQuantity), Leg(cash, -1, NoQuantity),
         Leg(cash, 2, 2), Leg(euros, 2, NoQuantity),
         Leg(ups, 2, 2), Leg(ups, 2, 3), Leg(ups, 0, 1), Leg(ups, 3, 3),
         Leg(downs, -2, -2), Leg(downs, -4, -3), Leg(downs, 2, NoQuantity),
         Leg(upsContra, 0, -2)}

(* A transfer and older fills: a purchase in one position, and an exchange *)
(* of instruments whose entry touches one position twice.                  *)
MCPast ==
    {<< <<Leg(cash, -2, NoQuantity), Leg(savings, 2, NoQuantity)>>,
        <<Leg(ups, 4, 2), Leg(cash, -4, NoQuantity)>>,
        <<Leg(ups, 2, 2), Leg(downs, -4, -6), Leg(ups, 2, 4)>> >>}

MCRequests == UNION {[1..n -> Legs] : n \in 1..3}
=============================================================================
