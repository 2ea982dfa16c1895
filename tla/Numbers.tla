------------------------------- MODULE Numbers -------------------------------
(***************************************************************************)
(* Customer-facing account numbers: backend/accounts/numbers.py. A number  *)
(* is its digits read as one integer, the body before the two check        *)
(* digits; the prefix and the dashes of BK-##########-## are left out.     *)
(***************************************************************************)
EXTENDS Integers

CONSTANT BodyDigits      \* _BODY_DIGITS: 10 in the code

ASSUME BodyDigitsAssumption == BodyDigits \in 4..10

(* 10^i, by the binary digits of i.                                        *)
Ten(i) ==
    (IF i % 2 = 1 THEN 10 ELSE 1) * (IF (i \div 2) % 2 = 1 THEN 100 ELSE 1)
        * (IF (i \div 4) % 2 = 1 THEN 10000 ELSE 1) * (IF i \div 8 = 1 THEN 100000000 ELSE 1)

BodySpace == 0 .. Ten(BodyDigits) - 1

(* ISO 7064 MOD 97-10 over the body.                                       *)
CheckDigits(body) == 98 - ((body * 100) % 97)

Generated(body) == body * 100 + CheckDigits(body)

IsValid(number) ==
    /\ number \div 100 \in BodySpace
    /\ number % 100 = CheckDigits(number \div 100)

(* The last four digits of the body: number[-7:-3].                        *)
FourDigits == 0 .. 9999
Last4(number) == (number \div 100) % 10000

-----------------------------------------------------------------------------
(* What one slip of the pen makes of a number. A digit replaced by another *)
(* changes it by a multiple of its place; two neighbours exchanged change  *)
(* it by nine times such a multiple. The places run over body and check    *)
(* digits alike.                                                           *)

DigitChanges == {c * Ten(i) : c \in (-9 .. 9) \ {0}, i \in 0 .. BodyDigits + 1}
SlipsOf(number) == {number + d : d \in DigitChanges} \cup {number + 9 * d : d \in DigitChanges}
==============================================================================
