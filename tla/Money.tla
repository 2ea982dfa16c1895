------------------------------- MODULE Money -------------------------------
(***************************************************************************)
(* The rounding contract of backend/common/money.py. Money counts quanta   *)
(* of 0.0001 and shares count quanta of 0.00000001, so an exact quotient   *)
(* num / den becomes a stored amount by rounding half to even.             *)
(***************************************************************************)
EXTENDS Integers

RoundHalfEven(num, den) ==
    LET floor == num \div den
        rest  == 2 * (num % den)
    IN  IF rest < den \/ (rest = den /\ floor % 2 = 0) THEN floor ELSE floor + 1
=============================================================================
