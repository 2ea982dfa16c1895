---------------------------- MODULE MCTransfers ----------------------------
(***************************************************************************)
(* Instances of Transfers for TLC.                                         *)
(***************************************************************************)
EXTENDS Transfers, TLC

CONSTANTS k1, t1, t2, t3

MCAccounts == 1..4
MCOpening == <<1, 1, 1, 0>>
MCKeys == {k1}

Ask(k, s, d, m) == [key |-> k, source |-> s, destination |-> d, amount |-> m]

(* One key asked for by two different requests on disjoint accounts, whose *)
(* only meeting place is the unique index; a keyless transfer in the       *)
(* opposite direction, which two threads may ask for although account 2    *)
(* can pay for one of them only; and a request that is never valid.        *)
MCRequests == {Ask(k1, 1, 2, 1), Ask(k1, 3, 4, 1), Ask(NoKey, 2, 1, 1),
               Ask(NoKey, 3, 3, 1)}
=============================================================================
