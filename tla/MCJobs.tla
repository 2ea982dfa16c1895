------------------------------- MODULE MCJobs -------------------------------
(* Two workers, two users, one instrument, and six loads.                  *)
EXTENDS Statements, TLC

CONSTANTS t1, t2, w1, w2

Symmetry == Permutations({t1, t2}) \cup Permutations({w1, w2})

Idleness == [b \in Budgets |-> 0]

MCTickers == {t1, t2}
MCDesks == {w1, w2}
MCUsers == {1, 2}
MCAccounts == 1..4
MCChart == <<[owner |-> 1, type |-> "asset", instrument |-> 0],
             [owner |-> 2, type |-> "asset", instrument |-> 0],
             [owner |-> 1, type |-> "asset", instrument |-> 1],
             [owner |-> 1, type |-> "income", instrument |-> 0]>>

Line(account, amount, shares) == [account |-> account, amount |-> amount, shares |-> shares]
Pay == <<Line(1, -1, 0), Line(2, 1, 0)>>
Buy == <<Line(1, -2, 0), Line(3, 2, 1)>>
Sell == <<Line(1, 3, 0), Line(3, -2, -1), Line(4, -1, 0)>>
MCDeals == {Pay, Buy, Sell}

(* Runs of advance_prices that overlap, fail, are killed or outlive their  *)
(* mutex.                                                                  *)
Ticking == [Idleness EXCEPT !["runs"] = 3, !["limits"] = 1, !["kills"] = 1, !["purges"] = 1,
                            !["until"] = 1]
(* Two postings around the end of a month that closes; its runs overlap.   *)
Closing == [Idleness EXCEPT !["postings"] = 2, !["batches"] = 2, !["until"] = 3]
(* Two months close, one after the other or both before any run.           *)
Months == [Idleness EXCEPT !["postings"] = 1, !["batches"] = 2, !["until"] = 4]
(* Runs of a month fail or are killed.                                     *)
Failing == [Idleness EXCEPT !["postings"] = 1, !["batches"] = 3, !["failures"] = 1,
                            !["kills"] = 1, !["until"] = 2]
(* An order of either month is filled and then overwritten as rejected.    *)
Refusing == [Idleness EXCEPT !["postings"] = 2, !["refusals"] = 1, !["batches"] = 1,
                             !["until"] = 4]
(* A position, prices inside and after the month, and a purge.             *)
Valuing == [Idleness EXCEPT !["postings"] = 1, !["runs"] = 2, !["batches"] = 1,
                            !["purges"] = 1, !["until"] = 3]
MCLoads == {Ticking, Closing, Months, Failing, Refusing, Valuing}
=============================================================================
