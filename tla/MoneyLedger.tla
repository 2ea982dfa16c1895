---------------------------- MODULE MoneyLedger ----------------------------
(***************************************************************************)
(* What the ledger promises its callers, with no locks, no processes and   *)
(* no transactions: an append-only journal of movements, each one covered  *)
(* by its source account when it was posted, and each idempotency key      *)
(* spent on at most one of them.                                           *)
(*                                                                         *)
(* backend/ledger/services.py promises this in the docstrings of           *)
(* post_entry, transfer and get_balance; Transfers.tla is the code that    *)
(* has to keep the promise.                                                *)
(***************************************************************************)
EXTENDS LedgerData

VARIABLES
    journal,    \* committed entries, in commit order
    balance     \* SUM of the committed lines of each account

ledgerVars == <<journal, balance>>

Init ==
    /\ journal = <<>>
    /\ balance = Opening

Post(r) ==
    /\ r.amount > 0
    /\ r.source # r.destination
    /\ EntriesKeyed(journal, r.key) = {}
    /\ balance[r.source] >= r.amount
    /\ journal' = Append(journal, r)
    /\ balance' = Moved(balance, r)

Next == \E r \in Requests : Post(r)

Spec == Init /\ [][Next]_ledgerVars
=============================================================================
