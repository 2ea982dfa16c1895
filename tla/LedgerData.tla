----------------------------- MODULE LedgerData -----------------------------
(***************************************************************************)
(* The data of the ledger that its specifications share: accounts, keyed   *)
(* transfer requests, and what an entry means for keys and balances.       *)
(***************************************************************************)
EXTENDS Integers, Sequences, FiniteSets, FiniteSetsExt

CONSTANTS
    Accounts,   \* account rows, numbered in ascending UUID order
    Keys,       \* idempotency keys clients send
    NoKey,      \* the NULL key of an entry posted without one
    Opening,    \* balance of every account when the model starts
    Requests    \* the transfers that may be asked for

(* A transfer as the service sees it. Its payload fingerprint digests      *)
(* source, destination and amount, so two requests with one key carry the  *)
(* same fingerprint iff they are equal. Amounts count money quanta.        *)
Request == [key : Keys \cup {NoKey}, source : Accounts,
            destination : Accounts, amount : Int]

ASSUME AccountsAssumption == Accounts \subseteq Int
ASSUME OpeningAssumption == Opening \in [Accounts -> Nat]
ASSUME NoKeyAssumption == NoKey \notin Keys
ASSUME RequestsAssumption == Requests # {} /\ Requests \subseteq Request

(* A posted transfer stands for its entry and two lines.                   *)
EntriesKeyed(entries, k) == {n \in DOMAIN entries : k # NoKey /\ entries[n].key = k}

Moved(bal, r) ==
    [bal EXCEPT ![r.source] = @ - r.amount, ![r.destination] = @ + r.amount]
=============================================================================
