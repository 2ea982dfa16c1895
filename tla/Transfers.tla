----------------------------- MODULE Transfers -----------------------------
(***************************************************************************)
(* The transfer service, backend/ledger/services.py, as the statements it  *)
(* sends to Postgres under READ COMMITTED, with any number of request      *)
(* threads running it at once.                                             *)
(*                                                                         *)
(* A thread receives a request, looks its idempotency key up without a     *)
(* lock, opens a transaction, locks both account rows in ascending UUID    *)
(* order one statement at a time, looks the key up again, reads the source *)
(* balance, inserts the entry, writes the audit row and commits. Two       *)
(* attempts can still meet on the unique index of the key: the second one  *)
(* waits for the first to commit or roll back, and recovers from the       *)
(* IntegrityError outside its transaction. A thread may die anywhere.      *)
(*                                                                         *)
(* A retry is a request like any other: Receive may pick the same request  *)
(* any number of times, at the same time or later.                         *)
(***************************************************************************)
EXTENDS LedgerData

CONSTANTS
    Threads,        \* request handlers of all replicas together
    NoThread,       \* "nobody", the holder of a free lock
    MaxRequests     \* bound: requests received in one behaviour

VARIABLES
    journal, balance,   \* the committed ledger, see MoneyLedger
    audit,              \* committed audit rows of the service
    holder,             \* who holds each account row FOR UPDATE
    slot,               \* who has inserted each key without committing yet
    pc,                 \* the next statement of each thread
    request,            \* the arguments of each thread's transfer() call
    wanted,             \* accounts each thread has still to lock
    written,            \* uncommitted rows of each thread's transaction
    answer,             \* what each thread last returned to its caller
    announced,          \* entries whose on_commit events were sent
    received            \* requests received so far, at most MaxRequests

ledger == INSTANCE MoneyLedger

threadVars == <<pc, request, wanted, written, answer>>
lockVars == <<holder, slot>>
vars == <<journal, balance, audit, holder, slot, pc, request, wanted,
          written, answer, announced, received>>

ASSUME ThreadsAssumption == NoThread \notin Threads
ASSUME MaxRequestsAssumption == MaxRequests \in Nat

-----------------------------------------------------------------------------
(* Domains.                                                                *)

Statement == {"idle", "lock", "recheck", "funds", "post", "audit",
              "commit", "announce", "recover"}

Outcome == {"none", "posted", "replayed", "conflict", "insufficient",
            "invalid"}

Answer == [outcome : Outcome, entry : Nat]
NoAnswer == [outcome |-> "none", entry |-> 0]
Answered(outcome, n) == [outcome |-> outcome, entry |-> n]

AuditRow == [action : {"transfer_posted", "transfer_replayed"}, entry : Nat]
PostedRow(n) == [action |-> "transfer_posted", entry |-> n]
ReplayedRow(n) == [action |-> "transfer_replayed", entry |-> n]

Least(S) == CHOOSE a \in S : \A b \in S : a <= b

-----------------------------------------------------------------------------
Init ==
    /\ journal = <<>>
    /\ balance = Opening
    /\ audit = {}
    /\ holder = [a \in Accounts |-> NoThread]
    /\ slot = [k \in Keys |-> NoThread]
    /\ pc = [t \in Threads |-> "idle"]
    /\ request = [t \in Threads |-> CHOOSE r \in Requests : TRUE]
    /\ wanted = [t \in Threads |-> {}]
    /\ written = [t \in Threads |-> {}]
    /\ answer = [t \in Threads |-> NoAnswer]
    /\ announced = {}
    /\ received = 0

-----------------------------------------------------------------------------
(* Pieces the statements are made of.                                      *)

(* Ending a transaction, either way, frees the rows and the index entry.   *)
ReleaseLocks(t) ==
    /\ holder' = [a \in Accounts |-> IF holder[a] = t THEN NoThread ELSE holder[a]]
    /\ slot' = [k \in Keys |-> IF slot[k] = t THEN NoThread ELSE slot[k]]

GoTo(t, statement) == pc' = [pc EXCEPT ![t] = statement]

Return(t, outcome, n) ==
    /\ GoTo(t, "idle")
    /\ answer' = [answer EXCEPT ![t] = Answered(outcome, n)]

(* Mutant: replay whatever the key posted.                                 *)
ReplayedEntryUncompared(r) == EntriesKeyed(journal, r.key)

(* _replayed_entry: the entry of the key if it may be replayed, and an     *)
(* error if the key was spent on a different request.                      *)
ReplayedEntry(r) == {n \in EntriesKeyed(journal, r.key) : journal[n] = r}
KeyConflict(r) == EntriesKeyed(journal, r.key) # {} /\ ReplayedEntry(r) = {}

(* Resolving a key that is taken: replay it and write the audit row, or    *)
(* refuse it.                                                              *)
ResolveKey(t, r) ==
    \/ /\ KeyConflict(r)
       /\ Return(t, "conflict", 0)
       /\ UNCHANGED audit
    \/ \E n \in ReplayedEntry(r) :
       /\ Return(t, "replayed", n)
       /\ audit' = audit \cup {ReplayedRow(n)}

-----------------------------------------------------------------------------
(* transfer(), statement by statement.                                     *)

(* Validation and the replay check that needs no lock.                     *)
Receive(t, r) ==
    /\ pc[t] = "idle"
    /\ received < MaxRequests
    /\ received' = received + 1
    /\ request' = [request EXCEPT ![t] = r]
    /\ \/ /\ r.amount <= 0 \/ r.source = r.destination
          /\ Return(t, "invalid", 0)
          /\ UNCHANGED <<audit, wanted>>
       \/ /\ r.amount > 0 /\ r.source # r.destination
          /\ ResolveKey(t, r)
          /\ UNCHANGED wanted
       \/ /\ r.amount > 0 /\ r.source # r.destination
          /\ EntriesKeyed(journal, r.key) = {}
          /\ GoTo(t, "lock")
          /\ wanted' = [wanted EXCEPT ![t] = {r.source, r.destination}]
          /\ answer' = [answer EXCEPT ![t] = NoAnswer]
          /\ UNCHANGED audit
    /\ UNCHANGED <<journal, balance, holder, slot, written, announced>>

(* Mutants: accounts are read without a lock, or locked source first.      *)
ReadAccount(t) ==
    LET a == Least(wanted[t]) IN
    /\ pc[t] = "lock"
    /\ holder' = [holder EXCEPT ![a] = t]
    /\ wanted' = [wanted EXCEPT ![t] = @ \ {a}]
    /\ GoTo(t, IF wanted[t] = {a} THEN "recheck" ELSE "lock")
    /\ UNCHANGED <<journal, balance, audit, slot, request, written, answer,
                   announced, received>>

LockInCallOrder(t) ==
    LET source == request[t].source
        a == IF source \in wanted[t] THEN source ELSE request[t].destination
    IN
    /\ pc[t] = "lock"
    /\ holder[a] = NoThread
    /\ holder' = [holder EXCEPT ![a] = t]
    /\ wanted' = [wanted EXCEPT ![t] = @ \ {a}]
    /\ GoTo(t, IF wanted[t] = {a} THEN "recheck" ELSE "lock")
    /\ UNCHANGED <<journal, balance, audit, slot, request, written, answer,
                   announced, received>>

(* lock_accounts: one SELECT ... FOR UPDATE, the lowest account first.     *)
LockAccount(t) ==
    LET a == Least(wanted[t]) IN
    /\ pc[t] = "lock"
    /\ holder[a] = NoThread
    /\ holder' = [holder EXCEPT ![a] = t]
    /\ wanted' = [wanted EXCEPT ![t] = @ \ {a}]
    /\ GoTo(t, IF wanted[t] = {a} THEN "recheck" ELSE "lock")
    /\ UNCHANGED <<journal, balance, audit, slot, request, written, answer,
                   announced, received>>

(* The second key lookup, under the locks. A replay returns from inside    *)
(* the atomic block, which commits its audit row; a conflict is raised     *)
(* out of it. Both end the transaction.                                    *)
Recheck(t) ==
    /\ pc[t] = "recheck"
    /\ \/ /\ ResolveKey(t, request[t])
          /\ ReleaseLocks(t)
       \/ /\ EntriesKeyed(journal, request[t].key) = {}
          /\ GoTo(t, "funds")
          /\ UNCHANGED <<audit, answer, holder, slot>>
    /\ UNCHANGED <<journal, balance, request, wanted, written, announced,
                   received>>

(* get_balance(source) against the amount.                                 *)
CheckFunds(t) ==
    /\ pc[t] = "funds"
    /\ \/ /\ balance[request[t].source] < request[t].amount
          /\ Return(t, "insufficient", 0)
          /\ ReleaseLocks(t)
       \/ /\ balance[request[t].source] >= request[t].amount
          /\ GoTo(t, "post")
          /\ UNCHANGED <<answer, holder, slot>>
    /\ UNCHANGED <<journal, balance, audit, request, wanted, written,
                   announced, received>>

(* post_entry: the INSERT waits while another transaction has an           *)
(* uncommitted entry with this key, and raises IntegrityError if a         *)
(* committed entry has it, which rolls the transaction back.               *)
PostEntry(t) ==
    LET k == request[t].key IN
    /\ pc[t] = "post"
    /\ \/ /\ EntriesKeyed(journal, k) # {}
          /\ ReleaseLocks(t)
          /\ GoTo(t, "recover")
          /\ UNCHANGED written
       \/ /\ EntriesKeyed(journal, k) = {}
          /\ k \in Keys => slot[k] = NoThread
          /\ slot' = [j \in Keys |-> IF j = k THEN t ELSE slot[j]]
          /\ written' = [written EXCEPT ![t] = {"entry"}]
          /\ GoTo(t, "audit")
          /\ UNCHANGED holder
    /\ UNCHANGED <<journal, balance, audit, request, wanted, answer,
                   announced, received>>

(* Mutant: the audit row is committed on its own.                          *)
RecordAuditAtOnce(t) ==
    /\ pc[t] = "audit"
    /\ audit' = audit \cup {PostedRow(Len(journal) + 1)}
    /\ GoTo(t, "commit")
    /\ UNCHANGED <<journal, balance, holder, slot, request, wanted, written,
                   answer, announced, received>>

(* The posting's audit row, in the posting's transaction.                  *)
RecordAudit(t) ==
    /\ pc[t] = "audit"
    /\ written' = [written EXCEPT ![t] = @ \cup {"audit"}]
    /\ GoTo(t, "commit")
    /\ UNCHANGED <<journal, balance, audit, holder, slot, request, wanted,
                   answer, announced, received>>

(* COMMIT publishes what the transaction wrote and ends it.                *)
Commit(t) ==
    LET n == Len(journal) + 1 IN
    /\ pc[t] = "commit"
    /\ "entry" \in written[t]
    /\ journal' = Append(journal, request[t])
    /\ balance' = Moved(balance, request[t])
    /\ audit' = audit \cup {PostedRow(n) : w \in written[t] \cap {"audit"}}
    /\ written' = [written EXCEPT ![t] = {}]
    /\ answer' = [answer EXCEPT ![t] = Answered("posted", n)]
    /\ GoTo(t, "announce")
    /\ ReleaseLocks(t)
    /\ UNCHANGED <<request, wanted, announced, received>>

(* The on_commit callbacks of _announce_transfer, then the return.         *)
Announce(t) ==
    /\ pc[t] = "announce"
    /\ announced' = announced \cup {answer[t].entry}
    /\ GoTo(t, "idle")
    /\ UNCHANGED <<journal, balance, audit, holder, slot, request, wanted,
                   written, answer, received>>

(* The IntegrityError handler, outside the transaction. Its re-raise for a *)
(* key that is free after all is dead code here: entries are never deleted. *)
Recover(t) ==
    /\ pc[t] = "recover"
    /\ ResolveKey(t, request[t])
    /\ UNCHANGED <<journal, balance, holder, slot, request, wanted, written,
                   announced, received>>

(* The thread or its connection dies: Postgres rolls its transaction back, *)
(* nobody is told anything, and the caller gets no answer.                 *)
Crash(t) ==
    /\ pc[t] # "idle"
    /\ ReleaseLocks(t)
    /\ GoTo(t, "idle")
    /\ wanted' = [wanted EXCEPT ![t] = {}]
    /\ written' = [written EXCEPT ![t] = {}]
    /\ answer' = [answer EXCEPT ![t] = NoAnswer]
    /\ UNCHANGED <<journal, balance, audit, request, announced, received>>

(* Nothing left to do: the bound on requests is spent and all are answered. *)
Quiet ==
    /\ received = MaxRequests
    /\ \A t \in Threads : pc[t] = "idle"
    /\ UNCHANGED vars

Step(t) ==
    \/ LockAccount(t) \/ Recheck(t) \/ CheckFunds(t) \/ PostEntry(t)
    \/ RecordAudit(t) \/ Commit(t) \/ Announce(t) \/ Recover(t)

Next ==
    \/ \E t \in Threads : (\E r \in Requests : Receive(t, r)) \/ Step(t) \/ Crash(t)
    \/ Quiet

Spec == Init /\ [][Next]_vars

(* A running thread keeps sending statements; Postgres queues lock waiters *)
(* first come first served, so a lock that keeps being freed is eventually *)
(* granted to each of them. Nothing promises that a request arrives or     *)
(* that a thread dies.                                                     *)
Fairness ==
    \A t \in Threads :
        /\ WF_vars(Step(t))
        /\ SF_vars(LockAccount(t))
        /\ SF_vars(PostEntry(t))

FairSpec == Spec /\ Fairness

-----------------------------------------------------------------------------
(* Properties.                                                             *)

TypeOK ==
    /\ journal \in Seq(Requests)
    /\ balance \in [Accounts -> Int]
    /\ audit \subseteq AuditRow
    /\ holder \in [Accounts -> Threads \cup {NoThread}]
    /\ slot \in [Keys -> Threads \cup {NoThread}]
    /\ pc \in [Threads -> Statement]
    /\ request \in [Threads -> Requests]
    /\ wanted \in [Threads -> SUBSET Accounts]
    /\ written \in [Threads -> SUBSET {"entry", "audit"}]
    /\ answer \in [Threads -> Answer]
    /\ announced \subseteq Nat
    /\ received \in 0..MaxRequests

(* No overdraft: whatever transfers race, no account the ledger moves      *)
(* money out of ever goes below zero (transfer, "no overdraft").           *)
NoOverdraft == \A a \in Accounts : balance[a] >= 0

(* A key is spent once: retries, duplicates and races of one key post at   *)
(* most one entry (ADR-0010, the unique index and its three lookups).      *)
KeySpentOnce ==
    \A m, n \in DOMAIN journal :
        journal[m].key = journal[n].key /\ journal[m].key # NoKey => m = n

(* A caller that is told its transfer posted, now or earlier, is told so   *)
(* about its own request: same key, same accounts, same amount. The        *)
(* comparison has to happen on all three paths that resolve a key.         *)
AnswerNamesTheRequest ==
    \A t \in Threads :
        answer[t].outcome \in {"posted", "replayed"} =>
            /\ answer[t].entry \in DOMAIN journal
            /\ journal[answer[t].entry] = request[t]

(* The log claims exactly the movements that happened, and events are only *)
(* sent for those: neither a crash nor a rollback between the INSERTs and  *)
(* COMMIT leaves one without the other.                                    *)
LogMatchesLedger ==
    /\ \A n \in DOMAIN journal : PostedRow(n) \in audit
    /\ \A row \in audit : row.entry \in DOMAIN journal
    /\ announced \subseteq DOMAIN journal

(* Who waits for whom: on a locked account row or on an uncommitted key.   *)
WaitsFor(t, u) ==
    \/ pc[t] = "lock" /\ holder[Least(wanted[t])] = u
    \/ pc[t] = "post" /\ request[t].key \in Keys /\ slot[request[t].key] = u

(* Deadlock is structurally impossible (lock_accounts): a thread that      *)
(* waits for an account holds only lower ones, and a thread that waits for *)
(* a key waits for one that has no lock left to take.                      *)
OrderedWaiting ==
    \A t \in Threads :
        /\ pc[t] = "lock" =>
             \A a \in Accounts : holder[a] = t => a < Least(wanted[t])
        /\ pc[t] = "post" =>
             \A u \in Threads : WaitsFor(t, u) => pc[u] \in {"audit", "commit"}

(* The service implements the abstract ledger.                             *)
ImplementsLedger == ledger!Spec

(* Every request is answered or its thread is gone: no thread waits        *)
(* forever for a lock or for another's key.                                *)
EveryRequestEnds == \A t \in Threads : pc[t] # "idle" ~> pc[t] = "idle"
=============================================================================
