-------------------------- MODULE TransfersProofs --------------------------
(***************************************************************************)
(* Theorems about Transfers, for any set of accounts, keys, threads and    *)
(* requests.                                                               *)
(***************************************************************************)
EXTENDS Transfers, TLAPS

-----------------------------------------------------------------------------
(* Lemmas about the data.                                                  *)

LEMMA RequestType ==
    ASSUME NEW r \in Requests
    PROVE  /\ r.key \in Keys \cup {NoKey}
           /\ r.source \in Accounts
           /\ r.destination \in Accounts
           /\ r.amount \in Int
  BY RequestsAssumption DEF Request

(* lock_accounts sorts at most two accounts, so the least one exists.      *)
LEMMA LeastOfTwo ==
    ASSUME NEW x \in Int, NEW y \in Int,
           NEW S \in SUBSET {x, y}, S # {}
    PROVE  Least(S) \in S /\ \A b \in S : Least(S) <= b
<1>1. \E a \in S : \A b \in S : a <= b
  <2>1. CASE x \in S /\ y \in S
    BY <2>1
  <2>2. CASE x \notin S
    <3>1. S = {y}
      BY <2>2
    <3> QED BY <3>1
  <2>3. CASE y \notin S
    <3>1. S = {x}
      BY <2>3
    <3> QED BY <3>1
  <2> QED BY <2>1, <2>2, <2>3
<1> QED BY <1>1 DEF Least

LEMMA MovedType ==
    ASSUME NEW bal \in [Accounts -> Int], NEW r \in Requests
    PROVE  Moved(bal, r) \in [Accounts -> Int]
  BY RequestType DEF Moved

-----------------------------------------------------------------------------
(* Type correctness.                                                       *)

LEMMA Vocabulary ==
    /\ {"idle", "lock", "recheck", "funds", "post", "audit", "commit",
        "announce", "recover"} \subseteq Statement
    /\ NoAnswer \in Answer
    /\ \A o \in Outcome, n \in Nat : Answered(o, n) \in Answer
    /\ {"posted", "replayed", "conflict", "insufficient", "invalid"} \subseteq Outcome
    /\ \A n \in Nat : PostedRow(n) \in AuditRow /\ ReplayedRow(n) \in AuditRow
  BY DEF Statement, NoAnswer, Answer, Answered, Outcome, PostedRow,
         ReplayedRow, AuditRow

LEMMA ReplayedType ==
    ASSUME TypeOK, NEW r, NEW n \in ReplayedEntry(r)
    PROVE  n \in Nat
  BY DEF TypeOK, ReplayedEntry, EntriesKeyed

LEMMA ReturnType ==
    ASSUME TypeOK, NEW t \in Threads, NEW o \in Outcome, NEW n \in Nat,
           Return(t, o, n)
    PROVE  answer' \in [Threads -> Answer] /\ pc' \in [Threads -> Statement]
  BY Vocabulary DEF TypeOK, Return, GoTo

LEMMA ResolveType ==
    ASSUME TypeOK, NEW t \in Threads, NEW r, ResolveKey(t, r)
    PROVE  /\ answer' \in [Threads -> Answer]
           /\ pc' \in [Threads -> Statement]
           /\ audit' \subseteq AuditRow
<1>1. CASE Return(t, "conflict", 0) /\ UNCHANGED audit
  <2>1. answer' \in [Threads -> Answer] /\ pc' \in [Threads -> Statement]
    BY <1>1, ReturnType, Vocabulary
  <2> QED BY <1>1, <2>1 DEF TypeOK
<1>2. ASSUME NEW n \in ReplayedEntry(r),
             Return(t, "replayed", n), audit' = audit \cup {ReplayedRow(n)}
      PROVE  /\ answer' \in [Threads -> Answer]
             /\ pc' \in [Threads -> Statement]
             /\ audit' \subseteq AuditRow
  <2>1. n \in Nat
    BY ReplayedType
  <2>2. answer' \in [Threads -> Answer] /\ pc' \in [Threads -> Statement]
    BY <1>2, <2>1, ReturnType, Vocabulary
  <2> QED BY <1>2, <2>1, <2>2, Vocabulary DEF TypeOK
<1> QED BY <1>1, <1>2 DEF ResolveKey

LEMMA ReleaseType ==
    ASSUME TypeOK, NEW t \in Threads, ReleaseLocks(t)
    PROVE  /\ holder' \in [Accounts -> Threads \cup {NoThread}]
           /\ slot' \in [Keys -> Threads \cup {NoThread}]
  BY DEF TypeOK, ReleaseLocks

LEMMA TypeStep == TypeOK /\ [Next]_vars => TypeOK'
<1> SUFFICES ASSUME TypeOK, [Next]_vars PROVE TypeOK'
  OBVIOUS
<1>1. ASSUME NEW t \in Threads, NEW r \in Requests, Receive(t, r) PROVE TypeOK'
  <2>1. /\ answer' \in [Threads -> Answer]
        /\ pc' \in [Threads -> Statement]
        /\ audit' \subseteq AuditRow
    <3>1. CASE Return(t, "invalid", 0) /\ UNCHANGED audit
      <4>1. answer' \in [Threads -> Answer] /\ pc' \in [Threads -> Statement]
        BY <3>1, ReturnType, Vocabulary
      <4> QED BY <3>1, <4>1 DEF TypeOK
    <3>2. CASE ResolveKey(t, r)
      BY <3>2, ResolveType
    <3>3. CASE /\ GoTo(t, "lock")
               /\ answer' = [answer EXCEPT ![t] = NoAnswer]
               /\ UNCHANGED audit
      BY <3>3, Vocabulary DEF TypeOK, GoTo
    <3> QED BY <1>1, <3>1, <3>2, <3>3 DEF Receive
  <2>2. wanted' \in [Threads -> SUBSET Accounts]
    <3>1. {r.source, r.destination} \in SUBSET Accounts
      BY RequestType
    <3> QED BY <1>1, <3>1 DEF Receive, TypeOK
  <2>3. received' \in 0..MaxRequests
    BY <1>1, MaxRequestsAssumption DEF Receive, TypeOK
  <2> QED BY <1>1, <2>1, <2>2, <2>3 DEF Receive, TypeOK
<1>2. ASSUME NEW t \in Threads, LockAccount(t) PROVE TypeOK'
  BY <1>2, Vocabulary DEF TypeOK, LockAccount, GoTo
<1>3. ASSUME NEW t \in Threads, Recheck(t) PROVE TypeOK'
  <2>1. CASE ResolveKey(t, request[t]) /\ ReleaseLocks(t)
    <3>1. /\ answer' \in [Threads -> Answer]
          /\ pc' \in [Threads -> Statement]
          /\ audit' \subseteq AuditRow
      BY <2>1, ResolveType
    <3>2. /\ holder' \in [Accounts -> Threads \cup {NoThread}]
          /\ slot' \in [Keys -> Threads \cup {NoThread}]
      BY <2>1, ReleaseType
    <3> QED BY <1>3, <3>1, <3>2 DEF Recheck, TypeOK
  <2>2. CASE GoTo(t, "funds") /\ UNCHANGED <<audit, answer, holder, slot>>
    BY <1>3, <2>2, Vocabulary DEF Recheck, TypeOK, GoTo
  <2> QED BY <1>3, <2>1, <2>2 DEF Recheck
<1>4. ASSUME NEW t \in Threads, CheckFunds(t) PROVE TypeOK'
  <2>1. CASE Return(t, "insufficient", 0) /\ ReleaseLocks(t)
    <3>1. answer' \in [Threads -> Answer] /\ pc' \in [Threads -> Statement]
      BY <2>1, ReturnType, Vocabulary
    <3>2. /\ holder' \in [Accounts -> Threads \cup {NoThread}]
          /\ slot' \in [Keys -> Threads \cup {NoThread}]
      BY <2>1, ReleaseType
    <3> QED BY <1>4, <3>1, <3>2 DEF CheckFunds, TypeOK
  <2>2. CASE GoTo(t, "post") /\ UNCHANGED <<answer, holder, slot>>
    BY <1>4, <2>2, Vocabulary DEF CheckFunds, TypeOK, GoTo
  <2> QED BY <1>4, <2>1, <2>2 DEF CheckFunds
<1>5. ASSUME NEW t \in Threads, PostEntry(t) PROVE TypeOK'
  <2>1. /\ holder' \in [Accounts -> Threads \cup {NoThread}]
        /\ slot' \in [Keys -> Threads \cup {NoThread}]
    <3>1. CASE ReleaseLocks(t)
      BY <3>1, ReleaseType
    <3>2. CASE ~ReleaseLocks(t)
      BY <1>5, <3>2 DEF PostEntry, TypeOK
    <3> QED BY <3>1, <3>2
  <2>2. pc' \in [Threads -> Statement]
    <3>1. GoTo(t, "recover") \/ GoTo(t, "audit")
      BY <1>5 DEF PostEntry
    <3> QED BY <3>1, Vocabulary DEF TypeOK, GoTo
  <2>3. written' \in [Threads -> SUBSET {"entry", "audit"}]
    <3>1. UNCHANGED written \/ written' = [written EXCEPT ![t] = {"entry"}]
      BY <1>5 DEF PostEntry
    <3>2. {"entry"} \in SUBSET {"entry", "audit"}
      OBVIOUS
    <3> QED BY <3>1, <3>2 DEF TypeOK
  <2> QED BY <1>5, <2>1, <2>2, <2>3 DEF PostEntry, TypeOK
<1>6. ASSUME NEW t \in Threads, RecordAudit(t) PROVE TypeOK'
  BY <1>6, Vocabulary DEF TypeOK, RecordAudit, GoTo
<1>7. ASSUME NEW t \in Threads, Commit(t) PROVE TypeOK'
  <2>1. /\ holder' \in [Accounts -> Threads \cup {NoThread}]
        /\ slot' \in [Keys -> Threads \cup {NoThread}]
    BY <1>7, ReleaseType DEF Commit
  <2>2. balance' \in [Accounts -> Int]
    BY <1>7, MovedType DEF Commit, TypeOK
  <2>3. Len(journal) + 1 \in Nat /\ journal' \in Seq(Requests)
    BY <1>7 DEF Commit, TypeOK
  <2>4. /\ answer' \in [Threads -> Answer]
        /\ pc' \in [Threads -> Statement]
        /\ audit' \subseteq AuditRow
    BY <1>7, <2>3, Vocabulary DEF Commit, TypeOK, GoTo
  <2> QED BY <1>7, <2>1, <2>2, <2>3, <2>4 DEF Commit, TypeOK
<1>8. ASSUME NEW t \in Threads, Announce(t) PROVE TypeOK'
  BY <1>8, Vocabulary DEF TypeOK, Announce, GoTo, Answer
<1>9. ASSUME NEW t \in Threads, Recover(t) PROVE TypeOK'
  <2>1. /\ answer' \in [Threads -> Answer]
        /\ pc' \in [Threads -> Statement]
        /\ audit' \subseteq AuditRow
    BY <1>9, ResolveType DEF Recover
  <2> QED BY <1>9, <2>1 DEF Recover, TypeOK
<1>10. ASSUME NEW t \in Threads, Crash(t) PROVE TypeOK'
  <2>1. /\ holder' \in [Accounts -> Threads \cup {NoThread}]
        /\ slot' \in [Keys -> Threads \cup {NoThread}]
    BY <1>10, ReleaseType DEF Crash
  <2> QED BY <1>10, <2>1, Vocabulary DEF Crash, TypeOK, GoTo
<1>11. CASE UNCHANGED vars
  BY <1>11 DEF TypeOK, vars
<1> QED
  BY <1>1, <1>2, <1>3, <1>4, <1>5, <1>6, <1>7, <1>8, <1>9, <1>10, <1>11
     DEF Next, Step, Quiet

(* Every variable keeps its type, whatever the threads do.                 *)
THEOREM TypeCorrect == Spec => []TypeOK
<1>1. Init => TypeOK
  BY RequestsAssumption, OpeningAssumption, MaxRequestsAssumption, Vocabulary
     DEF Init, TypeOK
<1>2. QED BY <1>1, TypeStep, PTL DEF Spec
-----------------------------------------------------------------------------
(* The inductive invariant. Each part speaks of one thread t: which locks  *)
(* it holds, and what it may rely on because it holds them.                *)

InTransaction == {"recheck", "funds", "post", "audit", "commit"}
Pair(t) == {request[t].source, request[t].destination}

(* The service validated the request before it opened the transaction.     *)
ValidInv(t) ==
    pc[t] \in InTransaction \cup {"lock", "recover"} =>
        request[t].amount > 0 /\ request[t].source # request[t].destination

(* The account rows t holds are determined by where it is, and they are    *)
(* taken in ascending order.                                               *)
HoldsInv(t) ==
    /\ pc[t] = "lock" =>
         /\ wanted[t] # {}
         /\ wanted[t] \subseteq Pair(t)
         /\ \A a \in Accounts : holder[a] = t <=> a \in Pair(t) \ wanted[t]
         /\ \A a \in Pair(t) \ wanted[t], b \in wanted[t] : a < b
    /\ pc[t] \in InTransaction =>
         \A a \in Accounts : holder[a] = t <=> a \in Pair(t)
    /\ pc[t] \notin InTransaction \cup {"lock"} =>
         \A a \in Accounts : holder[a] # t

(* The index entry t holds is that of its own uncommitted posting.         *)
SlotInv(t) ==
    \A k \in Keys :
        slot[k] = t <=> pc[t] \in {"audit", "commit"} /\ request[t].key = k

(* Nobody commits an entry with the key t has inserted.                    *)
KeyInv(t) ==
    pc[t] \in {"audit", "commit"} => EntriesKeyed(journal, request[t].key) = {}

(* The money t has checked is still there.                                 *)
FundsInv(t) ==
    pc[t] \in {"post", "audit", "commit"} =>
        balance[request[t].source] >= request[t].amount

ThreadInv(t) ==
    ValidInv(t) /\ HoldsInv(t) /\ SlotInv(t) /\ KeyInv(t) /\ FundsInv(t)

IInv ==
    /\ TypeOK
    /\ \A t \in Threads : ThreadInv(t)
    /\ NoOverdraft
    /\ KeySpentOnce

-----------------------------------------------------------------------------
(* A step of one thread leaves the others' part of the state alone.        *)

ThreadStep(t) == (\E r \in Requests : Receive(t, r)) \/ Step(t) \/ Crash(t)

LEMMA Released ==
    ASSUME TypeOK, NEW t \in Threads, ReleaseLocks(t)
    PROVE  /\ \A a \in Accounts : holder'[a] # t
           /\ \A k \in Keys : slot'[k] # t
           /\ \A u \in Threads \ {t} :
                /\ \A a \in Accounts : holder'[a] = u <=> holder[a] = u
                /\ \A k \in Keys : slot'[k] = u <=> slot[k] = u
  BY ThreadsAssumption DEF ReleaseLocks, TypeOK

SameFor(u) ==
    /\ pc'[u] = pc[u]
    /\ request'[u] = request[u]
    /\ wanted'[u] = wanted[u]
    /\ \A a \in Accounts : holder'[a] = u <=> holder[a] = u
    /\ \A k \in Keys : slot'[k] = u <=> slot[k] = u

LEMMA Frame ==
    ASSUME TypeOK, NEW t \in Threads, NEW u \in Threads, u # t, ThreadStep(t)
    PROVE  SameFor(u)
<1>1. CASE \E r \in Requests : Receive(t, r)
  BY <1>1 DEF Receive, ResolveKey, Return, GoTo, TypeOK, SameFor
<1>2. CASE LockAccount(t)
  <2> DEFINE a == Least(wanted[t])
  <2>1. holder[a] = NoThread /\ holder' = [holder EXCEPT ![a] = t]
    BY <1>2 DEF LockAccount
  <2>2. \A b \in Accounts : holder'[b] = u <=> holder[b] = u
    BY <2>1, ThreadsAssumption DEF TypeOK
  <2> QED BY <1>2, <2>2 DEF LockAccount, GoTo, TypeOK, SameFor
<1>3. CASE Recheck(t)
  <2>1. CASE ReleaseLocks(t)
    <3>1. /\ \A a \in Accounts : holder'[a] = u <=> holder[a] = u
          /\ \A k \in Keys : slot'[k] = u <=> slot[k] = u
      BY <2>1, Released
    <3> QED BY <1>3, <3>1 DEF Recheck, ResolveKey, Return, GoTo, SameFor, TypeOK
  <2>2. CASE UNCHANGED <<holder, slot>>
    BY <1>3, <2>2 DEF Recheck, ResolveKey, Return, GoTo, SameFor, TypeOK
  <2> QED BY <1>3, <2>1, <2>2 DEF Recheck
<1>4. CASE CheckFunds(t)
  <2>1. CASE ReleaseLocks(t)
    <3>1. /\ \A a \in Accounts : holder'[a] = u <=> holder[a] = u
          /\ \A k \in Keys : slot'[k] = u <=> slot[k] = u
      BY <2>1, Released
    <3> QED BY <1>4, <3>1 DEF CheckFunds, Return, GoTo, SameFor, TypeOK
  <2>2. CASE UNCHANGED <<holder, slot>>
    BY <1>4, <2>2 DEF CheckFunds, Return, GoTo, SameFor, TypeOK
  <2> QED BY <1>4, <2>1, <2>2 DEF CheckFunds
<1>5. CASE PostEntry(t)
  <2> DEFINE k == request[t].key
  <2>1. CASE ReleaseLocks(t) /\ GoTo(t, "recover") /\ UNCHANGED <<request, wanted>>
    BY <2>1, Released DEF GoTo, SameFor
  <2>2. CASE /\ k \in Keys => slot[k] = NoThread
             /\ slot' = [j \in Keys |-> IF j = k THEN t ELSE slot[j]]
             /\ GoTo(t, "audit")
             /\ UNCHANGED <<holder, request, wanted>>
    BY <2>2, ThreadsAssumption DEF GoTo, SameFor, TypeOK
  <2> QED BY <1>5, <2>1, <2>2 DEF PostEntry
<1>6. CASE RecordAudit(t)
  BY <1>6 DEF RecordAudit, GoTo, SameFor
<1>7. CASE Commit(t)
  BY <1>7, Released DEF Commit, GoTo, SameFor
<1>8. CASE Announce(t)
  BY <1>8 DEF Announce, GoTo, SameFor
<1>9. CASE Recover(t)
  BY <1>9 DEF Recover, ResolveKey, Return, GoTo, SameFor, TypeOK
<1>10. CASE Crash(t)
  BY <1>10, Released DEF Crash, GoTo, SameFor
<1> QED
  BY <1>1, <1>2, <1>3, <1>4, <1>5, <1>6, <1>7, <1>8, <1>9, <1>10
     DEF ThreadStep, Step
-----------------------------------------------------------------------------
(* What a thread's own step does to its locks.                             *)

(* A step that ends the transaction, or never had one, leaves no locks.    *)
LEMMA Unlocked ==
    ASSUME TypeOK, NEW t \in Threads,
           pc'[t] \in {"idle", "announce", "recover"},
           ValidInv(t)' \/ pc'[t] \in {"idle", "announce"},
           \A a \in Accounts : holder'[a] # t,
           \A k \in Keys : slot'[k] # t
    PROVE  ValidInv(t)' /\ HoldsInv(t)' /\ SlotInv(t)'
  BY DEF ValidInv, HoldsInv, SlotInv, InTransaction

LEMMA Outside ==
    ASSUME TypeOK, NEW t \in Threads, HoldsInv(t), SlotInv(t),
           pc[t] \in {"idle", "announce", "recover"}
    PROVE  /\ \A a \in Accounts : holder[a] # t
           /\ \A k \in Keys : slot[k] # t
  BY DEF HoldsInv, SlotInv, InTransaction

LEMMA OwnLocks ==
    ASSUME TypeOK, NEW t \in Threads, ThreadStep(t),
           ValidInv(t), HoldsInv(t), SlotInv(t)
    PROVE  ValidInv(t)' /\ HoldsInv(t)' /\ SlotInv(t)'
<1>1. ASSUME NEW r \in Requests, Receive(t, r)
      PROVE  ValidInv(t)' /\ HoldsInv(t)' /\ SlotInv(t)'
  <2>1. /\ \A a \in Accounts : holder'[a] # t
        /\ \A k \in Keys : slot'[k] # t
    BY <1>1, Outside DEF Receive
  <2>2. CASE pc'[t] = "idle"
    BY <2>1, <2>2, Unlocked
  <2>3. CASE /\ r.amount > 0 /\ r.source # r.destination
             /\ pc'[t] = "lock"
             /\ wanted'[t] = {r.source, r.destination}
             /\ request'[t] = r
    BY <2>1, <2>3 DEF ValidInv, HoldsInv, SlotInv, InTransaction, Pair
  <2> QED
    BY <1>1, <2>2, <2>3 DEF Receive, ResolveKey, Return, GoTo, TypeOK
<1>2. ASSUME LockAccount(t)
      PROVE  ValidInv(t)' /\ HoldsInv(t)' /\ SlotInv(t)'
  <2> DEFINE a == Least(wanted[t])
  <2>1. pc[t] = "lock" /\ request'[t] = request[t] /\ slot' = slot
    BY <1>2 DEF LockAccount
  <2>2. /\ request[t].source \in Accounts /\ request[t].destination \in Accounts
        /\ request[t].source \in Int /\ request[t].destination \in Int
    BY RequestType, AccountsAssumption DEF TypeOK
  <2>3. /\ a \in wanted[t] /\ a \in Pair(t) /\ a \in Accounts
        /\ \A b \in wanted[t] : a <= b /\ b \in Int
    <3>1. wanted[t] \in SUBSET Pair(t) /\ wanted[t] # {}
      BY <2>1 DEF HoldsInv
    <3> QED BY <3>1, <2>2, LeastOfTwo DEF Pair
  <2>4. \A b \in Accounts : holder'[b] = t <=> holder[b] = t \/ b = a
    BY <1>2, <2>3 DEF LockAccount, TypeOK
  <2>5. wanted'[t] = wanted[t] \ {a}
    BY <1>2 DEF LockAccount, TypeOK
  <2>6. \A b \in Accounts : holder'[b] = t <=> b \in Pair(t) \ wanted'[t]
    BY <2>1, <2>3, <2>4, <2>5 DEF HoldsInv
  <2>7. CASE wanted[t] = {a}
    <3>1. pc'[t] = "recheck"
      BY <1>2, <2>7 DEF LockAccount, GoTo, TypeOK
    <3>2. HoldsInv(t)'
      BY <3>1, <2>1, <2>5, <2>6, <2>7 DEF HoldsInv, InTransaction, Pair
    <3> QED BY <3>1, <3>2, <2>1 DEF ValidInv, SlotInv, InTransaction
  <2>8. CASE wanted[t] # {a}
    <3>1. pc'[t] = "lock"
      BY <1>2, <2>8 DEF LockAccount, GoTo, TypeOK
    <3>2. wanted'[t] # {} /\ wanted'[t] \subseteq Pair(t)
      BY <2>1, <2>3, <2>5, <2>8 DEF HoldsInv
    <3>3. \A c \in Pair(t) \ wanted'[t], b \in wanted'[t] : c < b
      <4> SUFFICES ASSUME NEW c \in Pair(t) \ wanted'[t], NEW b \in wanted'[t]
                   PROVE  c < b
        OBVIOUS
      <4>1. c = a \/ c \in Pair(t) \ wanted[t]
        BY <2>5
      <4>2. b \in wanted[t] /\ b # a
        BY <2>5
      <4>3. a <= b /\ a \in Int /\ b \in Int
        BY <4>2, <2>3
      <4> QED BY <4>1, <4>2, <4>3, <2>1 DEF HoldsInv
    <3>4. HoldsInv(t)'
      BY <3>1, <3>2, <3>3, <2>1, <2>6 DEF HoldsInv, InTransaction, Pair
    <3> QED BY <3>1, <3>4, <2>1 DEF ValidInv, SlotInv, InTransaction
  <2> QED BY <2>7, <2>8
<1>3. ASSUME Recheck(t)
      PROVE  ValidInv(t)' /\ HoldsInv(t)' /\ SlotInv(t)'
  <2>1. CASE ResolveKey(t, request[t]) /\ ReleaseLocks(t)
    <3>1. /\ \A a \in Accounts : holder'[a] # t
          /\ \A k \in Keys : slot'[k] # t
      BY <2>1, Released
    <3>2. pc'[t] = "idle"
      BY <2>1 DEF ResolveKey, Return, GoTo, TypeOK
    <3> QED BY <3>1, <3>2, Unlocked
  <2>2. CASE GoTo(t, "funds") /\ UNCHANGED <<audit, answer, holder, slot>>
    BY <1>3, <2>2
       DEF Recheck, GoTo, TypeOK, ValidInv, HoldsInv, SlotInv, InTransaction, Pair
  <2> QED BY <1>3, <2>1, <2>2 DEF Recheck
<1>4. ASSUME CheckFunds(t)
      PROVE  ValidInv(t)' /\ HoldsInv(t)' /\ SlotInv(t)'
  <2>1. CASE Return(t, "insufficient", 0) /\ ReleaseLocks(t)
    <3>1. /\ \A a \in Accounts : holder'[a] # t
          /\ \A k \in Keys : slot'[k] # t
      BY <2>1, Released
    <3>2. pc'[t] = "idle"
      BY <2>1 DEF Return, GoTo, TypeOK
    <3> QED BY <3>1, <3>2, Unlocked
  <2>2. CASE GoTo(t, "post") /\ UNCHANGED <<answer, holder, slot>>
    BY <1>4, <2>2
       DEF CheckFunds, GoTo, TypeOK, ValidInv, HoldsInv, SlotInv, InTransaction, Pair
  <2> QED BY <1>4, <2>1, <2>2 DEF CheckFunds
<1>5. ASSUME PostEntry(t)
      PROVE  ValidInv(t)' /\ HoldsInv(t)' /\ SlotInv(t)'
  <2> DEFINE k == request[t].key
  <2>1. pc[t] = "post" /\ request' = request
    BY <1>5 DEF PostEntry
  <2>2. CASE ReleaseLocks(t) /\ GoTo(t, "recover")
    <3>1. /\ \A a \in Accounts : holder'[a] # t
          /\ \A j \in Keys : slot'[j] # t
      BY <2>2, Released
    <3>2. pc'[t] = "recover"
      BY <2>2 DEF GoTo, TypeOK
    <3>3. ValidInv(t)'
      BY <2>1 DEF ValidInv, InTransaction
    <3> QED BY <3>1, <3>2, <3>3, Unlocked
  <2>3. CASE /\ slot' = [j \in Keys |-> IF j = k THEN t ELSE slot[j]]
             /\ GoTo(t, "audit")
             /\ UNCHANGED holder
    <3>1. pc'[t] = "audit"
      BY <2>3 DEF GoTo, TypeOK
    <3>2. ValidInv(t)' /\ HoldsInv(t)'
      BY <2>1, <2>3, <3>1 DEF ValidInv, HoldsInv, InTransaction, Pair
    <3>3. SlotInv(t)'
      BY <2>1, <2>3, <3>1 DEF SlotInv
    <3> QED BY <3>2, <3>3
  <2> QED BY <1>5, <2>2, <2>3 DEF PostEntry
<1>6. ASSUME RecordAudit(t)
      PROVE  ValidInv(t)' /\ HoldsInv(t)' /\ SlotInv(t)'
  BY <1>6
     DEF RecordAudit, GoTo, TypeOK, ValidInv, HoldsInv, SlotInv, InTransaction, Pair
<1>7. ASSUME Commit(t)
      PROVE  ValidInv(t)' /\ HoldsInv(t)' /\ SlotInv(t)'
  <2>1. /\ \A a \in Accounts : holder'[a] # t
        /\ \A k \in Keys : slot'[k] # t
    BY <1>7, Released DEF Commit
  <2>2. pc'[t] = "announce"
    BY <1>7 DEF Commit, GoTo, TypeOK
  <2> QED BY <2>1, <2>2, Unlocked
<1>8. ASSUME Announce(t) \/ Recover(t)
      PROVE  ValidInv(t)' /\ HoldsInv(t)' /\ SlotInv(t)'
  <2>1. /\ \A a \in Accounts : holder'[a] # t
        /\ \A k \in Keys : slot'[k] # t
    BY <1>8, Outside DEF Announce, Recover
  <2>2. pc'[t] = "idle"
    BY <1>8 DEF Announce, Recover, ResolveKey, Return, GoTo, TypeOK
  <2> QED BY <2>1, <2>2, Unlocked
<1>9. ASSUME Crash(t)
      PROVE  ValidInv(t)' /\ HoldsInv(t)' /\ SlotInv(t)'
  <2>1. /\ \A a \in Accounts : holder'[a] # t
        /\ \A k \in Keys : slot'[k] # t
    BY <1>9, Released DEF Crash
  <2>2. pc'[t] = "idle"
    BY <1>9 DEF Crash, GoTo, TypeOK
  <2> QED BY <2>1, <2>2, Unlocked
<1> QED
  BY <1>1, <1>2, <1>3, <1>4, <1>5, <1>6, <1>7, <1>8, <1>9 DEF ThreadStep, Step
LEMMA Locks ==
    ASSUME IInv, NEW t \in Threads, ThreadStep(t), NEW u \in Threads
    PROVE  ValidInv(u)' /\ HoldsInv(u)' /\ SlotInv(u)'
<1>1. CASE u = t
  BY <1>1, OwnLocks DEF IInv, ThreadInv
<1>2. CASE u # t
  <2>1. SameFor(u)
    BY <1>2, Frame DEF IInv
  <2>2. ValidInv(u) /\ HoldsInv(u) /\ SlotInv(u)
    BY DEF IInv, ThreadInv
  <2>3. ValidInv(u)'
    BY <2>1, <2>2 DEF SameFor, ValidInv
  <2>4. HoldsInv(u)'
    BY <2>1, <2>2 DEF SameFor, HoldsInv, Pair
  <2>5. SlotInv(u)'
    BY <2>1, <2>2 DEF SameFor, SlotInv
  <2> QED BY <2>3, <2>4, <2>5
<1> QED BY <1>1, <1>2

-----------------------------------------------------------------------------
(* The ledger only changes at COMMIT.                                      *)

LEMMA OnlyCommitPosts ==
    ASSUME NEW t \in Threads, ThreadStep(t), ~Commit(t)
    PROVE  UNCHANGED <<journal, balance>>
  BY DEF ThreadStep, Step, Receive, LockAccount, Recheck, CheckFunds,
         PostEntry, RecordAudit, Announce, Recover, Crash

(* A thread about to commit holds both rows, so nobody else has checked    *)
(* the money it is about to move.                                          *)
LEMMA CommitDisjoint ==
    ASSUME IInv, NEW t \in Threads, Commit(t),
           NEW u \in Threads, u # t, pc[u] \in {"post", "audit", "commit"}
    PROVE  request[u].source \notin Pair(t)
<1>1. request[u].source \in Accounts
  BY RequestType DEF IInv, TypeOK
<1>2. holder[request[u].source] = u
  BY <1>1 DEF IInv, ThreadInv, HoldsInv, InTransaction, Pair
<1>3. request[u].source \in Pair(t) => holder[request[u].source] = t
  BY <1>1 DEF IInv, ThreadInv, HoldsInv, InTransaction, Commit
<1> QED BY <1>2, <1>3

LEMMA CommitEffect ==
    ASSUME IInv, NEW t \in Threads, Commit(t)
    PROVE  /\ journal' = Append(journal, request[t])
           /\ EntriesKeyed(journal, request[t].key) = {}
           /\ request[t].amount > 0
           /\ request[t].source # request[t].destination
           /\ balance[request[t].source] >= request[t].amount
           /\ \A a \in Accounts \ Pair(t) : balance'[a] = balance[a]
           /\ balance'[request[t].source] = balance[request[t].source] - request[t].amount
           /\ balance'[request[t].destination]
                = balance[request[t].destination] + request[t].amount
<1>1. ThreadInv(t) /\ pc[t] = "commit"
  BY DEF IInv, Commit
<1>2. /\ request[t].amount > 0
      /\ request[t].source # request[t].destination
      /\ balance[request[t].source] >= request[t].amount
      /\ EntriesKeyed(journal, request[t].key) = {}
  BY <1>1 DEF ThreadInv, ValidInv, FundsInv, KeyInv, InTransaction
<1>3. /\ request[t] \in Requests /\ balance \in [Accounts -> Int]
      /\ request[t].source \in Accounts /\ request[t].destination \in Accounts
      /\ request[t].amount \in Int
  BY RequestType DEF IInv, TypeOK
<1>4. journal' = Append(journal, request[t]) /\ balance' = Moved(balance, request[t])
  BY DEF Commit
<1> QED BY <1>2, <1>3, <1>4 DEF Moved, Pair

LEMMA NoOverdraftStep ==
    ASSUME IInv, NEW t \in Threads, ThreadStep(t)
    PROVE  NoOverdraft'
<1>1. CASE Commit(t)
  <2> SUFFICES ASSUME NEW a \in Accounts PROVE balance'[a] >= 0
    BY DEF NoOverdraft
  <2>1. balance[a] >= 0 /\ balance[a] \in Int /\ request[t].amount \in Int
    BY RequestType DEF IInv, NoOverdraft, TypeOK
  <2>2. CASE a \notin Pair(t)
    BY <1>1, <2>1, <2>2, CommitEffect
  <2>3. CASE a \in Pair(t)
    BY <1>1, <2>1, <2>3, CommitEffect DEF Pair
  <2> QED BY <2>2, <2>3
<1>2. CASE ~Commit(t)
  BY <1>2, OnlyCommitPosts DEF IInv, NoOverdraft
<1> QED BY <1>1, <1>2

LEMMA KeySpentOnceStep ==
    ASSUME IInv, NEW t \in Threads, ThreadStep(t)
    PROVE  KeySpentOnce'
<1>1. CASE Commit(t)
  <2> SUFFICES ASSUME NEW m \in DOMAIN journal', NEW n \in DOMAIN journal',
                      journal'[m].key = journal'[n].key,
                      journal'[m].key # NoKey
               PROVE  m = n
    BY DEF KeySpentOnce
  <2>1. /\ journal \in Seq(Requests) /\ request[t] \in Requests
        /\ journal' = Append(journal, request[t])
        /\ EntriesKeyed(journal, request[t].key) = {}
    BY <1>1, CommitEffect DEF IInv, TypeOK
  <2>2. /\ DOMAIN journal' = 1..(Len(journal) + 1) /\ DOMAIN journal = 1..Len(journal)
        /\ Len(journal) \in Nat
        /\ journal'[Len(journal) + 1] = request[t]
        /\ \A i \in 1..Len(journal) : journal'[i] = journal[i]
    BY <2>1
  <2>3. \A i \in 1..Len(journal) :
            request[t].key # NoKey => journal[i].key # request[t].key
    BY <2>1, <2>2 DEF EntriesKeyed
  <2> QED BY <2>2, <2>3 DEF IInv, KeySpentOnce
<1>2. CASE ~Commit(t)
  BY <1>2, OnlyCommitPosts DEF IInv, KeySpentOnce
<1> QED BY <1>1, <1>2

LEMMA FundsStep ==
    ASSUME IInv, NEW t \in Threads, ThreadStep(t), NEW u \in Threads
    PROVE  FundsInv(u)'
<1>1. CASE u # t
  <2>1. SameFor(u)
    BY <1>1, Frame DEF IInv
  <2>2. CASE Commit(t)
    <3> SUFFICES ASSUME pc[u] \in {"post", "audit", "commit"}
                 PROVE  balance'[request[u].source] >= request[u].amount
      BY <2>1 DEF FundsInv, SameFor
    <3>1. request[u].source \in Accounts \ Pair(t)
      BY <1>1, <2>2, CommitDisjoint, RequestType DEF IInv, TypeOK
    <3> QED BY <2>2, <3>1, CommitEffect DEF IInv, ThreadInv, FundsInv
  <2>3. CASE ~Commit(t)
    BY <2>1, <2>3, OnlyCommitPosts DEF SameFor, IInv, ThreadInv, FundsInv
  <2> QED BY <2>2, <2>3
<1>2. CASE u = t /\ pc'[t] \in {"post", "audit", "commit"}
  <2>1. ~Commit(t)
    BY <1>2 DEF Commit, GoTo, IInv, TypeOK
  <2>2. \/ pc[t] \in {"post", "audit", "commit"}
        \/ balance[request[t].source] >= request[t].amount
    BY <1>2
       DEF ThreadStep, Step, Receive, LockAccount, Recheck, CheckFunds,
           PostEntry, RecordAudit, Commit, Announce, Recover, Crash,
           ResolveKey, Return, GoTo, IInv, TypeOK
  <2>3. request'[t] = request[t]
    BY <1>2
       DEF ThreadStep, Step, Receive, LockAccount, Recheck, CheckFunds,
           PostEntry, RecordAudit, Commit, Announce, Recover, Crash,
           ResolveKey, Return, GoTo, IInv, TypeOK
  <2> QED BY <1>2, <2>1, <2>2, <2>3, OnlyCommitPosts DEF IInv, ThreadInv, FundsInv
<1>3. CASE u = t /\ pc'[t] \notin {"post", "audit", "commit"}
  BY <1>3 DEF FundsInv
<1> QED BY <1>1, <1>2, <1>3

LEMMA KeyStep ==
    ASSUME IInv, NEW t \in Threads, ThreadStep(t), NEW u \in Threads
    PROVE  KeyInv(u)'
<1>1. CASE u # t
  <2>1. SameFor(u)
    BY <1>1, Frame DEF IInv
  <2>2. CASE Commit(t)
    <3> SUFFICES ASSUME pc[u] \in {"audit", "commit"}
                 PROVE  EntriesKeyed(journal', request[u].key) = {}
      BY <2>1 DEF KeyInv, SameFor
    <3>1. EntriesKeyed(journal, request[u].key) = {}
      BY DEF IInv, ThreadInv, KeyInv
    <3>2. request[u].key = NoKey \/ request[t].key # request[u].key
      <4>1. request[u].key \in Keys \cup {NoKey}
        BY RequestType DEF IInv, TypeOK
      <4>2. pc[t] = "commit"
        BY <2>2 DEF Commit
      <4> QED BY <1>1, <4>1, <4>2 DEF IInv, ThreadInv, SlotInv
    <3>3. journal' = Append(journal, request[t]) /\ journal \in Seq(Requests)
          /\ request[t] \in Requests
      BY <2>2, CommitEffect DEF IInv, TypeOK
    <3>4. /\ DOMAIN journal' = 1..(Len(journal) + 1) /\ DOMAIN journal = 1..Len(journal)
          /\ Len(journal) \in Nat
          /\ journal'[Len(journal) + 1] = request[t]
          /\ \A i \in 1..Len(journal) : journal'[i] = journal[i]
      BY <3>3
    <3> QED BY <3>1, <3>2, <3>4 DEF EntriesKeyed
  <2>3. CASE ~Commit(t)
    BY <2>1, <2>3, OnlyCommitPosts DEF SameFor, IInv, ThreadInv, KeyInv
  <2> QED BY <2>2, <2>3
<1>2. CASE u = t /\ pc'[t] \in {"audit", "commit"}
  <2>1. ~Commit(t)
    BY <1>2 DEF Commit, GoTo, IInv, TypeOK
  <2>2. \/ pc[t] \in {"audit", "commit"}
        \/ EntriesKeyed(journal, request[t].key) = {}
    BY <1>2
       DEF ThreadStep, Step, Receive, LockAccount, Recheck, CheckFunds,
           PostEntry, RecordAudit, Commit, Announce, Recover, Crash,
           ResolveKey, Return, GoTo, IInv, TypeOK
  <2>3. request'[t] = request[t]
    BY <1>2
       DEF ThreadStep, Step, Receive, LockAccount, Recheck, CheckFunds,
           PostEntry, RecordAudit, Commit, Announce, Recover, Crash,
           ResolveKey, Return, GoTo, IInv, TypeOK
  <2> QED BY <1>2, <2>1, <2>2, <2>3, OnlyCommitPosts DEF IInv, ThreadInv, KeyInv
<1>3. CASE u = t /\ pc'[t] \notin {"audit", "commit"}
  BY <1>3 DEF KeyInv
<1> QED BY <1>1, <1>2, <1>3

-----------------------------------------------------------------------------
(* The invariant and what follows from it.                                 *)

LEMMA NextIsThreadStep ==
    ASSUME [Next]_vars
    PROVE  UNCHANGED vars \/ \E t \in Threads : ThreadStep(t)
  BY DEF Next, ThreadStep, Quiet

LEMMA Invariance == Spec => []IInv
<1>1. Init => IInv
  <2> SUFFICES ASSUME Init PROVE IInv
    OBVIOUS
  <2>1. TypeOK
    BY RequestsAssumption, OpeningAssumption, MaxRequestsAssumption, Vocabulary
       DEF Init, TypeOK
  <2>2. NoOverdraft /\ KeySpentOnce
    BY OpeningAssumption DEF Init, NoOverdraft, KeySpentOnce
  <2>3. \A t \in Threads : ThreadInv(t)
    BY ThreadsAssumption
       DEF Init, ThreadInv, ValidInv, HoldsInv, SlotInv, KeyInv, FundsInv, InTransaction
  <2> QED BY <2>1, <2>2, <2>3 DEF IInv
<1>2. IInv /\ [Next]_vars => IInv'
  <2> SUFFICES ASSUME IInv, [Next]_vars PROVE IInv'
    OBVIOUS
  <2>1. TypeOK'
    BY TypeStep DEF IInv
  <2>2. CASE UNCHANGED vars
    BY <2>1, <2>2
       DEF vars, IInv, ThreadInv, ValidInv, HoldsInv, SlotInv, KeyInv, FundsInv,
           Pair, NoOverdraft, KeySpentOnce
  <2>3. ASSUME NEW t \in Threads, ThreadStep(t) PROVE IInv'
    BY <2>1, <2>3, Locks, FundsStep, KeyStep, NoOverdraftStep, KeySpentOnceStep
       DEF IInv, ThreadInv
  <2> QED BY <2>2, <2>3, NextIsThreadStep
<1> QED BY <1>1, <1>2, PTL DEF Spec

(* Racing transfers never overdraw an account, with any number of threads. *)
THEOREM NoOverdraftHolds == Spec => []NoOverdraft
<1>1. IInv => NoOverdraft
  BY DEF IInv
<1> QED BY <1>1, Invariance, PTL

(* An idempotency key posts at most one entry, whatever races, crashes and *)
(* retries happen.                                                         *)
THEOREM KeySpentOnceHolds == Spec => []KeySpentOnce
<1>1. IInv => KeySpentOnce
  BY DEF IInv
<1> QED BY <1>1, Invariance, PTL

(* Deadlock is structurally impossible: the accounts are taken in          *)
(* ascending order by all threads, and who waits for a key waits for a     *)
(* thread that needs nothing more.                                         *)
THEOREM OrderedWaitingHolds == Spec => []OrderedWaiting
<1>1. IInv => OrderedWaiting
  <2> SUFFICES ASSUME IInv, NEW t \in Threads
               PROVE  /\ pc[t] = "lock" =>
                           \A a \in Accounts : holder[a] = t => a < Least(wanted[t])
                      /\ pc[t] = "post" =>
                           \A u \in Threads : WaitsFor(t, u) => pc[u] \in {"audit", "commit"}
    BY DEF OrderedWaiting
  <2>1. ASSUME pc[t] = "lock", NEW a \in Accounts, holder[a] = t
        PROVE  a < Least(wanted[t])
    <3>1. /\ request[t].source \in Int /\ request[t].destination \in Int
      BY RequestType, AccountsAssumption DEF IInv, TypeOK
    <3>2. wanted[t] \in SUBSET Pair(t) /\ wanted[t] # {} /\ a \in Pair(t) \ wanted[t]
      BY <2>1 DEF IInv, ThreadInv, HoldsInv
    <3>3. Least(wanted[t]) \in wanted[t]
      BY <3>1, <3>2, LeastOfTwo DEF Pair
    <3> QED BY <2>1, <3>2, <3>3 DEF IInv, ThreadInv, HoldsInv
  <2>2. ASSUME pc[t] = "post", NEW u \in Threads, WaitsFor(t, u)
        PROVE  pc[u] \in {"audit", "commit"}
    BY <2>2 DEF WaitsFor, IInv, ThreadInv, SlotInv
  <2> QED BY <2>1, <2>2
<1> QED BY <1>1, Invariance, PTL

-----------------------------------------------------------------------------
(* Transfers implements MoneyLedger.                                       *)

LEMMA CommitPosts ==
    ASSUME IInv, NEW t \in Threads, Commit(t)
    PROVE  ledger!Next
<1>1. request[t] \in Requests
  BY DEF IInv, TypeOK
<1>2. balance' = Moved(balance, request[t])
  BY DEF Commit
<1>3. ledger!Post(request[t])
  BY <1>2, CommitEffect DEF ledger!Post, ledger!EntriesKeyed, ledger!Moved, EntriesKeyed, Moved
<1> QED BY <1>1, <1>3 DEF ledger!Next

(* What the concurrent service commits is a behaviour of the abstract      *)
(* ledger: one covered movement at a time, each key spent once.            *)
THEOREM LedgerImplemented == Spec => ImplementsLedger
<1>1. Init => ledger!Init
  BY DEF Init, ledger!Init
<1>2. IInv /\ [Next]_vars => [ledger!Next]_(ledger!ledgerVars)
  <2> SUFFICES ASSUME IInv, [Next]_vars
               PROVE  ledger!Next \/ UNCHANGED ledger!ledgerVars
    OBVIOUS
  <2>1. CASE UNCHANGED vars
    BY <2>1 DEF vars, ledger!ledgerVars
  <2>2. ASSUME NEW t \in Threads, ThreadStep(t)
        PROVE  ledger!Next \/ UNCHANGED ledger!ledgerVars
    <3>1. CASE Commit(t)
      BY <3>1, CommitPosts
    <3>2. CASE ~Commit(t)
      BY <2>2, <3>2, OnlyCommitPosts DEF ledger!ledgerVars
    <3> QED BY <3>1, <3>2
  <2> QED BY <2>1, <2>2, NextIsThreadStep
<1> QED BY <1>1, <1>2, Invariance, PTL DEF Spec, ImplementsLedger, ledger!Spec

-----------------------------------------------------------------------------
(* Answers, audit rows and events against the journal.                     *)

(* A thread commits its audit row with its entry, and announces an entry   *)
(* that is in the journal.                                                 *)
WrittenInv(t) == pc[t] = "commit" => "audit" \in written[t]

AnnounceInv(t) == pc[t] = "announce" => answer[t].entry \in DOMAIN journal

AnswerInv(t) ==
    answer[t].outcome \in {"posted", "replayed"} =>
        answer[t].entry \in DOMAIN journal /\ journal[answer[t].entry] = request[t]

ReportInv(t) == WrittenInv(t) /\ AnnounceInv(t) /\ AnswerInv(t)

LogInv ==
    /\ LogMatchesLedger
    /\ \A t \in Threads : ReportInv(t)

LEMMA JournalGrows ==
    ASSUME TypeOK, NEW t \in Threads, ThreadStep(t)
    PROVE  /\ DOMAIN journal \subseteq DOMAIN journal'
           /\ \A n \in DOMAIN journal : journal'[n] = journal[n]
<1>1. CASE Commit(t)
  BY <1>1 DEF Commit, TypeOK
<1>2. CASE ~Commit(t)
  BY <1>2, OnlyCommitPosts
<1> QED BY <1>1, <1>2

(* COMMIT appends one entry, and names it in the audit row and the answer. *)
LEMMA CommitReports ==
    ASSUME TypeOK, NEW t \in Threads, Commit(t)
    PROVE  /\ DOMAIN journal' = DOMAIN journal \cup {Len(journal) + 1}
           /\ journal'[Len(journal) + 1] = request[t]
           /\ answer'[t] = Answered("posted", Len(journal) + 1)
           /\ pc'[t] = "announce"
           /\ request' = request
           /\ announced' = announced
           /\ "audit" \in written[t] => audit' = audit \cup {PostedRow(Len(journal) + 1)}
<1>1. journal \in Seq(Requests) /\ request[t] \in Requests
  BY DEF TypeOK
<1> QED BY <1>1 DEF Commit, GoTo, TypeOK

(* A step that resolves a key reports an entry of the journal.             *)
LEMMA ResolveReports ==
    ASSUME TypeOK, NEW t \in Threads, NEW r, ResolveKey(t, r)
    PROVE  /\ pc'[t] = "idle"
           /\ \A row \in audit' : row \in audit \/ row.entry \in DOMAIN journal
           /\ audit \subseteq audit'
           /\ answer'[t].outcome \in {"posted", "replayed"} =>
                /\ answer'[t].entry \in DOMAIN journal
                /\ journal[answer'[t].entry] = r
<1>1. CASE Return(t, "conflict", 0) /\ UNCHANGED audit
  BY <1>1 DEF Return, GoTo, Answered, TypeOK
<1>2. ASSUME NEW n \in ReplayedEntry(r), Return(t, "replayed", n),
             audit' = audit \cup {ReplayedRow(n)}
      PROVE  /\ pc'[t] = "idle"
             /\ \A row \in audit' : row \in audit \/ row.entry \in DOMAIN journal
             /\ audit \subseteq audit'
             /\ answer'[t].entry \in DOMAIN journal
             /\ journal[answer'[t].entry] = r
  <2>1. n \in DOMAIN journal /\ journal[n] = r
    BY DEF ReplayedEntry, EntriesKeyed
  <2> QED BY <1>2, <2>1 DEF Return, GoTo, Answered, ReplayedRow, TypeOK
<1> QED BY <1>1, <1>2 DEF ResolveKey

(* Only three kinds of steps touch the log and the events.                 *)
LEMMA LogSteps ==
    ASSUME TypeOK, LogMatchesLedger, NEW t \in Threads, ThreadStep(t), ReportInv(t)
    PROVE  LogMatchesLedger'
<1>1. CASE Commit(t)
  <2>1. pc[t] = "commit"
    BY <1>1 DEF Commit
  <2>2. audit' = audit \cup {PostedRow(Len(journal) + 1)}
    BY <1>1, <2>1, CommitReports DEF ReportInv, WrittenInv
  <2>3. \A n \in DOMAIN journal' : PostedRow(n) \in audit'
    BY <1>1, <2>2, CommitReports DEF LogMatchesLedger
  <2>4. \A row \in audit' : row.entry \in DOMAIN journal'
    BY <1>1, <2>2, CommitReports DEF LogMatchesLedger, PostedRow
  <2>5. announced' \subseteq DOMAIN journal'
    BY <1>1, CommitReports DEF LogMatchesLedger
  <2> QED BY <2>3, <2>4, <2>5 DEF LogMatchesLedger
<1>2. CASE ~Commit(t)
  <2>1. UNCHANGED journal
    BY <1>2, OnlyCommitPosts
  <2>2. CASE Announce(t)
    <3>1. pc[t] = "announce" /\ announced' = announced \cup {answer[t].entry} /\ audit' = audit
      BY <2>2 DEF Announce
    <3> QED BY <2>1, <3>1 DEF LogMatchesLedger, ReportInv, AnnounceInv
  <2>3. CASE \E r : ResolveKey(t, r) /\ announced' = announced
    BY <2>1, <2>3, ResolveReports DEF LogMatchesLedger
  <2>4. CASE UNCHANGED <<audit, announced>>
    BY <2>1, <2>4 DEF LogMatchesLedger
  <2> QED
    BY <1>2, <2>2, <2>3, <2>4
       DEF ThreadStep, Step, Receive, LockAccount, Recheck, CheckFunds,
           PostEntry, RecordAudit, Announce, Recover, Crash
<1> QED BY <1>1, <1>2

LEMMA OtherReports ==
    ASSUME TypeOK, NEW t \in Threads, NEW u \in Threads, u # t, ThreadStep(t), ReportInv(u)
    PROVE  ReportInv(u)'
<1>1. SameFor(u)
  BY Frame
<1>2. written'[u] = written[u] /\ answer'[u] = answer[u]
  BY DEF ThreadStep, Step, Receive, LockAccount, Recheck, CheckFunds, PostEntry,
         RecordAudit, Commit, Announce, Recover, Crash, ResolveKey, Return, TypeOK
<1> QED BY <1>1, <1>2, JournalGrows
           DEF SameFor, ReportInv, WrittenInv, AnnounceInv, AnswerInv

LEMMA OwnReport ==
    ASSUME TypeOK, NEW t \in Threads, ThreadStep(t), ReportInv(t)
    PROVE  ReportInv(t)'
<1>1. CASE Commit(t)
  BY <1>1, CommitReports DEF ReportInv, WrittenInv, AnnounceInv, AnswerInv, Answered
<1>2. CASE ~Commit(t)
  <2>1. journal' = journal
    BY <1>2, OnlyCommitPosts
  <2>2. ASSUME NEW r \in Requests, Receive(t, r) PROVE ReportInv(t)'
    <3>1. request'[t] = r
      BY <2>2 DEF Receive, TypeOK
    <3>2. CASE ResolveKey(t, r)
      BY <2>1, <3>1, <3>2, ResolveReports
         DEF ReportInv, WrittenInv, AnnounceInv, AnswerInv
    <3>3. CASE \/ Return(t, "invalid", 0)
               \/ GoTo(t, "lock") /\ answer' = [answer EXCEPT ![t] = NoAnswer]
      BY <3>3 DEF ReportInv, WrittenInv, AnnounceInv, AnswerInv, Return, GoTo,
                  Answered, NoAnswer, TypeOK
    <3> QED BY <2>2, <3>2, <3>3 DEF Receive
  <2>3. CASE Recheck(t) \/ Recover(t)
    <3>1. request' = request
      BY <2>3 DEF Recheck, Recover
    <3>2. CASE ResolveKey(t, request[t])
      BY <2>1, <3>1, <3>2, ResolveReports
         DEF ReportInv, WrittenInv, AnnounceInv, AnswerInv
    <3>3. CASE GoTo(t, "funds") /\ answer' = answer
      BY <2>1, <3>1, <3>3
         DEF GoTo, TypeOK, ReportInv, WrittenInv, AnnounceInv, AnswerInv
    <3> QED BY <2>3, <3>2, <3>3 DEF Recheck, Recover
  <2>4. CASE CheckFunds(t)
    BY <2>1, <2>4 DEF CheckFunds, Return, GoTo, Answered, TypeOK, ReportInv,
                      WrittenInv, AnnounceInv, AnswerInv
  <2>5. CASE LockAccount(t) \/ PostEntry(t) \/ Announce(t)
    BY <2>1, <2>5 DEF LockAccount, PostEntry, Announce, GoTo, TypeOK, ReportInv,
                      WrittenInv, AnnounceInv, AnswerInv
  <2>6. CASE RecordAudit(t)
    BY <2>1, <2>6 DEF RecordAudit, GoTo, TypeOK, ReportInv, WrittenInv, AnnounceInv, AnswerInv
  <2>7. CASE Crash(t)
    BY <2>1, <2>7 DEF Crash, GoTo, NoAnswer, TypeOK, ReportInv, WrittenInv, AnnounceInv, AnswerInv
  <2> QED BY <1>2, <2>2, <2>3, <2>4, <2>5, <2>6, <2>7 DEF ThreadStep, Step
<1> QED BY <1>1, <1>2

LEMMA LogInvariance == Spec => []LogInv
<1>1. Init => LogInv
  BY DEF Init, LogInv, LogMatchesLedger, ReportInv, WrittenInv, AnnounceInv,
         AnswerInv, NoAnswer
<1>2. TypeOK /\ LogInv /\ [Next]_vars => LogInv'
  <2> SUFFICES ASSUME TypeOK, LogInv, [Next]_vars PROVE LogInv'
    OBVIOUS
  <2>1. CASE UNCHANGED vars
    BY <2>1 DEF vars, LogInv, LogMatchesLedger, ReportInv, WrittenInv,
                AnnounceInv, AnswerInv
  <2>2. ASSUME NEW t \in Threads, ThreadStep(t) PROVE LogInv'
    BY <2>2, LogSteps, OtherReports, OwnReport DEF LogInv
  <2> QED BY <2>1, <2>2, NextIsThreadStep
<1> QED BY <1>1, <1>2, TypeCorrect, PTL DEF Spec

(* The log claims exactly the movements that were committed, and events    *)
(* are sent for no others, whatever crashes and rollbacks happen.          *)
THEOREM LogMatchesLedgerHolds == Spec => []LogMatchesLedger
<1>1. LogInv => LogMatchesLedger
  BY DEF LogInv
<1> QED BY <1>1, LogInvariance, PTL

(* "Posted" and "replayed" are only ever said about the caller's own       *)
(* request.                                                                *)
THEOREM AnswersAreTrue == Spec => []AnswerNamesTheRequest
<1>1. LogInv => AnswerNamesTheRequest
  BY DEF LogInv, ReportInv, AnswerInv, AnswerNamesTheRequest
<1> QED BY <1>1, LogInvariance, PTL
=============================================================================
