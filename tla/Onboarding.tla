----------------------------- MODULE Onboarding -----------------------------
(***************************************************************************)
(* Registration: RegisterSerializer of backend/identity/serializers.py,    *)
(* open_starter_accounts of backend/ledger/onboarding.py, and the lookup   *)
(* of a login in backend/identity/backends.py.                             *)
(*                                                                         *)
(* The two uniqueness checks are queries of their own, before the          *)
(* transaction that inserts; only the username has a unique index behind   *)
(* it. The transaction inserts the user, two accounts, the opening deposit *)
(* and an audit row; its rows exist for the other requests once it has     *)
(* committed, and not at all once it has rolled back.                      *)
(***************************************************************************)
EXTENDS Integers, Sequences, FiniteSets

CONSTANTS
    Requests,           \* POSTs to /auth/register/
    Identifiers,        \* what a username or an e-mail address may be
    Folded,             \* their lower-case form, what iexact compares
    Forms,              \* [username, email, deposit] a request may be made of
    NoForm

ASSUME OnboardingAssumption ==
    /\ Folded \in [Identifiers -> Identifiers]
    /\ Forms \subseteq [username : Identifiers, email : Identifiers, deposit : Nat]
    /\ NoForm \notin Forms

VARIABLES
    pc,             \* what each request does next
    asked,          \* its form
    known,          \* the users its e-mail check found in the table
    key,            \* the primary key its INSERT drew
    users,          \* auth_user, by primary key
    opened,         \* Account rows, each with its owner
    lines, trail    \* journal lines and audit rows, likewise

regVars == <<pc, asked, known, key, users, opened, lines, trail>>
rows == <<opened, lines, trail>>

-----------------------------------------------------------------------------
In(status) == {k \in DOMAIN users : users[k].status = status}
Committed == In("committed")

SameIgnoringCase(a, b) == Folded[a] = Folded[b]

(* EmailOrUsernameBackend: the first row, by primary key, whose username   *)
(* or e-mail address is the identifier typed; 0 if there is none.          *)
Matches(id) ==
    {k \in Committed : SameIgnoringCase(users[k].username, id)
                           \/ SameIgnoringCase(users[k].email, id)}
(* Mutant: the first of a queryset in the opposite order.                  *)
ResolveNewest(id) ==
    IF Matches(id) = {} THEN 0 ELSE CHOOSE k \in Matches(id) : \A j \in Matches(id) : k >= j
Resolve(id) ==
    IF Matches(id) = {} THEN 0 ELSE CHOOSE k \in Matches(id) : \A j \in Matches(id) : k <= j

Starters == {"Checking", "Savings"}
AccountNames(deposit) == Starters \cup (IF deposit > 0 THEN {"Opening balances"} ELSE {})

Named(k, names) == {[owner |-> k, name |-> n] : n \in names}
DepositLines(k, d) ==
    IF d > 0 THEN {[owner |-> k, account |-> "Opening balances", amount |-> -d],
                   [owner |-> k, account |-> "Checking", amount |-> d]}
             ELSE {}
OpenedRow(k, d) == [owner |-> k, accounts |-> Starters, deposit |-> d]

OwnedBy(table, k) == {row \in table : row.owner = k}

-----------------------------------------------------------------------------
OnboardingInit ==
    /\ pc = [r \in Requests |-> "idle"]
    /\ asked = [r \in Requests |-> NoForm]
    /\ known = [r \in Requests |-> {}]
    /\ key = [r \in Requests |-> 0]
    /\ users = <<>>
    /\ opened = {} /\ lines = {} /\ trail = {}

At(r, step) == pc[r] = step
Go(r, step) == pc' = [pc EXCEPT ![r] = step]

Receive(r, f) ==
    /\ At(r, "idle") /\ Go(r, "username")
    /\ asked' = [asked EXCEPT ![r] = f]
    /\ UNCHANGED <<known, key, users, rows>>

(* The UniqueValidator of the username, which compares exactly.            *)
CheckUsername(r) ==
    /\ At(r, "username")
    /\ Go(r, IF \E k \in Committed : users[k].username = asked[r].username
                THEN "refused" ELSE "email")
    /\ UNCHANGED <<asked, known, key, users, rows>>

(* Mutant: an e-mail check that compares exactly.                          *)
CheckEmailExactly(r) ==
    /\ At(r, "email")
    /\ Go(r, IF \E k \in Committed : users[k].email = asked[r].email THEN "refused" ELSE "draw")
    /\ known' = [known EXCEPT ![r] = Committed]
    /\ UNCHANGED <<asked, key, users, rows>>

(* validate_email, which ignores case.                                     *)
CheckEmail(r) ==
    /\ At(r, "email")
    /\ Go(r, IF \E k \in Committed : SameIgnoringCase(users[k].email, asked[r].email)
                THEN "refused" ELSE "draw")
    /\ known' = [known EXCEPT ![r] = Committed]
    /\ UNCHANGED <<asked, key, users, rows>>

(* The INSERT of create_user draws its key first, then meets the unique    *)
(* index: it waits for a transaction that holds the username, fails if one *)
(* has committed it.                                                       *)
DrawKey(r) ==
    /\ At(r, "draw") /\ Go(r, "insert")
    /\ users' = Append(users, [username |-> asked[r].username, email |-> asked[r].email,
                               by |-> r, status |-> "drawn"])
    /\ key' = [key EXCEPT ![r] = Len(users) + 1]
    /\ UNCHANGED <<asked, known, rows>>

Holds(status, username) == \E k \in In(status) : users[k].username = username

InsertUser(r) ==
    /\ At(r, "insert")
    /\ ~Holds("open", asked[r].username)
    /\ IF Holds("committed", asked[r].username)
         THEN /\ Go(r, "failed")
              /\ users' = [users EXCEPT ![key[r]].status = "gone"]
         ELSE /\ Go(r, "accounts")
              /\ users' = [users EXCEPT ![key[r]].status = "open"]
    /\ UNCHANGED <<asked, known, key, rows>>

OpenStarterAccounts(r) ==
    /\ At(r, "accounts") /\ Go(r, "deposit")
    /\ opened' = opened \cup Named(key[r], Starters)
    /\ UNCHANGED <<asked, known, key, users, lines, trail>>

PostOpeningDeposit(r) ==
    /\ At(r, "deposit") /\ Go(r, "audit")
    /\ opened' = opened \cup Named(key[r], AccountNames(asked[r].deposit))
    /\ lines' = lines \cup DepositLines(key[r], asked[r].deposit)
    /\ UNCHANGED <<asked, known, key, users, trail>>

RecordOpened(r) ==
    /\ At(r, "audit") /\ Go(r, "commit")
    /\ trail' = trail \cup {OpenedRow(key[r], asked[r].deposit)}
    /\ UNCHANGED <<asked, known, key, users, opened, lines>>

Commit(r) ==
    /\ At(r, "commit") /\ Go(r, "done")
    /\ users' = [users EXCEPT ![key[r]].status = "committed"]
    /\ UNCHANGED <<asked, known, key, rows>>

InTransaction == {"insert", "accounts", "deposit", "audit", "commit"}

(* Mutant: only the user row is in the transaction.                        *)
RollBackUser(r) ==
    /\ pc[r] \in InTransaction /\ Go(r, "failed")
    /\ users' = [users EXCEPT ![key[r]].status = "gone"]
    /\ UNCHANGED <<asked, known, key, rows>>

(* Any statement may raise, and the handler may die: everything the        *)
(* transaction wrote is gone.                                              *)
RollBack(r) ==
    /\ pc[r] \in InTransaction /\ Go(r, "failed")
    /\ users' = [users EXCEPT ![key[r]].status = "gone"]
    /\ opened' = opened \ OwnedBy(opened, key[r])
    /\ lines' = lines \ OwnedBy(lines, key[r])
    /\ trail' = trail \ OwnedBy(trail, key[r])
    /\ UNCHANGED <<asked, known, key>>

Handle(r) ==
    \/ CheckUsername(r) \/ CheckEmail(r)
    \/ DrawKey(r) \/ InsertUser(r)
    \/ OpenStarterAccounts(r) \/ PostOpeningDeposit(r) \/ RecordOpened(r) \/ Commit(r)

OnboardingNext ==
    \E r \in Requests : (\E f \in Forms : Receive(r, f)) \/ Handle(r) \/ RollBack(r)

OnboardingSpec == OnboardingInit /\ [][OnboardingNext]_regVars

-----------------------------------------------------------------------------
Ended == {"refused", "failed", "done"}
UserRows == [username : Identifiers, email : Identifiers, by : Requests,
             status : {"drawn", "open", "committed", "gone"}]

OnboardingTypeOK ==
    /\ pc \in [Requests -> {"idle", "username", "email", "draw"} \cup InTransaction \cup Ended]
    /\ asked \in [Requests -> Forms \cup {NoForm}]
    /\ known \in [Requests -> SUBSET DOMAIN users]
    /\ key \in [Requests -> {0} \cup DOMAIN users]
    /\ users \in Seq(UserRows)
    /\ \A row \in opened \cup lines \cup trail : row.owner \in DOMAIN users

(* "Create the user and open their accounts, or do neither": a user whom *)
(* others can see has all the accounts, the balanced opening entry and    *)
(* the audit row, and a registration that failed has left nothing.             *)
CustomersAreComplete ==
    \A k \in DOMAIN users :
        LET deposit == asked[users[k].by].deposit IN
        /\ users[k].status = "committed" =>
             /\ OwnedBy(opened, k) = Named(k, AccountNames(deposit))
             /\ OwnedBy(lines, k) = DepositLines(k, deposit)
             /\ OwnedBy(trail, k) = {OpenedRow(k, deposit)}
        /\ users[k].status \in {"drawn", "gone"} =>
             OwnedBy(opened, k) \cup OwnedBy(lines, k) \cup OwnedBy(trail, k) = {}

(* No two users share a username, however their requests interleave.       *)
UsernamesDiffer ==
    \A j, k \in In("open") \cup Committed : users[j].username = users[k].username => j = k

(* Two users share an e-mail address only if each was checked before the   *)
(* other had committed: a registration never repeats an address that was   *)
(* in the table when it looked, in whatever case.                          *)
TwinsRaced ==
    \A j, k \in Committed :
        j # k /\ SameIgnoringCase(users[j].email, users[k].email) =>
            k \notin known[users[j].by] /\ j \notin known[users[k].by]

(* The identifier that reaches a user never comes to reach a younger one:  *)
(* a newcomer who registers it as a username or as an address takes no     *)
(* login away from an older user.                                          *)
OldestKeepsTheLogin ==
    [][\A id \in Identifiers : Resolve(id) # 0 => Resolve(id)' \in 1 .. Resolve(id)]_regVars
=============================================================================
