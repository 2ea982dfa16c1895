-------------------------------- MODULE Vault --------------------------------
(***************************************************************************)
(* The encrypted columns, backend/common/crypto.py: account numbers and    *)
(* TOTP secrets, each stored with the label of the key that wrapped it.    *)
(*                                                                         *)
(* Every process reads the key ring once, from deploy/.env, when it        *)
(* starts. deploy.sh replaces the processes one after the other, so two    *)
(* replicas serve the same rows with two rings for as long as a release    *)
(* rolls. The operator edits the ring between releases, in the             *)
(* order the comments of crypto.py give: prepend a key, deploy, re-save    *)
(* the rows, drop the old key when no row refers to it; a release may stop *)
(* half-way. Staff edit accounts in the admin, whose pages may be as old   *)
(* as they like when they are posted.                                      *)
(***************************************************************************)
EXTENDS Numbers, Sequences, Functions

CONSTANTS
    Labels,         \* of key encryption keys; a label stands for its key
    Replicas,       \* app_blue and app_green, in the order deploy.sh rolls them
    Accounts, Users,
    Bodies,         \* account number bodies the generator may draw
    Secrets,        \* base32 secrets
    Staff,          \* admin pages open at a time
    NoLabel, NoValue

Containers == Range(Replicas)

ASSUME VaultAssumption ==
    /\ Replicas \in Seq(Containers)
    /\ "migrate" \notin Containers
    /\ Bodies \subseteq BodySpace
    /\ NoLabel \notin Labels
    /\ NoValue \notin Secrets \cup Accounts

VARIABLES
    keyring,        \* FIELD_ENCRYPTION_KEYS in deploy/.env: labels, newest first
    ring,           \* the ring each replica booted with, <<>> before its first start
    script,         \* what is left of the running deploy.sh
    migrated,       \* the migrations the database has
    accounts,       \* Account rows
    devices,        \* each user's MfaDevice rows, by whether they are confirmed
    form,           \* admin change pages: the row as it was when the page was opened
    edited          \* history: accounts whose type or number columns were changed on a page

vars == <<keyring, ring, script, migrated, accounts, devices, form, edited>>

-----------------------------------------------------------------------------
(* encrypt wraps under the first key of the process's own ring; decrypt    *)
(* needs the row's label to be on it. The empty string is not encrypted.   *)

Blank == [label |-> NoLabel, of |-> NoValue]
(* Mutant: wraps under the last key of the ring.                           *)
EncryptOldest(keys, value) == [label |-> keys[Len(keys)], of |-> value]
Encrypt(keys, value) == [label |-> Head(keys), of |-> value]
IsEncrypted(column) == column # Blank
Readable(keys, column) == IsEncrypted(column) => column.label \in Range(keys)
Decrypt(column) == column.of

DeviceStates == {"pending", "confirmed"}
Kinds == {"customer", "bookkeeping"}     \* an asset account without instrument, or not
NoAccount == [kind |-> "none", number |-> Blank, last4 |-> NoValue]
NoDevice == [plain |-> NoValue, secret |-> Blank]
Exists(a) == accounts[a] # NoAccount
NoPage == [of |-> NoValue, row |-> NoAccount]
DeservesNumber(row) == row.kind = "customer"

(* Mutant: the ciphertext without the digits kept beside it.               *)
SetCiphertext(row, keys, number) == [row EXCEPT !.number = Encrypt(keys, number)]

(* Account.number's setter: both columns together.                         *)
SetNumber(row, keys, number) ==
    [row EXCEPT !.number = Encrypt(keys, number), !.last4 = Last4(number)]

(* What the tables hold, and whether a row refers to a key.                *)
Stored ==
    {accounts[a].number : a \in Accounts}
        \cup {devices[u][state].secret : u \in Users, state \in DeviceStates}
InUse(label) == \E column \in Stored : column.label = label

Running(p) == ring[p] # <<>>

-----------------------------------------------------------------------------
(* Before the release that introduced encryption: accounts have no number, *)
(* devices keep their secret in the clear, nothing runs.                   *)
OldDevices == {NoDevice} \cup {[NoDevice EXCEPT !.plain = secret] : secret \in Secrets}

Init ==
    /\ keyring = <<>>
    /\ ring = [p \in Containers |-> <<>>]
    /\ script = <<>>
    /\ migrated = {}
    /\ accounts \in [Accounts -> {NoAccount} \cup {[NoAccount EXCEPT !.kind = k] : k \in Kinds}]
    /\ devices \in [Users -> [DeviceStates -> OldDevices]]
    /\ \A u \in Users : NoDevice \in Range(devices[u])
    /\ form = [s \in Staff |-> NoPage]
    /\ edited = {}

-----------------------------------------------------------------------------
(* The operator.                                                           *)

PrependKey(k) ==
    /\ script = <<>>
    /\ k \notin Range(keyring)
    /\ keyring' = <<k>> \o keyring
    /\ UNCHANGED <<ring, script, migrated, accounts, devices, form, edited>>

(* The oldest, when the release is complete, every replica runs the whole  *)
(* ring and no row refers to the key. What admin pages are open, and which *)
(* ciphertexts they hold, nobody can look up.                              *)
DropKey ==
    /\ Len(keyring) > 1
    /\ script = <<>>
    /\ \A p \in Containers : ring[p] = keyring
    /\ ~InUse(keyring[Len(keyring)])
    /\ keyring' = SubSeq(keyring, 1, Len(keyring) - 1)
    /\ UNCHANGED <<ring, script, migrated, accounts, devices, form, edited>>

(* deploy.sh from its first line; under set -e any step of it that fails   *)
(* ends it, and the replicas stay as they are.                             *)
Deploy ==
    /\ script = <<>>
    /\ script' = <<"migrate">> \o Replicas
    /\ UNCHANGED <<keyring, ring, migrated, accounts, devices, form, edited>>

StopHalfWay ==
    /\ script # <<>>
    /\ script' = <<>>
    /\ UNCHANGED <<keyring, ring, migrated, accounts, devices, form, edited>>

-----------------------------------------------------------------------------
(* deploy.sh: the two data migrations, then a replica at a time. A process *)
(* with an empty ring refuses to boot, which stops the script.             *)

StepOf(step) == script # <<>> /\ Head(script) = step /\ keyring # <<>>

AssignMissingNumbers ==
    /\ StepOf("migrate")
    /\ "accounts.0005" \notin migrated
    /\ \E draw \in [Accounts -> Bodies] :
           accounts' = [a \in Accounts |->
               IF Exists(a) /\ DeservesNumber(accounts[a]) /\ ~IsEncrypted(accounts[a].number)
                 THEN SetNumber(accounts[a], keyring, Generated(draw[a])) ELSE accounts[a]]
    /\ migrated' = migrated \cup {"accounts.0005"}
    /\ UNCHANGED <<keyring, ring, script, devices, form, edited>>

(* The plain column is dropped in the same transaction.                    *)
Sealed(row) ==
    [plain |-> NoValue,
     secret |-> IF row.plain = NoValue \/ IsEncrypted(row.secret) THEN row.secret
                                                                  ELSE Encrypt(keyring, row.plain)]

EncryptMfaSecrets ==
    /\ StepOf("migrate")
    /\ "identity.0002" \notin migrated
    /\ devices' = [u \in Users |-> [state \in DeviceStates |-> Sealed(devices[u][state])]]
    /\ migrated' = migrated \cup {"identity.0002"}
    /\ UNCHANGED <<keyring, ring, script, accounts, form, edited>>

EndMigrate ==
    /\ StepOf("migrate")
    /\ migrated = {"accounts.0005", "identity.0002"}
    /\ script' = Tail(script)
    /\ UNCHANGED <<keyring, ring, migrated, accounts, devices, form, edited>>

Roll(p) ==
    /\ StepOf(p)
    /\ ring' = [ring EXCEPT ![p] = keyring]
    /\ script' = Tail(script)
    /\ UNCHANGED <<keyring, migrated, accounts, devices, form, edited>>

-----------------------------------------------------------------------------
(* The application, on a replica that runs.                                *)

(* Account.save of a new row numbers the accounts a customer holds.        *)
OpenAccount(p, a, kind, body) ==
    /\ Running(p) /\ ~Exists(a)
    /\ LET row == [NoAccount EXCEPT !.kind = kind] IN
           accounts' = [accounts EXCEPT ![a] =
               IF DeservesNumber(row) THEN SetNumber(row, ring[p], Generated(body)) ELSE row]
    /\ UNCHANGED <<keyring, ring, script, migrated, devices, form, edited>>

(* Mutant: save numbers every row it is given, not only new ones.          *)
SaveRenumbered(p, s) ==
    /\ Running(p) /\ form[s].of \in Accounts
    /\ \E body \in Bodies :
           accounts' = [accounts EXCEPT ![form[s].of] =
               IF DeservesNumber(form[s].row)
                 THEN SetNumber(form[s].row, ring[p], Generated(body)) ELSE form[s].row]
    /\ form' = [form EXCEPT ![s] = NoPage]
    /\ UNCHANGED <<keyring, ring, script, migrated, devices, edited>>

(* A staff member opens the change page of an account.                     *)
OpenForm(p, s, a) ==
    /\ Running(p) /\ Exists(a)
    /\ form' = [form EXCEPT ![s] = [of |-> a, row |-> accounts[a]]]
    /\ UNCHANGED <<keyring, ring, script, migrated, accounts, devices, edited>>

(* The page is posted: all columns are written back as it shows them, but  *)
(* for what the staff member changed. Only id and created_at are read-only *)
(* (AccountAdmin), so type and instrument may change, and the boxes of the *)
(* two number columns may be emptied. Account.save numbers no old row.     *)
SaveForm(p, s) ==
    LET a == form[s].of
        shown == form[s].row
    IN
    /\ Running(p) /\ a \in Accounts
    /\ \E kind \in Kinds, number \in {shown.number, Blank}, last4 \in {shown.last4, NoValue} :
           /\ accounts' = [accounts EXCEPT ![a] = [kind |-> kind, number |-> number, last4 |-> last4]]
           /\ edited' = edited
                  \cup {<<a, "type">> : x \in {kind} \ {shown.kind}}
                  \cup {<<a, "number">> : x \in {<<number, last4>>} \ {<<shown.number, shown.last4>>}}
    /\ form' = [form EXCEPT ![s] = NoPage]
    /\ UNCHANGED <<keyring, ring, script, migrated, devices>>

(* enroll_totp replaces an unconfirmed device; the view refuses a user who *)
(* has a confirmed one.                                                    *)
Enroll(p, u, secret) ==
    /\ Running(p)
    /\ devices[u]["confirmed"] = NoDevice
    /\ devices' = [devices EXCEPT ![u]["pending"] =
                       [plain |-> NoValue, secret |-> Encrypt(ring[p], secret)]]
    /\ UNCHANGED <<keyring, ring, script, migrated, accounts, form, edited>>

(* A code is checked against the secret, so this replica must read it.     *)
Confirm(p, u) ==
    /\ Running(p)
    /\ devices[u]["pending"] # NoDevice
    /\ Readable(ring[p], devices[u]["pending"].secret)
    /\ devices' = [devices EXCEPT ![u]["pending"] = NoDevice,
                                 ![u]["confirmed"] = devices[u]["pending"]]
    /\ UNCHANGED <<keyring, ring, script, migrated, accounts, form, edited>>

Disable(p, u) ==
    /\ Running(p)
    /\ devices[u]["confirmed"] # NoDevice
    /\ Readable(ring[p], devices[u]["confirmed"].secret)
    /\ devices' = [devices EXCEPT ![u]["confirmed"] = NoDevice]
    /\ UNCHANGED <<keyring, ring, script, migrated, accounts, form, edited>>

(* Re-saving a row under the current key, in a shell of a replica:         *)
(* a.number = a.number or d.secret = d.secret, then save.                  *)
RekeyAccount(p, a) ==
    /\ Running(p)
    /\ IsEncrypted(accounts[a].number)
    /\ Readable(ring[p], accounts[a].number)
    /\ accounts' = [accounts EXCEPT ![a] = SetNumber(@, ring[p], Decrypt(@.number))]
    /\ UNCHANGED <<keyring, ring, script, migrated, devices, form, edited>>

RekeyDevice(p, u, state) ==
    /\ Running(p)
    /\ IsEncrypted(devices[u][state].secret)
    /\ Readable(ring[p], devices[u][state].secret)
    /\ devices' = [devices EXCEPT ![u][state].secret = Encrypt(ring[p], Decrypt(@))]
    /\ UNCHANGED <<keyring, ring, script, migrated, accounts, form, edited>>

-----------------------------------------------------------------------------
Operator ==
    \/ \E k \in Labels : PrependKey(k)
    \/ DropKey
    \/ Deploy
    \/ StopHalfWay

Release ==
    \/ AssignMissingNumbers
    \/ EncryptMfaSecrets
    \/ EndMigrate
    \/ \E p \in Containers : Roll(p)

Application(p) ==
    \/ \E a \in Accounts, kind \in Kinds, body \in Bodies : OpenAccount(p, a, kind, body)
    \/ \E s \in Staff, a \in Accounts : OpenForm(p, s, a)
    \/ \E s \in Staff : SaveForm(p, s)
    \/ \E u \in Users, secret \in Secrets : Enroll(p, u, secret)
    \/ \E u \in Users : Confirm(p, u) \/ Disable(p, u)
    \/ \E a \in Accounts : RekeyAccount(p, a)
    \/ \E u \in Users, state \in DeviceStates : RekeyDevice(p, u, state)

Next == Operator \/ Release \/ \E p \in Containers : Application(p)

Spec == Init /\ [][Next]_vars

-----------------------------------------------------------------------------
IssuedNumbers == {Generated(b) : b \in Bodies}
Columns(values) == [label : Labels, of : values] \cup {Blank}
AccountRows == [kind : Kinds \cup {"none"},
                number : Columns(IssuedNumbers), last4 : FourDigits \cup {NoValue}]
DeviceRows == [plain : Secrets \cup {NoValue}, secret : Columns(Secrets)]

TypeOK ==
    /\ keyring \in Seq(Labels)
    /\ ring \in [Containers -> Seq(Labels)]
    /\ script \in Seq({"migrate"} \cup Containers)
    /\ migrated \subseteq {"accounts.0005", "identity.0002"}
    /\ accounts \in [Accounts -> AccountRows]
    /\ devices \in [Users -> [DeviceStates -> DeviceRows]]
    /\ form \in [Staff -> [of : Accounts \cup {NoValue}, row : AccountRows]]
    /\ edited \subseteq Accounts \X {"type", "number"}

(* Whatever the order in which keys are prepended, releases stop half-way  *)
(* and start again, rows are written by replicas of the old and of the new *)
(* ring and old keys are dropped: no stored ciphertext loses its key (the  *)
(* "Rotation" of crypto.py). One way is left, and only one: an admin page  *)
(* that was open when the key of its ciphertext was dropped writes the     *)
(* ciphertext back.                                                        *)
Orphaned(column) == IsEncrypted(column) /\ column.label \notin Range(keyring)
NothingOrphaned ==
    [][\A column \in Stored' :
          Orphaned(column)' =>
              \/ column \in Stored /\ Orphaned(column)
              \/ \E s \in Staff : /\ form[s].row.number = column /\ Orphaned(column)
                                  /\ form'[s] = NoPage]_vars

(* The digits of the list and of the statements, kept in the clear, are    *)
(* those of the number the detail page decrypts: save, the backfill, the   *)
(* admin page and the re-keying write both columns or neither, unless      *)
(* somebody emptied one of them by hand.                                   *)
MaskMatchesNumber ==
    \A a \in Accounts :
        <<a, "number">> \notin edited =>
            accounts[a].last4 = IF IsEncrypted(accounts[a].number)
                                  THEN Last4(Decrypt(accounts[a].number)) ELSE NoValue

(* An account opened before the migration and one opened after it cannot   *)
(* be told apart: the accounts a customer holds have a number, the others  *)
(* have none (backfills.assign_missing_numbers against Account.save), as   *)
(* long as nobody changes the type or empties the number of an account:    *)
(* after that no code numbers it.                                          *)
CustomersAreNumbered ==
    "accounts.0005" \in migrated =>
        \A a \in Accounts :
            Exists(a) /\ {<<a, "type">>, <<a, "number">>} \cap edited = {} =>
                (DeservesNumber(accounts[a]) <=> IsEncrypted(accounts[a].number))

(* After identity.0002 no second factor is stored in the clear, and no     *)
(* device has lost its secret.                                             *)
SecretsAreSealed ==
    "identity.0002" \in migrated =>
        \A u \in Users, state \in DeviceStates :
            devices[u][state] # NoDevice =>
                devices[u][state].plain = NoValue /\ IsEncrypted(devices[u][state].secret)

(* An account keeps its number and a device its secret: no backfill,       *)
(* re-keying or stale admin page changes what a row decrypts to, unless    *)
(* somebody empties the number by hand.                                    *)
SecretOf(row) == IF IsEncrypted(row.secret) THEN Decrypt(row.secret) ELSE row.plain
ValuesAreForLife ==
    [][/\ \A a \in Accounts :
             IsEncrypted(accounts[a].number) /\ <<a, "number">> \notin edited' =>
                 IsEncrypted(accounts'[a].number)
                   /\ Decrypt(accounts'[a].number) = Decrypt(accounts[a].number)
       /\ \A u \in Users :
             devices[u]["confirmed"] # NoDevice /\ devices'[u]["confirmed"] # NoDevice =>
                 SecretOf(devices'[u]["confirmed"]) = SecretOf(devices[u]["confirmed"])]_vars

(* A customer who copies a number with one digit wrong or two neighbours   *)
(* exchanged has copied no valid number.                                   *)
SlipsAreCaught ==
    \A a \in Accounts :
        LET number == Decrypt(accounts[a].number) IN
            IsEncrypted(accounts[a].number) =>
                IsValid(number) /\ \A slip \in SlipsOf(number) : ~IsValid(slip)

(* Whoever wrote a row, whichever release stopped before or after it, the  *)
(* row is whole.                                                           *)
RowsAreSound ==
    MaskMatchesNumber /\ SlipsAreCaught /\ CustomersAreNumbered /\ SecretsAreSealed
=============================================================================
