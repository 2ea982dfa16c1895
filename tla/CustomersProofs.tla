--------------------------- MODULE CustomersProofs --------------------------
(***************************************************************************)
(* Theorems about encrypted columns and account numbers, for any keys,     *)
(* replicas, accounts and users, and about registration, for any requests, *)
(* identifiers and forms.                                                  *)
(***************************************************************************)
EXTENDS Vault, Onboarding, SequenceTheorems, SumTheorems, TLAPS

-----------------------------------------------------------------------------
(* Account numbers. A valid number is 1 modulo 97, and no slip changes a   *)
(* number by a multiple of 97.                                             *)

LEMMA ValidIsOneModulo97 ==
    ASSUME NEW number \in Int, IsValid(number)
    PROVE  number % 97 = 1
<1> DEFINE body == number \div 100
           check == number % 100
<1>1. number = 100 * body + check /\ body \in Int /\ check \in Int
    OBVIOUS
<1>2. check = 98 - ((body * 100) % 97)
    BY DEF IsValid, CheckDigits
<1> HIDE DEF body, check
<1> QED
    BY <1>1, <1>2

LEMMA GeneratedIsValid ==
    ASSUME NEW body \in BodySpace
    PROVE  IsValid(Generated(body)) /\ Generated(body) \in Int
           /\ Last4(Generated(body)) \in FourDigits
<1> DEFINE check == 98 - ((body * 100) % 97)
<1>0. \A i \in Int : Ten(i) \in Int
    BY DEF Ten
<1>1. body \in Int
    BY <1>0, BodyDigitsAssumption DEF BodySpace
<1>2. check \in 2 .. 98
    BY <1>1
<1>3. Generated(body) = body * 100 + check
    BY DEF Generated, CheckDigits
<1> HIDE DEF check
<1>4. Generated(body) \in Int
    BY <1>1, <1>2, <1>3
<1>5. Generated(body) \div 100 = body /\ Generated(body) % 100 = check
    BY <1>1, <1>2, <1>3
<1>6. IsValid(Generated(body))
    BY <1>5 DEF IsValid, CheckDigits, check
<1>7. body % 10000 \in 0 .. 9999
    BY <1>1
<1>8. Last4(Generated(body)) = body % 10000
    BY <1>5 DEF Last4
<1> QED
    BY <1>4, <1>6, <1>7, <1>8 DEF FourDigits

LEMMA SlipsAreNoMultiples ==
    ASSUME NEW c \in (-9 .. 9) \ {0}, NEW i \in 0 .. 12
    PROVE  /\ c * Ten(i) \in Int /\ (c * Ten(i)) % 97 # 0
           /\ (9 * (c * Ten(i))) % 97 # 0
<1>1. CASE i = 0
    BY <1>1 DEF Ten
<1>2. CASE i = 1
    BY <1>2 DEF Ten
<1>3. CASE i = 2
    BY <1>3 DEF Ten
<1>4. CASE i = 3
    BY <1>4 DEF Ten
<1>5. CASE i = 4
    BY <1>5 DEF Ten
<1>6. CASE i = 5
    BY <1>6 DEF Ten
<1>7. CASE i = 6
    BY <1>7 DEF Ten
<1>8. CASE i = 7
    BY <1>8 DEF Ten
<1>9. CASE i = 8
    BY <1>9 DEF Ten
<1>10. CASE i = 9
    BY <1>10 DEF Ten
<1>11. CASE i = 10
    BY <1>11 DEF Ten
<1>12. CASE i = 11
    BY <1>12 DEF Ten
<1>13. CASE i = 12
    BY <1>13 DEF Ten
<1> QED
    BY <1>1, <1>2, <1>3, <1>4, <1>5, <1>6, <1>7, <1>8, <1>9, <1>10, <1>11, <1>12, <1>13

LEMMA SlipsAreInvalid ==
    ASSUME NEW number \in Int, IsValid(number), NEW slip \in SlipsOf(number)
    PROVE  ~IsValid(slip)
<1>1. PICK d \in DigitChanges : slip = number + d \/ slip = number + 9 * d
    BY DEF SlipsOf
<1>2. d \in Int /\ d % 97 # 0 /\ (9 * d) % 97 # 0
    <2>1. PICK c \in (-9 .. 9) \ {0}, i \in 0 .. BodyDigits + 1 : d = c * Ten(i)
        BY DEF DigitChanges
    <2>2. i \in 0 .. 12
        BY BodyDigitsAssumption
    <2> QED
        BY <2>1, <2>2, SlipsAreNoMultiples
<1>3. number % 97 = 1
    BY ValidIsOneModulo97
<1>4. slip \in Int /\ slip % 97 # 1
    BY <1>1, <1>2, <1>3
<1> QED
    BY <1>4, ValidIsOneModulo97

-----------------------------------------------------------------------------
(* Encrypted columns. Rows first: what the operators that write one make.  *)

Migrations == {"accounts.0005", "identity.0002"}

MaskOk(row) == row.last4 = IF IsEncrypted(row.number) THEN Last4(Decrypt(row.number)) ELSE NoValue
SameNumber(row, other) ==
    /\ IsEncrypted(row.number) <=> IsEncrypted(other.number)
    /\ Decrypt(row.number) = Decrypt(other.number)

LEMMA Issuing == \A b \in Bodies : Generated(b) \in IssuedNumbers
BY DEF IssuedNumbers

LEMMA NumbersAreValid ==
    ASSUME NEW number \in IssuedNumbers
    PROVE  number \in Int /\ IsValid(number) /\ Last4(number) \in FourDigits
<1>1. PICK b \in BodySpace : number = Generated(b)
    BY VaultAssumption DEF IssuedNumbers
<1> QED
    BY <1>1, GeneratedIsValid

LEMMA Heads ==
    ASSUME NEW S, NEW keys \in Seq(S), keys # <<>>
    PROVE  Head(keys) \in S /\ Head(keys) \in Range(keys) /\ Tail(keys) \in Seq(S)
<1>1. Len(keys) \in Nat /\ Len(keys) > 0 /\ Head(keys) = keys[1] /\ 1 \in DOMAIN keys
    OBVIOUS
<1> QED
    BY <1>1 DEF Range

LEMMA Encrypting ==
    ASSUME NEW values, NEW keys \in Seq(Labels), keys # <<>>, NEW value \in values
    PROVE  /\ Encrypt(keys, value) \in Columns(values)
           /\ IsEncrypted(Encrypt(keys, value))
           /\ Encrypt(keys, value).label = Head(keys)
           /\ Decrypt(Encrypt(keys, value)) = value
<1>1. Head(keys) \in Labels
    BY Heads
<1> QED
    BY <1>1, VaultAssumption DEF Encrypt, Columns, IsEncrypted, Decrypt, Blank

LEMMA Encrypted ==
    ASSUME NEW values, NEW column \in Columns(values), IsEncrypted(column)
    PROVE  column.label \in Labels /\ Decrypt(column) \in values
BY DEF Columns, IsEncrypted, Decrypt

Numbered(row, column, last) == [row EXCEPT !.number = column, !.last4 = last]
OfKind(kind) == [NoAccount EXCEPT !.kind = kind]

LEMMA Numbering ==
    ASSUME NEW row \in AccountRows, NEW column \in Columns(IssuedNumbers),
           NEW last \in FourDigits \cup {NoValue}
    PROVE  LET other == Numbered(row, column, last) IN
           /\ other \in AccountRows /\ other.kind = row.kind
           /\ other.number = column /\ other.last4 = last
<1> DEFINE A == Kinds \cup {"none"}
           C == Columns(IssuedNumbers)
           D == FourDigits \cup {NoValue}
<1>1. AccountRows = [kind : A, number : C, last4 : D] /\ column \in C /\ last \in D
    BY DEF AccountRows
<1> HIDE DEF A, C, D
<1>2. row \in [kind : A, number : C, last4 : D]
    BY <1>1
<1> QED
    BY ONLY <1>1, <1>2 DEF Numbered

LEMMA EmptyRows ==
    /\ NoAccount \in AccountRows /\ MaskOk(NoAccount) /\ ~IsEncrypted(NoAccount.number)
    /\ NoDevice \in DeviceRows /\ ~IsEncrypted(NoDevice.secret)
    /\ NoAccount.kind = "none" /\ NoAccount.number = Blank /\ NoAccount.last4 = NoValue
    /\ NoDevice.plain = NoValue /\ NoDevice.secret = Blank
<1>1. Blank \in Columns(IssuedNumbers) /\ Blank \in Columns(Secrets) /\ ~IsEncrypted(Blank)
    BY DEF Columns, IsEncrypted
<1>2. NoAccount \in AccountRows /\ NoDevice \in DeviceRows
    BY <1>1 DEF NoAccount, NoDevice, AccountRows, DeviceRows
<1>3. NoAccount.number = Blank /\ NoDevice.secret = Blank /\ NoAccount.kind = "none"
      /\ NoAccount.last4 = NoValue /\ NoDevice.plain = NoValue
    BY DEF NoAccount, NoDevice
<1> QED
    BY <1>1, <1>2, <1>3 DEF MaskOk

LEMMA NewRows ==
    ASSUME NEW kind \in Kinds
    PROVE  LET row == OfKind(kind) IN
           /\ row \in AccountRows /\ MaskOk(row) /\ row.kind = kind /\ row # NoAccount
           /\ row.number = Blank /\ ~IsEncrypted(row.number)
<1>1. /\ OfKind(kind) \in AccountRows /\ OfKind(kind).kind = kind
      /\ OfKind(kind).number = Blank /\ OfKind(kind).last4 = NoValue
    BY EmptyRows DEF OfKind, AccountRows
<1>2. kind # "none"
    BY DEF Kinds
<1> QED
    BY <1>1, <1>2, EmptyRows DEF MaskOk, IsEncrypted

LEMMA SettingNumber ==
    ASSUME NEW row \in AccountRows, NEW keys \in Seq(Labels), keys # <<>>,
           NEW number \in IssuedNumbers
    PROVE  LET written == SetNumber(row, keys, number) IN
           /\ written \in AccountRows /\ MaskOk(written)
           /\ written.kind = row.kind
           /\ written.number = Encrypt(keys, number)
           /\ IsEncrypted(written.number) /\ written.number.label = Head(keys)
           /\ Decrypt(written.number) = number
<1> DEFINE column == Encrypt(keys, number)
           last == Last4(number)
<1>1. /\ column \in Columns(IssuedNumbers) /\ IsEncrypted(column) /\ Decrypt(column) = number
      /\ column.label = Head(keys)
    BY Encrypting
<1>2. number \in Int /\ IsValid(number) /\ last \in FourDigits
    BY NumbersAreValid
<1>3. SetNumber(row, keys, number) = Numbered(row, column, last)
    BY DEF SetNumber, Numbered
<1>4. last \in FourDigits \cup {NoValue}
    BY <1>2
<1>5. last = Last4(number) /\ column = Encrypt(keys, number)
    OBVIOUS
<1> HIDE DEF column, last
<1>6. LET other == Numbered(row, column, last) IN
          /\ other \in AccountRows /\ other.kind = row.kind
          /\ other.number = column /\ other.last4 = last
    BY <1>1, <1>4, Numbering
<1> QED
    BY <1>1, <1>3, <1>5, <1>6 DEF MaskOk

-----------------------------------------------------------------------------
(* The invariant. A replica writes with a key the ring in deploy/.env has; *)
(* only migrated databases are served; as long as nobody changed the       *)
(* columns of an account, its row is whole and an admin page shows the     *)
(* number and the type it has.                                             *)

Retyped(a) == <<a, "type">> \in edited
Renumbered(a) == <<a, "number">> \in edited

Covered == \A p \in Containers : Running(p) => Head(ring[p]) \in Range(keyring)
Served == \A p \in Containers : Running(p) => migrated = Migrations
Scripted ==
    /\ script # <<>> => Head(script) = "migrate" \/ migrated = Migrations
    /\ \A i \in 2 .. Len(script) : script[i] \in Containers
AccountsOk ==
    \A a \in Accounts :
        /\ accounts[a].kind = "none" => accounts[a] = NoAccount
        /\ ~Renumbered(a) => MaskOk(accounts[a])
        /\ ~Renumbered(a) /\ ~Retyped(a) =>
             /\ IsEncrypted(accounts[a].number) => DeservesNumber(accounts[a])
             /\ "accounts.0005" \in migrated /\ DeservesNumber(accounts[a]) =>
                    IsEncrypted(accounts[a].number)
Shows(page) ==
    page.of \in Accounts =>
        /\ migrated = Migrations
        /\ Exists(page.of)
        /\ ~Renumbered(page.of) => MaskOk(page.row) /\ SameNumber(page.row, accounts[page.of])
        /\ ~Retyped(page.of) => page.row.kind = accounts[page.of].kind
FormsOk == \A s \in Staff : Shows(form[s])
DevicesOk ==
    \A u \in Users : devices[u]["pending"] = NoDevice \/ devices[u]["confirmed"] = NoDevice

VaultInv ==
    TypeOK /\ Covered /\ Served /\ Scripted /\ AccountsOk /\ FormsOk /\ DevicesOk
           /\ SecretsAreSealed

LEMMA VaultInvInit == Init => VaultInv
<1> SUFFICES ASSUME Init PROVE VaultInv
    OBVIOUS
<1> USE DEF Init
<1>1. ASSUME NEW a \in Accounts
      PROVE  /\ accounts[a] \in AccountRows /\ MaskOk(accounts[a]) /\ ~IsEncrypted(accounts[a].number)
             /\ accounts[a].kind = "none" => accounts[a] = NoAccount
    <2>1. accounts[a] = NoAccount \/ \E k \in Kinds : accounts[a] = OfKind(k)
        BY DEF OfKind
    <2> QED
        BY <2>1, NewRows, EmptyRows DEF Kinds
<1>2. \A d \in OldDevices : d \in DeviceRows /\ ~IsEncrypted(d.secret)
    BY EmptyRows DEF OldDevices, NoDevice, DeviceRows, IsEncrypted
<1>3. TypeOK
    BY <1>1, <1>2, EmptyRows DEF TypeOK, NoPage
<1>4. Covered /\ Served /\ Scripted
    BY DEF Covered, Served, Scripted, Running
<1>5. AccountsOk /\ FormsOk
    BY <1>1, EmptyRows, VaultAssumption DEF AccountsOk, FormsOk, Shows, NoPage
<1>6. DevicesOk
    BY <1>2 DEF DevicesOk, Range, DeviceStates
<1>7. SecretsAreSealed
    BY DEF SecretsAreSealed
<1> QED
    BY <1>3, <1>4, <1>5, <1>6, <1>7 DEF VaultInv

-----------------------------------------------------------------------------
(* The operator and the release.                                           *)

LEMMA SameRows ==
    ASSUME VaultInv, UNCHANGED <<migrated, accounts, devices, form, edited>>,
           keyring' \in Seq(Labels), ring' \in [Containers -> Seq(Labels)],
           script' \in Seq({"migrate"} \cup Containers),
           Covered', Served', Scripted'
    PROVE  VaultInv'
<1> USE DEF VaultInv
<1>1. TypeOK'
    BY DEF TypeOK
<1>2. AccountsOk' /\ FormsOk'
    BY DEF AccountsOk, FormsOk, Shows, Exists, Retyped, Renumbered
<1>3. DevicesOk' /\ SecretsAreSealed'
    BY DEF DevicesOk, SecretsAreSealed
<1> QED
    BY <1>1, <1>2, <1>3

LEMMA Sequences ==
    ASSUME NEW S, NEW keys \in Seq(S)
    PROVE  /\ \A k \in S : /\ <<k>> \o keys \in Seq(S)
                           /\ Range(keys) \subseteq Range(<<k>> \o keys)
           /\ Len(keys) > 1 =>
                LET shorter == SubSeq(keys, 1, Len(keys) - 1) IN
                /\ shorter \in Seq(S) /\ shorter # <<>> /\ Head(shorter) = Head(keys)
                /\ \A x \in Range(keys) : x # keys[Len(keys)] => x \in Range(shorter)
<1>1. ASSUME NEW k \in S
      PROVE  /\ <<k>> \o keys \in Seq(S)
             /\ Range(keys) \subseteq Range(<<k>> \o keys)
    <2>1. <<k>> \o keys \in Seq(S) /\ Len(<<k>> \o keys) = Len(keys) + 1 /\ Len(keys) \in Nat
        OBVIOUS
    <2>2. \A i \in 1 .. Len(keys) : i + 1 \in 1 .. Len(<<k>> \o keys) /\ (<<k>> \o keys)[i + 1] = keys[i]
        BY <2>1
    <2>3. ASSUME NEW x \in Range(keys) PROVE x \in Range(<<k>> \o keys)
        <3>1. PICK i \in 1 .. Len(keys) : x = keys[i]
            BY DEF Range
        <3>2. i + 1 \in DOMAIN (<<k>> \o keys) /\ (<<k>> \o keys)[i + 1] = x
            BY <2>1, <2>2, <3>1
        <3> QED
            BY <3>2, Zenon DEF Range
    <2> QED
        BY <2>1, <2>3
<1>2. ASSUME Len(keys) > 1
      PROVE  LET shorter == SubSeq(keys, 1, Len(keys) - 1) IN
             /\ shorter \in Seq(S) /\ shorter # <<>> /\ Head(shorter) = Head(keys)
             /\ \A x \in Range(keys) : x # keys[Len(keys)] => x \in Range(shorter)
    <2> DEFINE shorter == SubSeq(keys, 1, Len(keys) - 1)
    <2>1. /\ shorter \in Seq(S) /\ Len(shorter) = Len(keys) - 1 /\ Len(keys) \in Nat
          /\ \A i \in 1 .. Len(keys) - 1 : shorter[i] = keys[i]
        <3> DEFINE n == Len(keys) - 1
        <3>1. Len(keys) \in Nat /\ n \in Int /\ n >= 1 /\ \A i \in 1 .. n : keys[i] \in S
            BY <1>2
        <3>2. /\ SubSeq(keys, 1, n) \in Seq(S) /\ Len(SubSeq(keys, 1, n)) = n
              /\ \A i \in 1 .. n : SubSeq(keys, 1, n)[i] = keys[i]
            <4> HIDE DEF n
            <4> QED
                BY <3>1, SubSeqProperties
        <3> QED
            BY <3>1, <3>2
    <2> HIDE DEF shorter
    <2>2. shorter # <<>> /\ Head(shorter) = Head(keys)
        BY <1>2, <2>1
    <2>3. ASSUME NEW x \in Range(keys), x # keys[Len(keys)] PROVE x \in Range(shorter)
        <3>1. PICK i \in 1 .. Len(keys) : x = keys[i]
            BY DEF Range
        <3>2. i \in DOMAIN shorter /\ shorter[i] = x
            BY <2>1, <2>3, <3>1
        <3> QED
            BY <3>2, Zenon DEF Range
    <2> QED
        BY <2>1, <2>2, <2>3 DEF shorter
<1> QED
    BY <1>1, <1>2, Zenon

LEMMA PrependingAKey == ASSUME VaultInv, NEW k \in Labels, PrependKey(k) PROVE VaultInv'
<1> USE DEF VaultInv, PrependKey
<1>1. keyring' \in Seq(Labels) /\ Range(keyring) \subseteq Range(keyring')
    BY Sequences DEF TypeOK
<1>2. Covered' /\ Served' /\ Scripted'
    BY <1>1 DEF Covered, Served, Scripted, Running
<1> QED
    BY <1>1, <1>2, SameRows DEF TypeOK

LEMMA DroppingAKey == ASSUME VaultInv, DropKey PROVE VaultInv'
<1> USE DEF VaultInv, DropKey
<1>1. /\ keyring' \in Seq(Labels) /\ keyring' # <<>> /\ Head(keyring') = Head(keyring)
      /\ \A x \in Range(keyring) : x # keyring[Len(keyring)] => x \in Range(keyring')
    BY Sequences DEF TypeOK
<1>2. Head(keyring) \in Range(keyring')
    BY <1>1, Heads
<1>3. Covered' /\ Served' /\ Scripted'
    BY <1>2 DEF Covered, Served, Scripted, Running
<1> QED
    BY <1>1, <1>3, SameRows DEF TypeOK

LEMMA Deploying == ASSUME VaultInv, Deploy \/ StopHalfWay PROVE VaultInv'
<1> USE DEF VaultInv
<1>1. /\ script' \in Seq({"migrate"} \cup Containers) /\ Scripted'
      /\ UNCHANGED <<keyring, ring, migrated, accounts, devices, form, edited>>
    <2>1. CASE Deploy
        <3>1. Replicas \in Seq(Containers) /\ Len(Replicas) \in Nat
            BY VaultAssumption
        <3>2. script' = <<"migrate">> \o Replicas
            BY <2>1 DEF Deploy
        <3>3. /\ Len(script') = Len(Replicas) + 1 /\ Head(script') = "migrate"
              /\ \A i \in 2 .. Len(script') : script'[i] = Replicas[i - 1]
            BY <3>1, <3>2
        <3>4. \A i \in 2 .. Len(script') : script'[i] \in Containers
            BY <3>1, <3>3
        <3> QED
            BY <2>1, <3>1, <3>2, <3>3, <3>4 DEF Deploy, Scripted
    <2>2. CASE StopHalfWay
        BY <2>2 DEF StopHalfWay, Scripted
    <2> QED
        BY <2>1, <2>2
<1>2. Covered' /\ Served'
    BY <1>1 DEF Covered, Served, Running
<1> QED
    BY <1>1, <1>2, SameRows DEF TypeOK

LEMMA NextOfTheScript ==
    ASSUME VaultInv, script # <<>>, migrated = Migrations,
           script' = Tail(script), UNCHANGED migrated
    PROVE  script' \in Seq({"migrate"} \cup Containers) /\ Scripted'
<1>1. script \in Seq({"migrate"} \cup Containers) /\ \A i \in 2 .. Len(script) : script[i] \in Containers
    BY DEF VaultInv, TypeOK, Scripted
<1>2. /\ script' \in Seq({"migrate"} \cup Containers) /\ Len(script') = Len(script) - 1
      /\ Len(script) \in Nat /\ \A i \in 1 .. Len(script') : script'[i] = script[i + 1]
    BY <1>1
<1>3. \A i \in 2 .. Len(script') : script'[i] \in Containers
    BY <1>1, <1>2
<1> QED
    BY <1>2, <1>3 DEF Scripted

LEMMA EndingTheMigrations == ASSUME VaultInv, EndMigrate PROVE VaultInv'
<1> USE DEF EndMigrate, StepOf
<1>1. script' \in Seq({"migrate"} \cup Containers) /\ Scripted'
    BY NextOfTheScript DEF Migrations
<1>2. Covered' /\ Served'
    BY DEF VaultInv, Covered, Served, Running
<1> QED
    BY <1>1, <1>2, SameRows DEF VaultInv, TypeOK

LEMMA Rolling == ASSUME VaultInv, NEW p \in Containers, Roll(p) PROVE VaultInv'
<1> USE DEF Roll, StepOf
<1>1. migrated = Migrations
    BY VaultAssumption DEF VaultInv, Scripted
<1>2. script' \in Seq({"migrate"} \cup Containers) /\ Scripted'
    BY <1>1, NextOfTheScript
<1>3. ring' \in [Containers -> Seq(Labels)]
    BY DEF VaultInv, TypeOK
<1>4. Head(keyring) \in Range(keyring)
    BY Heads DEF VaultInv, TypeOK
<1>5. Covered' /\ Served'
    BY <1>1, <1>4 DEF VaultInv, TypeOK, Covered, Served, Running
<1> QED
    BY <1>2, <1>3, <1>5, SameRows DEF VaultInv, TypeOK
-----------------------------------------------------------------------------
(* The two data migrations.                                                *)

LEMMA AssigningNumbers == ASSUME VaultInv, AssignMissingNumbers PROVE VaultInv'
<1> USE DEF AssignMissingNumbers, StepOf
<1>1. PICK draw \in [Accounts -> Bodies] :
          accounts' = [a \in Accounts |->
              IF Exists(a) /\ DeservesNumber(accounts[a]) /\ ~IsEncrypted(accounts[a].number)
                THEN SetNumber(accounts[a], keyring, Generated(draw[a])) ELSE accounts[a]]
    OBVIOUS
<1>2. /\ keyring \in Seq(Labels) /\ Head(keyring) \in Range(keyring)
      /\ accounts \in [Accounts -> AccountRows]
    BY Heads DEF VaultInv, TypeOK
<1>3. ASSUME NEW a \in Accounts
      PROVE  /\ accounts'[a] \in AccountRows
             /\ accounts'[a].kind = "none" => accounts'[a] = NoAccount
             /\ ~Renumbered(a) => MaskOk(accounts'[a])
             /\ ~Renumbered(a) /\ ~Retyped(a) =>
                    (DeservesNumber(accounts'[a]) <=> IsEncrypted(accounts'[a].number))
    <2> DEFINE number == Generated(draw[a])
               written == SetNumber(accounts[a], keyring, number)
    <2>1. number \in IssuedNumbers
        <3>1. draw[a] \in Bodies
            OBVIOUS
        <3> QED
            BY <3>1, Issuing
    <2>2. /\ written \in AccountRows /\ MaskOk(written) /\ written.kind = accounts[a].kind
          /\ IsEncrypted(written.number)
        BY <1>2, <2>1, SettingNumber
    <2> HIDE DEF written
    <2>4. CASE accounts'[a] = written /\ DeservesNumber(accounts[a])
        BY <2>2, <2>4 DEF DeservesNumber
    <2>5. CASE /\ accounts'[a] = accounts[a]
               /\ ~(Exists(a) /\ DeservesNumber(accounts[a]) /\ ~IsEncrypted(accounts[a].number))
        <3>1. /\ ~Renumbered(a) => MaskOk(accounts[a])
              /\ accounts[a].kind = "none" => accounts[a] = NoAccount
            BY DEF VaultInv, AccountsOk
        <3>2. ~Renumbered(a) /\ ~Retyped(a) /\ IsEncrypted(accounts[a].number) =>
                  DeservesNumber(accounts[a])
            BY DEF VaultInv, AccountsOk
        <3>3. DeservesNumber(accounts[a]) => Exists(a)
            BY EmptyRows DEF DeservesNumber, Exists
        <3> QED
            BY <1>2, <2>5, <3>1, <3>2, <3>3
    <2> QED
        BY <1>1, <2>4, <2>5 DEF written
<1>4. \A p \in Containers : ~Running(p) /\ ~Running(p)'
    BY DEF VaultInv, Served, Migrations, Running
<1>5. \A s \in Staff : form[s].of \notin Accounts
    BY DEF VaultInv, FormsOk, Shows, Migrations
<1>6. TypeOK'
    BY <1>1, <1>2, <1>3 DEF VaultInv, TypeOK
<1>7. Covered' /\ Served' /\ Scripted'
    BY <1>4 DEF VaultInv, Covered, Served, Scripted
<1>8. AccountsOk'
    BY <1>3 DEF AccountsOk, Retyped, Renumbered
<1>9. FormsOk' /\ DevicesOk' /\ SecretsAreSealed'
    BY <1>5 DEF VaultInv, FormsOk, Shows, DevicesOk, SecretsAreSealed
<1> QED
    BY <1>6, <1>7, <1>8, <1>9 DEF VaultInv

LEMMA Sealing ==
    ASSUME keyring \in Seq(Labels), keyring # <<>>, NEW row \in DeviceRows
    PROVE  /\ Sealed(row) \in DeviceRows
           /\ Sealed(row) # NoDevice => Sealed(row).plain = NoValue /\ IsEncrypted(Sealed(row).secret)
           /\ SecretOf(Sealed(row)) = SecretOf(row)
           /\ row = NoDevice => Sealed(row) = NoDevice
<1>1. /\ row.plain \in Secrets \cup {NoValue} /\ row.secret \in Columns(Secrets)
    BY DEF DeviceRows
<1>2. CASE IsEncrypted(row.secret)
    <2>1. Sealed(row) = [plain |-> NoValue, secret |-> row.secret]
        BY <1>2 DEF Sealed
    <2> QED
        BY <1>1, <1>2, <2>1, EmptyRows DEF DeviceRows, SecretOf
<1>3. CASE ~IsEncrypted(row.secret) /\ row.plain = NoValue
    <2>1. Sealed(row) = [plain |-> NoValue, secret |-> row.secret] /\ row.secret = Blank
        BY <1>3 DEF Sealed, IsEncrypted
    <2>2. Sealed(row) = NoDevice
        BY <2>1 DEF NoDevice
    <2> QED
        BY <1>1, <1>3, <2>1, <2>2, EmptyRows DEF SecretOf
<1>4. CASE ~IsEncrypted(row.secret) /\ row.plain # NoValue
    <2> DEFINE column == Encrypt(keyring, row.plain)
    <2>1. Sealed(row) = [plain |-> NoValue, secret |-> column]
        BY <1>4 DEF Sealed
    <2>2. /\ column \in Columns(Secrets) /\ IsEncrypted(column)
          /\ Decrypt(column) = row.plain
        BY <1>1, <1>4, Encrypting
    <2> HIDE DEF column
    <2> QED
        BY <1>1, <1>4, <2>1, <2>2, EmptyRows DEF DeviceRows, SecretOf
<1> QED
    BY <1>2, <1>3, <1>4

LEMMA EncryptingSecrets == ASSUME VaultInv, EncryptMfaSecrets PROVE VaultInv'
<1> USE DEF EncryptMfaSecrets, StepOf
<1>1. keyring \in Seq(Labels) /\ devices \in [Users -> [DeviceStates -> DeviceRows]]
    BY DEF VaultInv, TypeOK
<1>2. ASSUME NEW u \in Users, NEW state \in DeviceStates
      PROVE  /\ devices'[u][state] = Sealed(devices[u][state])
             /\ devices'[u][state] \in DeviceRows
             /\ devices[u][state] = NoDevice => devices'[u][state] = NoDevice
             /\ devices'[u][state] # NoDevice =>
                    devices'[u][state].plain = NoValue /\ IsEncrypted(devices'[u][state].secret)
    <2>1. devices'[u][state] = Sealed(devices[u][state])
        OBVIOUS
    <2>2. devices[u][state] \in DeviceRows
        BY <1>1
    <2> QED
        BY <1>1, <2>1, <2>2, Sealing
<1>3. \A p \in Containers : ~Running(p) /\ ~Running(p)'
    BY DEF VaultInv, Served, Migrations, Running
<1>4. \A s \in Staff : form[s].of \notin Accounts
    BY DEF VaultInv, FormsOk, Shows, Migrations
<1>5. devices' \in [Users -> [DeviceStates -> DeviceRows]]
    <2>1. devices' = [u \in Users |-> [state \in DeviceStates |-> Sealed(devices[u][state])]]
        OBVIOUS
    <2>2. \A u \in Users, state \in DeviceStates : Sealed(devices[u][state]) \in DeviceRows
        BY <1>2
    <2> QED
        BY <2>1, <2>2
<1>6. TypeOK'
    BY <1>5 DEF VaultInv, TypeOK
<1>7. Covered' /\ Served' /\ Scripted'
    BY <1>3 DEF VaultInv, Covered, Served, Scripted
<1>8. AccountsOk' /\ FormsOk'
    BY <1>4 DEF VaultInv, AccountsOk, FormsOk, Shows, Retyped, Renumbered
<1>9. DevicesOk'
    BY <1>2 DEF VaultInv, DevicesOk, DeviceStates
<1>10. SecretsAreSealed'
    BY <1>2 DEF SecretsAreSealed
<1> QED
    BY <1>6, <1>7, <1>8, <1>9, <1>10 DEF VaultInv
-----------------------------------------------------------------------------
(* The application. One lemma for a row of an account that is written, one *)
(* for the devices of a user.                                              *)

LEMMA AccountWritten ==
    ASSUME VaultInv, NEW p \in Containers, Running(p),
           NEW a \in Accounts, NEW row \in AccountRows, row.kind \in Kinds,
           edited' \subseteq Accounts \X {"type", "number"}, edited \subseteq edited',
           ~Renumbered(a)' => MaskOk(row) /\ (Exists(a) => SameNumber(row, accounts[a])),
           ~Retyped(a)' => (Exists(a) => row.kind = accounts[a].kind),
           ~Renumbered(a)' /\ ~Retyped(a)' => (DeservesNumber(row) <=> IsEncrypted(row.number)),
           accounts' = [accounts EXCEPT ![a] = row],
           form' \in [Staff -> [of : Accounts \cup {NoValue}, row : AccountRows]],
           \A s \in Staff : form'[s] = form[s] \/ form'[s] = NoPage,
           UNCHANGED <<keyring, ring, script, migrated, devices>>
    PROVE  VaultInv'
<1>1. accounts \in [Accounts -> AccountRows]
    BY DEF VaultInv, TypeOK
<1>2. /\ accounts'[a] = row /\ \A b \in Accounts \ {a} : accounts'[b] = accounts[b]
      /\ row.kind # "none" /\ row # NoAccount
    BY <1>1, EmptyRows DEF Kinds
<1>3. TypeOK'
    BY <1>1 DEF VaultInv, TypeOK
<1>4. Covered' /\ Served' /\ Scripted'
    BY DEF VaultInv, Covered, Served, Scripted, Running
<1>5. \A b \in Accounts : (~Renumbered(b)' => ~Renumbered(b)) /\ (~Retyped(b)' => ~Retyped(b))
    BY DEF Retyped, Renumbered
<1>6. AccountsOk'
    BY <1>2, <1>5 DEF VaultInv, AccountsOk
<1>7. ASSUME NEW s \in Staff PROVE Shows(form[s])'
    <2>1. CASE form'[s] = NoPage
        BY <2>1, VaultAssumption DEF Shows, NoPage
    <2>2. CASE form'[s] = form[s] /\ form[s].of \in Accounts
        <3> DEFINE b == form[s].of
        <3>1. /\ migrated = Migrations /\ Exists(b)
              /\ ~Renumbered(b) => MaskOk(form[s].row) /\ SameNumber(form[s].row, accounts[b])
              /\ ~Retyped(b) => form[s].row.kind = accounts[b].kind
            BY <2>2 DEF VaultInv, FormsOk, Shows
        <3>2. /\ accounts'[b] # NoAccount
              /\ ~Renumbered(b)' => SameNumber(form[s].row, accounts'[b])
              /\ ~Retyped(b)' => form[s].row.kind = accounts'[b].kind
            BY <1>2, <1>5, <2>2, <3>1 DEF Exists, SameNumber
        <3> QED
            BY <1>5, <2>2, <3>1, <3>2 DEF Shows, Exists
    <2>3. CASE form'[s] = form[s] /\ form[s].of \notin Accounts
        BY <2>3 DEF Shows
    <2> QED
        BY <2>1, <2>2, <2>3
<1>8. FormsOk' /\ DevicesOk' /\ SecretsAreSealed'
    BY <1>7 DEF VaultInv, FormsOk, DevicesOk, SecretsAreSealed
<1> QED
    BY <1>3, <1>4, <1>6, <1>8 DEF VaultInv

LEMMA Serving ==
    ASSUME VaultInv, NEW p \in Containers, Running(p)
    PROVE  /\ migrated = Migrations /\ ring[p] \in Seq(Labels) /\ ring[p] # <<>>
           /\ Head(ring[p]) \in Range(keyring)
BY DEF VaultInv, TypeOK, Served, Covered, Running

LEMMA OpeningAnAccount ==
    ASSUME VaultInv, NEW p \in Containers, NEW a \in Accounts, NEW kind \in Kinds,
           NEW body \in Bodies, OpenAccount(p, a, kind, body)
    PROVE  VaultInv'
<1> DEFINE empty == OfKind(kind)
           number == Generated(body)
           row == IF DeservesNumber(empty) THEN SetNumber(empty, ring[p], number) ELSE empty
<1>1. /\ Running(p) /\ ~Exists(a) /\ accounts' = [accounts EXCEPT ![a] = row]
      /\ UNCHANGED <<keyring, ring, script, migrated, devices, form, edited>>
    BY DEF OpenAccount, OfKind
<1>2. ring[p] \in Seq(Labels) /\ ring[p] # <<>> /\ Head(ring[p]) \in Range(keyring)
    BY <1>1, Serving
<1>3. /\ empty \in AccountRows /\ MaskOk(empty) /\ empty.kind = kind /\ empty # NoAccount
      /\ ~IsEncrypted(empty.number)
    BY NewRows
<1>4. number \in IssuedNumbers
    BY Issuing
<1> HIDE DEF empty, number
<1>5. LET written == SetNumber(empty, ring[p], number) IN
          /\ written \in AccountRows /\ MaskOk(written) /\ written.kind = kind
          /\ IsEncrypted(written.number)
    BY <1>2, <1>3, <1>4, SettingNumber
<1>7. /\ row \in AccountRows /\ MaskOk(row) /\ row.kind \in Kinds
      /\ DeservesNumber(row) <=> IsEncrypted(row.number)
    BY <1>3, <1>5 DEF DeservesNumber
<1> HIDE DEF row
<1>8. /\ form' \in [Staff -> [of : Accounts \cup {NoValue}, row : AccountRows]]
      /\ edited \subseteq Accounts \X {"type", "number"}
    BY <1>1 DEF VaultInv, TypeOK
<1> QED
    BY <1>1, <1>7, <1>8, AccountWritten

LEMMA OpeningAForm ==
    ASSUME VaultInv, NEW p \in Containers, NEW s \in Staff, NEW a \in Accounts, OpenForm(p, s, a)
    PROVE  VaultInv'
<1> USE DEF OpenForm
<1>1. migrated = Migrations
    BY Serving
<1>2. /\ form \in [Staff -> [of : Accounts \cup {NoValue}, row : AccountRows]]
      /\ accounts[a] \in AccountRows
    BY DEF VaultInv, TypeOK
<1>3. form'[s] = [of |-> a, row |-> accounts[a]] /\ \A t \in Staff \ {s} : form'[t] = form[t]
    BY <1>2
<1>4. form' \in [Staff -> [of : Accounts \cup {NoValue}, row : AccountRows]]
    BY <1>2
<1>5. TypeOK'
    BY <1>4 DEF VaultInv, TypeOK
<1>6. Covered' /\ Served' /\ Scripted' /\ AccountsOk' /\ DevicesOk' /\ SecretsAreSealed'
    BY DEF VaultInv, Covered, Served, Scripted, AccountsOk, DevicesOk, SecretsAreSealed,
           Running, Retyped, Renumbered
<1>7. ASSUME NEW t \in Staff PROVE Shows(form[t])'
    <2>1. CASE t = s
        BY <1>1, <1>3, <2>1 DEF VaultInv, AccountsOk, SameNumber, Shows, Exists, Renumbered
    <2>2. CASE t # s
        BY <1>3, <2>2 DEF VaultInv, FormsOk, Shows, Exists, Retyped, Renumbered
    <2> QED
        BY <2>1, <2>2
<1>8. FormsOk'
    BY <1>7 DEF FormsOk
<1> QED
    BY <1>5, <1>6, <1>8 DEF VaultInv

(* What a posted page writes, against the row it shows.                    *)
LEMMA Posting ==
    ASSUME VaultInv, NEW p \in Containers, NEW s \in Staff, SaveForm(p, s)
    PROVE  LET a == form[s].of
               shown == form[s].row
           IN
           /\ Running(p) /\ a \in Accounts
           /\ form' = [form EXCEPT ![s] = NoPage]
           /\ UNCHANGED <<keyring, ring, script, migrated, devices>>
           /\ edited \subseteq edited' /\ edited' \subseteq Accounts \X {"type", "number"}
           /\ \E row \in AccountRows :
                  /\ accounts' = [accounts EXCEPT ![a] = row]
                  /\ row.kind \in Kinds /\ row.number \in {shown.number, Blank}
                  /\ <<a, "number">> \notin edited' => row.number = shown.number /\ row.last4 = shown.last4
                  /\ <<a, "type">> \notin edited' => row.kind = shown.kind
<1> DEFINE a == form[s].of
           shown == form[s].row
<1>1. PICK kind \in Kinds, number \in {shown.number, Blank}, last4 \in {shown.last4, NoValue} :
          /\ accounts' = [accounts EXCEPT ![a] = [kind |-> kind, number |-> number, last4 |-> last4]]
          /\ edited' = edited
                 \cup {<<a, "type">> : x \in {kind} \ {shown.kind}}
                 \cup {<<a, "number">> : x \in {<<number, last4>>} \ {<<shown.number, shown.last4>>}}
    BY DEF SaveForm
<1> DEFINE row == [kind |-> kind, number |-> number, last4 |-> last4]
<1>2. /\ Running(p) /\ a \in Accounts /\ form' = [form EXCEPT ![s] = NoPage]
      /\ UNCHANGED <<keyring, ring, script, migrated, devices>>
    BY DEF SaveForm
<1>3. shown \in AccountRows /\ edited \subseteq Accounts \X {"type", "number"}
    BY DEF VaultInv, TypeOK
<1>4. row \in AccountRows
    BY <1>3, EmptyRows DEF AccountRows
<1>5. edited \subseteq edited' /\ edited' \subseteq Accounts \X {"type", "number"}
    BY <1>1, <1>2, <1>3
<1>6. <<a, "number">> \notin edited' => number = shown.number /\ last4 = shown.last4
    <2>1. ASSUME <<number, last4>> # <<shown.number, shown.last4>> PROVE <<a, "number">> \in edited'
        <3>1. \E x \in {<<number, last4>>} \ {<<shown.number, shown.last4>>} : TRUE
            BY <2>1
        <3> QED
            BY <1>1, <3>1
    <2> QED
        BY <2>1
<1>7. <<a, "type">> \notin edited' => kind = shown.kind
    <2>1. kind # shown.kind => <<a, "type">> \in edited'
        BY <1>1
    <2> QED
        BY <2>1
<1>8. row.kind = kind /\ row.number = number /\ row.last4 = last4
    OBVIOUS
<1>9. accounts' = [accounts EXCEPT ![a] = row]
    BY <1>1
<1> HIDE DEF row
<1>10. /\ row.kind \in Kinds /\ row.number \in {shown.number, Blank}
       /\ <<a, "number">> \notin edited' => row.number = shown.number /\ row.last4 = shown.last4
       /\ <<a, "type">> \notin edited' => row.kind = shown.kind
    BY <1>6, <1>7, <1>8
<1> QED
    BY <1>2, <1>4, <1>5, <1>9, <1>10

LEMMA SavingAForm ==
    ASSUME VaultInv, NEW p \in Containers, NEW s \in Staff, SaveForm(p, s)
    PROVE  VaultInv'
<1> DEFINE a == form[s].of
           shown == form[s].row
<1>1. /\ Running(p) /\ a \in Accounts /\ form' = [form EXCEPT ![s] = NoPage]
      /\ UNCHANGED <<keyring, ring, script, migrated, devices>>
      /\ edited \subseteq edited' /\ edited' \subseteq Accounts \X {"type", "number"}
    BY Posting
<1>2. PICK row \in AccountRows :
          /\ accounts' = [accounts EXCEPT ![a] = row]
          /\ row.kind \in Kinds /\ row.number \in {shown.number, Blank}
          /\ <<a, "number">> \notin edited' => row.number = shown.number /\ row.last4 = shown.last4
          /\ <<a, "type">> \notin edited' => row.kind = shown.kind
    BY Posting
<1>3. /\ <<a, "number">> \notin edited' => ~Renumbered(a)
      /\ <<a, "type">> \notin edited' => ~Retyped(a)
    BY <1>1 DEF Renumbered, Retyped
<1>4. /\ ~Renumbered(a) => MaskOk(shown) /\ SameNumber(shown, accounts[a])
      /\ ~Retyped(a) => shown.kind = accounts[a].kind
    BY <1>1 DEF VaultInv, FormsOk, Shows
<1>5. ~Renumbered(a) /\ ~Retyped(a) =>
          (DeservesNumber(accounts[a]) <=> IsEncrypted(accounts[a].number))
    BY <1>1, Serving DEF VaultInv, AccountsOk, Migrations
<1>6. /\ form' \in [Staff -> [of : Accounts \cup {NoValue}, row : AccountRows]]
      /\ \A t \in Staff : form'[t] = form[t] \/ form'[t] = NoPage
    BY <1>1, EmptyRows DEF VaultInv, TypeOK, NoPage
<1> HIDE DEF shown
<1>7. <<a, "number">> \notin edited' => MaskOk(row) /\ SameNumber(row, accounts[a])
    BY <1>2, <1>3, <1>4 DEF MaskOk, SameNumber
<1>8. <<a, "type">> \notin edited' => row.kind = accounts[a].kind
    BY <1>2, <1>3, <1>4
<1>9. <<a, "number">> \notin edited' /\ <<a, "type">> \notin edited' => (DeservesNumber(row) <=> IsEncrypted(row.number))
    BY <1>3, <1>5, <1>7, <1>8 DEF DeservesNumber, SameNumber
<1>10. ASSUME NEW b \in Accounts, b = a PROVE VaultInv'
    BY <1>1, <1>2, <1>6, <1>7, <1>8, <1>9, <1>10, AccountWritten DEF Renumbered, Retyped
<1> QED
    BY <1>1, <1>10

LEMMA RekeyingAnAccount ==
    ASSUME VaultInv, NEW p \in Containers, NEW a \in Accounts, RekeyAccount(p, a)
    PROVE  VaultInv'
<1> DEFINE number == Decrypt(accounts[a].number)
           row == SetNumber(accounts[a], ring[p], number)
<1>1. /\ Running(p) /\ IsEncrypted(accounts[a].number) /\ accounts' = [accounts EXCEPT ![a] = row]
      /\ UNCHANGED <<keyring, ring, script, migrated, devices, form, edited>>
    BY DEF RekeyAccount
<1>2. ring[p] \in Seq(Labels) /\ ring[p] # <<>>
    BY <1>1, Serving
<1>3. /\ accounts[a] \in AccountRows /\ accounts[a].number \in Columns(IssuedNumbers)
      /\ form \in [Staff -> [of : Accounts \cup {NoValue}, row : AccountRows]]
      /\ edited \subseteq Accounts \X {"type", "number"}
    BY DEF VaultInv, TypeOK, AccountRows
<1>4. number \in IssuedNumbers
    BY <1>1, <1>3, Encrypted
<1>5. accounts[a].kind \in Kinds
    BY <1>1, <1>3, EmptyRows DEF VaultInv, AccountsOk, AccountRows
<1>6. ~Renumbered(a) /\ ~Retyped(a) => DeservesNumber(accounts[a])
    BY <1>1 DEF VaultInv, AccountsOk
<1> HIDE DEF number
<1>7. /\ row \in AccountRows /\ MaskOk(row) /\ row.kind = accounts[a].kind
      /\ IsEncrypted(row.number) /\ Decrypt(row.number) = number
    BY <1>2, <1>3, <1>4, SettingNumber
<1>8. number = Decrypt(accounts[a].number)
    BY DEF number
<1> HIDE DEF row
<1>9. /\ SameNumber(row, accounts[a])
      /\ ~Renumbered(a) /\ ~Retyped(a) => DeservesNumber(row)
    BY <1>1, <1>6, <1>7, <1>8 DEF SameNumber, DeservesNumber
<1>10. (Renumbered(a)' <=> Renumbered(a)) /\ (Retyped(a)' <=> Retyped(a))
    BY <1>1 DEF Renumbered, Retyped
<1> QED
    BY <1>1, <1>3, <1>5, <1>7, <1>9, <1>10, AccountWritten

LEMMA DeviceWritten ==
    ASSUME VaultInv, NEW p \in Containers, Running(p), NEW u \in Users,
           NEW new \in [DeviceStates -> DeviceRows],
           new["pending"] = NoDevice \/ new["confirmed"] = NoDevice,
           \A state \in DeviceStates :
               new[state] # NoDevice =>
                   new[state].plain = NoValue /\ IsEncrypted(new[state].secret),
           devices' = [devices EXCEPT ![u] = new],
           UNCHANGED <<keyring, ring, script, migrated, accounts, form, edited>>
    PROVE  VaultInv'
<1>1. devices \in [Users -> [DeviceStates -> DeviceRows]]
    BY DEF VaultInv, TypeOK
<1>2. devices'[u] = new /\ \A v \in Users \ {u} : devices'[v] = devices[v]
    BY <1>1
<1>3. TypeOK'
    BY <1>1 DEF VaultInv, TypeOK
<1>4. Covered' /\ Served' /\ Scripted' /\ AccountsOk' /\ FormsOk'
    BY DEF VaultInv, Covered, Served, Scripted, Running, AccountsOk, FormsOk,
           Shows, Exists, Retyped, Renumbered
<1>5. DevicesOk'
    BY <1>2 DEF VaultInv, DevicesOk
<1>6. SecretsAreSealed'
    <2>1. "identity.0002" \in migrated
        BY Serving DEF Migrations
    <2> QED
        BY <1>2, <2>1 DEF VaultInv, SecretsAreSealed
<1> QED
    BY <1>3, <1>4, <1>5, <1>6 DEF VaultInv

LEMMA Devices ==
    ASSUME VaultInv, NEW p \in Containers, Running(p), NEW u \in Users
    PROVE  /\ devices \in [Users -> [DeviceStates -> DeviceRows]]
           /\ devices[u] \in [DeviceStates -> DeviceRows]
           /\ devices[u]["pending"] = NoDevice \/ devices[u]["confirmed"] = NoDevice
           /\ \A state \in DeviceStates :
                  /\ devices[u][state] \in DeviceRows
                  /\ devices[u][state] # NoDevice =>
                         devices[u][state].plain = NoValue /\ IsEncrypted(devices[u][state].secret)
<1>1. devices \in [Users -> [DeviceStates -> DeviceRows]]
    BY DEF VaultInv, TypeOK
<1>2. "identity.0002" \in migrated
    BY Serving DEF Migrations
<1> QED
    BY <1>1, <1>2 DEF VaultInv, DevicesOk, SecretsAreSealed

LEMMA SealedDevice ==
    ASSUME VaultInv, NEW p \in Containers, Running(p), NEW secret \in Secrets
    PROVE  LET row == [plain |-> NoValue, secret |-> Encrypt(ring[p], secret)] IN
           /\ row \in DeviceRows
           /\ row.plain = NoValue /\ IsEncrypted(row.secret) /\ Decrypt(row.secret) = secret
<1>1. ring[p] \in Seq(Labels) /\ ring[p] # <<>>
    BY Serving
<1> DEFINE column == Encrypt(ring[p], secret)
<1>2. /\ column \in Columns(Secrets) /\ IsEncrypted(column) /\ Decrypt(column) = secret
    BY <1>1, Encrypting
<1> HIDE DEF column
<1> QED
    BY <1>1, <1>2 DEF DeviceRows, column

LEMMA Enrolling ==
    ASSUME VaultInv, NEW p \in Containers, NEW u \in Users, NEW secret \in Secrets,
           Enroll(p, u, secret)
    PROVE  VaultInv'
<1> DEFINE row == [plain |-> NoValue, secret |-> Encrypt(ring[p], secret)]
           new == [devices[u] EXCEPT !["pending"] = row]
<1>1. /\ Running(p) /\ devices[u]["confirmed"] = NoDevice
      /\ devices' = [devices EXCEPT ![u] = new]
      /\ UNCHANGED <<keyring, ring, script, migrated, accounts, form, edited>>
    BY DEF Enroll
<1>2. /\ devices[u] \in [DeviceStates -> DeviceRows]
      /\ \A state \in DeviceStates :
             devices[u][state] # NoDevice =>
                 devices[u][state].plain = NoValue /\ IsEncrypted(devices[u][state].secret)
    BY <1>1, Devices
<1>3. row \in DeviceRows /\ row.plain = NoValue /\ IsEncrypted(row.secret)
    BY <1>1, SealedDevice
<1> HIDE DEF row
<1>4. /\ new \in [DeviceStates -> DeviceRows] /\ new["confirmed"] = NoDevice
      /\ \A state \in DeviceStates : new[state] = IF state = "pending" THEN row ELSE devices[u][state]
    BY <1>1, <1>2, <1>3 DEF DeviceStates
<1> HIDE DEF new
<1>5. \A state \in DeviceStates :
          new[state] # NoDevice => new[state].plain = NoValue /\ IsEncrypted(new[state].secret)
    BY <1>2, <1>3, <1>4
<1> QED
    BY <1>1, <1>4, <1>5, DeviceWritten

LEMMA Confirming ==
    ASSUME VaultInv, NEW p \in Containers, NEW u \in Users, Confirm(p, u)
    PROVE  VaultInv'
<1> DEFINE new == [devices[u] EXCEPT !["pending"] = NoDevice, !["confirmed"] = devices[u]["pending"]]
<1>1. /\ Running(p) /\ UNCHANGED <<keyring, ring, script, migrated, accounts, form, edited>>
    BY DEF Confirm
<1>2. /\ devices[u] \in [DeviceStates -> DeviceRows]
      /\ devices \in [Users -> [DeviceStates -> DeviceRows]]
      /\ \A state \in DeviceStates :
             devices[u][state] # NoDevice =>
                 devices[u][state].plain = NoValue /\ IsEncrypted(devices[u][state].secret)
    BY <1>1, Devices
<1>3. devices' = [devices EXCEPT ![u] = new]
    BY <1>2 DEF Confirm
<1>4. /\ new \in [DeviceStates -> DeviceRows] /\ new["pending"] = NoDevice
      /\ new["confirmed"] = devices[u]["pending"]
    BY <1>2, EmptyRows DEF DeviceStates
<1> HIDE DEF new
<1>5. \A state \in DeviceStates :
          new[state] # NoDevice => new[state].plain = NoValue /\ IsEncrypted(new[state].secret)
    BY <1>2, <1>4, EmptyRows DEF DeviceStates
<1> QED
    BY <1>1, <1>3, <1>4, <1>5, DeviceWritten

LEMMA Disabling ==
    ASSUME VaultInv, NEW p \in Containers, NEW u \in Users, Disable(p, u)
    PROVE  VaultInv'
<1> DEFINE new == [devices[u] EXCEPT !["confirmed"] = NoDevice]
<1>1. /\ Running(p) /\ devices' = [devices EXCEPT ![u] = new]
      /\ UNCHANGED <<keyring, ring, script, migrated, accounts, form, edited>>
    BY DEF Disable
<1>2. /\ devices[u] \in [DeviceStates -> DeviceRows]
      /\ \A state \in DeviceStates :
             devices[u][state] # NoDevice =>
                 devices[u][state].plain = NoValue /\ IsEncrypted(devices[u][state].secret)
    BY <1>1, Devices
<1>3. /\ new \in [DeviceStates -> DeviceRows] /\ new["confirmed"] = NoDevice
      /\ new["pending"] = devices[u]["pending"]
    BY <1>2, EmptyRows DEF DeviceStates
<1> HIDE DEF new
<1>4. \A state \in DeviceStates :
          new[state] # NoDevice => new[state].plain = NoValue /\ IsEncrypted(new[state].secret)
    BY <1>2, <1>3, EmptyRows DEF DeviceStates
<1> QED
    BY <1>1, <1>3, <1>4, DeviceWritten

LEMMA RekeyingADevice ==
    ASSUME VaultInv, NEW p \in Containers, NEW u \in Users, NEW state \in DeviceStates,
           RekeyDevice(p, u, state)
    PROVE  VaultInv'
<1> DEFINE old == devices[u][state]
           row == [plain |-> NoValue, secret |-> Encrypt(ring[p], Decrypt(old.secret))]
           new == [devices[u] EXCEPT ![state] = row]
<1>1. /\ Running(p) /\ IsEncrypted(old.secret)
      /\ UNCHANGED <<keyring, ring, script, migrated, accounts, form, edited>>
    BY DEF RekeyDevice
<1>2. /\ devices[u] \in [DeviceStates -> DeviceRows]
      /\ devices \in [Users -> [DeviceStates -> DeviceRows]]
      /\ devices[u]["pending"] = NoDevice \/ devices[u]["confirmed"] = NoDevice
      /\ \A any \in DeviceStates :
             /\ devices[u][any] \in DeviceRows
             /\ devices[u][any] # NoDevice =>
                    devices[u][any].plain = NoValue /\ IsEncrypted(devices[u][any].secret)
    BY <1>1, Devices
<1>3. old # NoDevice /\ old.plain = NoValue
    BY <1>1, <1>2, EmptyRows
<1>4. Decrypt(old.secret) \in Secrets
    <2>1. old.secret \in Columns(Secrets)
        BY <1>2 DEF DeviceRows
    <2> QED
        BY <1>1, <2>1, Encrypted
<1>5. row \in DeviceRows /\ row.plain = NoValue /\ IsEncrypted(row.secret)
    BY <1>1, <1>4, SealedDevice
<1>6. [old EXCEPT !.secret = Encrypt(ring[p], Decrypt(old.secret))] = row
    BY <1>2, <1>3 DEF DeviceRows
<1>7. devices' = [devices EXCEPT ![u] = new]
    <2>1. devices' = [devices EXCEPT ![u] = [devices[u] EXCEPT ![state] =
                          [old EXCEPT !.secret = Encrypt(ring[p], Decrypt(old.secret))]]]
        BY DEF RekeyDevice
    <2> HIDE DEF row, old
    <2> QED
        BY <1>6, <2>1
<1> HIDE DEF row
<1>8. /\ new \in [DeviceStates -> DeviceRows]
      /\ \A any \in DeviceStates : new[any] = IF any = state THEN row ELSE devices[u][any]
    BY <1>2, <1>5
<1> HIDE DEF new
<1>9. \A any \in DeviceStates :
          new[any] # NoDevice => new[any].plain = NoValue /\ IsEncrypted(new[any].secret)
    BY <1>2, <1>5, <1>8
<1>10. new["pending"] = NoDevice \/ new["confirmed"] = NoDevice
    BY <1>2, <1>3, <1>8 DEF DeviceStates
<1> QED
    BY <1>1, <1>7, <1>8, <1>9, <1>10, DeviceWritten
-----------------------------------------------------------------------------
LEMMA VaultInvStep == VaultInv /\ [Next]_vars => VaultInv'
<1> SUFFICES ASSUME VaultInv, [Next]_vars PROVE VaultInv'
    OBVIOUS
<1>1. CASE Operator
    <2>1. ASSUME NEW k \in Labels, PrependKey(k) PROVE VaultInv'
        BY <2>1, PrependingAKey
    <2>2. CASE DropKey
        BY <2>2, DroppingAKey
    <2>3. CASE Deploy \/ StopHalfWay
        BY <2>3, Deploying
    <2> QED
        BY <1>1, <2>1, <2>2, <2>3 DEF Operator
<1>2. CASE Release
    <2>1. CASE AssignMissingNumbers
        BY <2>1, AssigningNumbers
    <2>2. CASE EncryptMfaSecrets
        BY <2>2, EncryptingSecrets
    <2>3. CASE EndMigrate
        BY <2>3, EndingTheMigrations
    <2>4. ASSUME NEW p \in Containers, Roll(p) PROVE VaultInv'
        BY <2>4, Rolling
    <2> QED
        BY <1>2, <2>1, <2>2, <2>3, <2>4 DEF Release
<1>3. ASSUME NEW p \in Containers, Application(p) PROVE VaultInv'
    <2>1. ASSUME NEW a \in Accounts, NEW kind \in Kinds, NEW body \in Bodies,
                 OpenAccount(p, a, kind, body)
          PROVE  VaultInv'
        BY <2>1, OpeningAnAccount
    <2>2. ASSUME NEW s \in Staff, NEW a \in Accounts, OpenForm(p, s, a) PROVE VaultInv'
        BY <2>2, OpeningAForm
    <2>3. ASSUME NEW s \in Staff, SaveForm(p, s) PROVE VaultInv'
        BY <2>3, SavingAForm
    <2>4. ASSUME NEW u \in Users, NEW secret \in Secrets, Enroll(p, u, secret) PROVE VaultInv'
        BY <2>4, Enrolling
    <2>5. ASSUME NEW u \in Users, Confirm(p, u) PROVE VaultInv'
        BY <2>5, Confirming
    <2>6. ASSUME NEW u \in Users, Disable(p, u) PROVE VaultInv'
        BY <2>6, Disabling
    <2>7. ASSUME NEW a \in Accounts, RekeyAccount(p, a) PROVE VaultInv'
        BY <2>7, RekeyingAnAccount
    <2>8. ASSUME NEW u \in Users, NEW state \in DeviceStates, RekeyDevice(p, u, state) PROVE VaultInv'
        BY <2>8, RekeyingADevice
    <2> QED
        BY <1>3, <2>1, <2>2, <2>3, <2>4, <2>5, <2>6, <2>7, <2>8, Zenon DEF Application
<1>4. CASE UNCHANGED vars
    BY <1>4 DEF vars, VaultInv, TypeOK, Covered, Served, Scripted, AccountsOk, FormsOk, DevicesOk,
                SecretsAreSealed, Running, Exists, Shows, Retyped, Renumbered
<1> QED
    BY <1>1, <1>2, <1>3, <1>4 DEF Next

(* The inductive invariant of key ring, rows and admin pages.              *)
THEOREM VaultInvariant == Spec => []VaultInv
<1> QED
    BY VaultInvInit, VaultInvStep, PTL DEF Spec

(* Type correctness of the encrypted columns and the key rings.            *)
THEOREM VaultTyped == Spec => []TypeOK
<1>1. VaultInv => TypeOK
    BY DEF VaultInv
<1> QED
    BY <1>1, VaultInvariant, PTL

(* Where a ciphertext that appears in a table comes from: another row, the *)
(* first key of a ring, or a page.                                         *)
LEMMA WrittenColumns ==
    ASSUME VaultInv, [Next]_vars, NEW column \in Stored', IsEncrypted(column)
    PROVE  \/ column \in Stored \/ column.label \in Range(keyring)
           \/ \E s \in Staff : form[s].row.number = column /\ form'[s] = NoPage
<1> DEFINE Sourced == \/ column \in Stored \/ column.label \in Range(keyring)
                      \/ \E s \in Staff : form[s].row.number = column /\ form'[s] = NoPage
<1>1. /\ accounts \in [Accounts -> AccountRows]
      /\ devices \in [Users -> [DeviceStates -> DeviceRows]]
      /\ keyring \in Seq(Labels)
      /\ form \in [Staff -> [of : Accounts \cup {NoValue}, row : AccountRows]]
    BY DEF VaultInv, TypeOK
<1>2. \A p \in Containers : Running(p) => Head(ring[p]) \in Range(keyring)
    BY Serving
<1>3. keyring # <<>> => Head(keyring) \in Range(keyring)
    BY <1>1, Heads
<1>4. \A keys, value : Encrypt(keys, value).label = Head(keys)
    BY DEF Encrypt
<1>5. \/ \E a \in Accounts : column = accounts'[a].number
      \/ \E u \in Users, state \in DeviceStates : column = devices'[u][state].secret
    BY DEF Stored
<1>6. /\ \A a \in Accounts : column = accounts[a].number => column \in Stored
      /\ \A u \in Users, state \in DeviceStates : column = devices[u][state].secret => column \in Stored
    BY DEF Stored
<1>7. ASSUME NEW a \in Accounts, NEW row \in AccountRows, accounts' = [accounts EXCEPT ![a] = row],
             UNCHANGED devices
      PROVE  column \in Stored \/ column = row.number
    <2>1. accounts'[a] = row /\ \A b \in Accounts \ {a} : accounts'[b] = accounts[b]
        BY <1>1, <1>7
    <2> QED
        BY <1>5, <1>6, <1>7, <2>1
<1>8. CASE AssignMissingNumbers
    <2>1. PICK draw \in [Accounts -> Bodies] :
              accounts' = [a \in Accounts |->
                  IF Exists(a) /\ DeservesNumber(accounts[a]) /\ ~IsEncrypted(accounts[a].number)
                    THEN SetNumber(accounts[a], keyring, Generated(draw[a])) ELSE accounts[a]]
        BY <1>8 DEF AssignMissingNumbers
    <2>2. keyring # <<>> /\ UNCHANGED devices
        BY <1>8 DEF AssignMissingNumbers, StepOf
    <2>3. ASSUME NEW a \in Accounts PROVE \/ accounts'[a] = accounts[a]
                                          \/ accounts'[a].number.label = Head(keyring)
        <3> DEFINE number == Generated(draw[a])
        <3>1. draw[a] \in Bodies
            OBVIOUS
        <3>2. number \in IssuedNumbers
            BY <3>1, Issuing
        <3> HIDE DEF number
        <3>3. SetNumber(accounts[a], keyring, number).number.label = Head(keyring)
            BY <1>1, <2>2, <3>2, SettingNumber
        <3> QED
            BY <2>1, <3>3 DEF number
    <2> QED
        BY <1>3, <1>5, <1>6, <2>2, <2>3
<1>9. CASE EncryptMfaSecrets
    <2>1. /\ keyring # <<>> /\ UNCHANGED accounts
          /\ \A u \in Users, state \in DeviceStates : devices'[u][state] = Sealed(devices[u][state])
        BY <1>9 DEF EncryptMfaSecrets, StepOf
    <2>2. ASSUME NEW row
          PROVE  Sealed(row).secret = row.secret \/ Sealed(row).secret.label = Head(keyring)
        BY <1>4 DEF Sealed
    <2> QED
        BY <1>3, <1>5, <1>6, <2>1, <2>2
<1>10. ASSUME NEW p \in Containers, Application(p) PROVE Sourced
    <2>1. ASSUME NEW a \in Accounts, NEW kind \in Kinds, NEW body \in Bodies,
                 OpenAccount(p, a, kind, body)
          PROVE  Sourced
        <3> DEFINE empty == OfKind(kind)
                   number == Generated(body)
                   row == IF DeservesNumber(empty) THEN SetNumber(empty, ring[p], number) ELSE empty
        <3>1. Running(p) /\ accounts' = [accounts EXCEPT ![a] = row] /\ UNCHANGED devices
            BY <2>1 DEF OpenAccount, OfKind
        <3>2. empty \in AccountRows /\ ~IsEncrypted(empty.number) /\ number \in IssuedNumbers
            BY NewRows, Issuing
        <3> HIDE DEF empty, number
        <3>3. /\ SetNumber(empty, ring[p], number) \in AccountRows
              /\ SetNumber(empty, ring[p], number).number.label = Head(ring[p])
            BY <3>1, <3>2, Serving, SettingNumber
        <3>4. row \in AccountRows /\ (row.number.label = Head(ring[p]) \/ ~IsEncrypted(row.number))
            BY <3>2, <3>3
        <3> HIDE DEF row
        <3> QED
            BY <1>2, <1>7, <3>1, <3>4
    <2>2. ASSUME NEW s \in Staff, SaveForm(p, s) PROVE Sourced
        <3> DEFINE a == form[s].of
        <3>1. /\ a \in Accounts /\ form'[s] = NoPage /\ UNCHANGED devices
            BY <1>1, <2>2, Posting
        <3>2. PICK row \in AccountRows : /\ accounts' = [accounts EXCEPT ![a] = row]
                                         /\ row.number \in {form[s].row.number, Blank}
            BY <2>2, Posting
        <3> QED
            BY <1>7, <3>1, <3>2 DEF IsEncrypted
    <2>3. ASSUME NEW a \in Accounts, RekeyAccount(p, a) PROVE Sourced
        <3> DEFINE number == Decrypt(accounts[a].number)
                   row == SetNumber(accounts[a], ring[p], number)
        <3>1. /\ Running(p) /\ IsEncrypted(accounts[a].number) /\ UNCHANGED devices
              /\ accounts' = [accounts EXCEPT ![a] = row]
            BY <2>3 DEF RekeyAccount
        <3>2. number \in IssuedNumbers
            BY <1>1, <3>1, Encrypted DEF AccountRows
        <3> HIDE DEF number
        <3>3. row \in AccountRows /\ row.number.label = Head(ring[p])
            BY <1>1, <3>1, <3>2, Serving, SettingNumber
        <3> HIDE DEF row
        <3> QED
            BY <1>2, <1>7, <3>1, <3>3
    <2>4. ASSUME NEW u \in Users, NEW secret \in Secrets, Enroll(p, u, secret) PROVE Sourced
        <3> DEFINE written == Encrypt(ring[p], secret)
        <3>1. /\ Running(p) /\ UNCHANGED accounts
              /\ devices' = [devices EXCEPT ![u]["pending"] = [plain |-> NoValue, secret |-> written]]
            BY <2>4 DEF Enroll
        <3>2. written.label = Head(ring[p])
            BY <1>4
        <3> HIDE DEF written
        <3>3. \A v \in Users, state \in DeviceStates :
                  devices'[v][state] = devices[v][state] \/ devices'[v][state].secret = written
            BY <1>1, <3>1
        <3> QED
            BY <1>2, <1>5, <1>6, <3>1, <3>2, <3>3
    <2>5. ASSUME NEW u \in Users, Confirm(p, u) \/ Disable(p, u) PROVE Sourced
        <3>1. \A v \in Users, state \in DeviceStates :
                  \/ devices'[v][state] = devices[v][state] \/ devices'[v][state] = NoDevice
                  \/ v = u /\ devices'[v][state] = devices[u]["pending"]
            BY <1>1, <2>5 DEF Confirm, Disable
        <3>2. ~IsEncrypted(NoDevice.secret) /\ "pending" \in DeviceStates /\ UNCHANGED accounts
            BY <2>5, EmptyRows DEF Confirm, Disable, DeviceStates
        <3> QED
            BY <1>5, <1>6, <3>1, <3>2
    <2>6. ASSUME NEW u \in Users, NEW state \in DeviceStates, RekeyDevice(p, u, state) PROVE Sourced
        <3> DEFINE written == Encrypt(ring[p], Decrypt(devices[u][state].secret))
        <3>1. /\ Running(p) /\ UNCHANGED accounts
              /\ devices' = [devices EXCEPT ![u][state].secret = written]
            BY <2>6 DEF RekeyDevice
        <3>2. written.label = Head(ring[p])
            BY <1>4
        <3> HIDE DEF written
        <3>3. \A v \in Users, any \in DeviceStates :
                  devices'[v][any] = devices[v][any] \/ devices'[v][any].secret = written
            <4>1. devices[u][state] \in DeviceRows
                BY <1>1
            <4>2. [devices[u][state] EXCEPT !.secret = written].secret = written
                BY <4>1 DEF DeviceRows
            <4> QED
                BY <1>1, <3>1, <4>2
        <3> QED
            BY <1>2, <1>5, <1>6, <3>1, <3>2, <3>3
    <2>7. ASSUME NEW s \in Staff, NEW a \in Accounts, OpenForm(p, s, a) PROVE Sourced
        BY <1>5, <1>6, <2>7 DEF OpenForm
    <2> QED
        BY <1>10, <2>1, <2>2, <2>3, <2>4, <2>5, <2>6, <2>7, Zenon DEF Application
<1>11. CASE UNCHANGED <<accounts, devices>>
    BY <1>5, <1>6, <1>11
<1>12. CASE UNCHANGED vars
    BY <1>11, <1>12 DEF vars
<1> QED
    BY <1>8, <1>9, <1>10, <1>11, <1>12
       DEF Next, Operator, Release, PrependKey, DropKey, Deploy, StopHalfWay, EndMigrate, Roll

LEMMA OrphansArePosted ==
    ASSUME VaultInv, [Next]_vars, NEW column \in Stored', Orphaned(column)'
    PROVE  \/ column \in Stored /\ Orphaned(column)
           \/ \E s \in Staff : /\ form[s].row.number = column /\ Orphaned(column)
                               /\ form'[s] = NoPage
<1>1. IsEncrypted(column) /\ column.label \notin Range(keyring')
    BY DEF Orphaned
<1>2. keyring \in Seq(Labels)
    BY DEF VaultInv, TypeOK
<1>3. CASE DropKey
    <2>1. /\ Len(keyring) > 1 /\ keyring' = SubSeq(keyring, 1, Len(keyring) - 1)
          /\ ~InUse(keyring[Len(keyring)]) /\ column \in Stored
        BY <1>3 DEF DropKey, Stored
    <2>2. column.label # keyring[Len(keyring)]
        BY <2>1 DEF InUse
    <2>3. \A x \in Range(keyring) : x # keyring[Len(keyring)] => x \in Range(keyring')
        BY <1>2, <2>1, Sequences
    <2> QED
        BY <1>1, <2>1, <2>2, <2>3 DEF Orphaned
<1>4. CASE Range(keyring) \subseteq Range(keyring')
    BY <1>1, <1>4, WrittenColumns DEF Orphaned
<1>5. ASSUME NEW k \in Labels, PrependKey(k) PROVE Range(keyring) \subseteq Range(keyring')
    BY <1>2, <1>5, Sequences DEF PrependKey
<1>6. DropKey \/ (\E k \in Labels : PrependKey(k)) \/ UNCHANGED keyring
    BY DEF Next, Operator, Release, Application, vars, Deploy, StopHalfWay,
           AssignMissingNumbers, EncryptMfaSecrets, EndMigrate, Roll,
           OpenAccount, OpenForm, SaveForm, Enroll, Confirm, Disable, RekeyAccount, RekeyDevice
<1> QED
    BY <1>3, <1>4, <1>5, <1>6

(* However keys are prepended and dropped by what the tables hold,         *)
(* releases interrupted and rows written by replicas of two rings          *)
(* (common/crypto.py, deploy/deploy.sh), no stored ciphertext loses its    *)
(* key; one without a key gets into a table from an admin page opened      *)
(* before the drop (accounts/admin.py) and in no other way.                *)
THEOREM NothingOrphanedHolds == Spec => NothingOrphaned
<1>1. VaultInv /\ [Next]_vars =>
        [\A column \in Stored' :
            Orphaned(column)' =>
                \/ column \in Stored /\ Orphaned(column)
                \/ \E s \in Staff : /\ form[s].row.number = column /\ Orphaned(column)
                                    /\ form'[s] = NoPage]_vars
    BY OrphansArePosted
<1> QED
    BY <1>1, VaultInvariant, PTL DEF Spec, NothingOrphaned

(* The four digits in the clear are those of the encrypted number, after   *)
(* every way of writing an account (accounts/models.py) but emptying one   *)
(* of the two boxes of the admin page.                                     *)
THEOREM MaskMatchesNumberHolds == Spec => []MaskMatchesNumber
<1>1. VaultInv => MaskMatchesNumber
    BY DEF VaultInv, AccountsOk, MaskOk, MaskMatchesNumber, Renumbered
<1> QED
    BY <1>1, VaultInvariant, PTL

(* After the backfill customers' accounts and only they are numbered,      *)
(* opened before or after it (accounts/backfills.py, Account.save), but    *)
(* for those staff retyped or emptied by hand (accounts/admin.py).         *)
THEOREM CustomersAreNumberedHolds == Spec => []CustomersAreNumbered
<1>1. VaultInv => CustomersAreNumbered
    <2> SUFFICES ASSUME VaultInv, "accounts.0005" \in migrated, NEW a \in Accounts, Exists(a),
                        {<<a, "type">>, <<a, "number">>} \cap edited = {}
                 PROVE  DeservesNumber(accounts[a]) <=> IsEncrypted(accounts[a].number)
        BY DEF CustomersAreNumbered
    <2>1. ~Renumbered(a) /\ ~Retyped(a)
        BY DEF Renumbered, Retyped
    <2> QED
        BY <2>1 DEF VaultInv, AccountsOk
<1> QED
    BY <1>1, VaultInvariant, PTL

(* After the migration no TOTP secret is in the clear and none is lost     *)
(* (identity/backfills.py, identity/models.py).                            *)
THEOREM SecretsAreSealedHolds == Spec => []SecretsAreSealed
<1>1. VaultInv => SecretsAreSealed
    BY DEF VaultInv
<1> QED
    BY <1>1, VaultInvariant, PTL

(* Every number that is stored is valid, and no digit changed and no two   *)
(* neighbours exchanged leave it valid (accounts/numbers.py), for every    *)
(* body of at most ten digits.                                             *)
THEOREM SlipsAreCaughtHolds == Spec => []SlipsAreCaught
<1>1. ASSUME VaultInv PROVE SlipsAreCaught
    <2> SUFFICES ASSUME NEW a \in Accounts, IsEncrypted(accounts[a].number)
                 PROVE  /\ IsValid(Decrypt(accounts[a].number))
                        /\ \A slip \in SlipsOf(Decrypt(accounts[a].number)) : ~IsValid(slip)
        BY DEF SlipsAreCaught
    <2>1. accounts[a].number \in Columns(IssuedNumbers)
        BY <1>1 DEF VaultInv, TypeOK, AccountRows
    <2>2. Decrypt(accounts[a].number) \in IssuedNumbers
        BY <2>1, Encrypted
    <2>3. Decrypt(accounts[a].number) \in Int /\ IsValid(Decrypt(accounts[a].number))
        BY <2>2, NumbersAreValid
    <2> QED
        BY <2>3, SlipsAreInvalid
<1> QED
    BY <1>1, VaultInvariant, PTL

(* Whatever wrote a row, old release, backfill, admin page or shell: its   *)
(* digits match, its number is checkable, and it is numbered or sealed as  *)
(* if it had been made today; what staff retyped or emptied by hand is     *)
(* excepted account by account and column by column.                       *)
THEOREM RowsAreSoundHolds == Spec => []RowsAreSound
<1> QED
    BY MaskMatchesNumberHolds, SlipsAreCaughtHolds, CustomersAreNumberedHolds,
       SecretsAreSealedHolds, PTL DEF RowsAreSound

LEMMA NumbersAreForLife ==
    ASSUME VaultInv, [Next]_vars, NEW a \in Accounts, IsEncrypted(accounts[a].number),
           ~Renumbered(a)'
    PROVE  /\ IsEncrypted(accounts'[a].number)
           /\ Decrypt(accounts'[a].number) = Decrypt(accounts[a].number)
<1>1. /\ accounts \in [Accounts -> AccountRows] /\ Exists(a)
      /\ accounts[a].number \in Columns(IssuedNumbers)
    BY EmptyRows DEF VaultInv, TypeOK, AccountRows, Exists
<1>2. CASE AssignMissingNumbers
    BY <1>1, <1>2 DEF AssignMissingNumbers
<1>3. ASSUME NEW p \in Containers, NEW b \in Accounts, NEW kind \in Kinds, NEW body \in Bodies,
             OpenAccount(p, b, kind, body)
      PROVE  accounts'[a] = accounts[a]
    <2>1. b # a
        BY <1>1, <1>3 DEF OpenAccount
    <2> QED
        BY <1>1, <1>3, <2>1 DEF OpenAccount
<1>4. ASSUME NEW p \in Containers, NEW s \in Staff, SaveForm(p, s)
      PROVE  /\ IsEncrypted(accounts'[a].number)
             /\ Decrypt(accounts'[a].number) = Decrypt(accounts[a].number)
    <2> DEFINE b == form[s].of
    <2>1. b \in Accounts /\ edited \subseteq edited'
        BY <1>4, Posting
    <2>2. PICK row \in AccountRows :
              /\ accounts' = [accounts EXCEPT ![b] = row]
              /\ <<b, "number">> \notin edited' => row.number = form[s].row.number
        BY <1>4, Posting
    <2>3. CASE b = a
        <3>1. ~Renumbered(a) /\ <<b, "number">> \notin edited'
            BY <2>1, <2>3 DEF Renumbered
        <3>2. SameNumber(form[s].row, accounts[a]) /\ row.number = form[s].row.number
            BY <2>1, <2>2, <2>3, <3>1 DEF VaultInv, FormsOk, Shows
        <3>3. accounts'[a] = row
            BY <1>1, <2>2, <2>3
        <3> QED
            BY <3>2, <3>3 DEF SameNumber
    <2>4. CASE b # a
        BY <1>1, <2>2, <2>4
    <2> QED
        BY <2>3, <2>4
<1>5. ASSUME NEW p \in Containers, NEW b \in Accounts, RekeyAccount(p, b)
      PROVE  /\ IsEncrypted(accounts'[a].number)
             /\ Decrypt(accounts'[a].number) = Decrypt(accounts[a].number)
    <2> DEFINE number == Decrypt(accounts[b].number)
    <2>1. ring[p] \in Seq(Labels) /\ ring[p] # <<>> /\ accounts[b] \in AccountRows
        BY <1>5, Serving DEF RekeyAccount, VaultInv, TypeOK
    <2>2. number \in IssuedNumbers
        BY <1>5, <2>1, Encrypted DEF RekeyAccount, AccountRows
    <2>3. IsEncrypted(SetNumber(accounts[b], ring[p], number).number)
          /\ Decrypt(SetNumber(accounts[b], ring[p], number).number) = number
        <3> HIDE DEF number
        <3> QED
            BY <2>1, <2>2, SettingNumber
    <2> QED
        BY <1>1, <1>5, <2>3 DEF RekeyAccount
<1>6. CASE UNCHANGED accounts
    BY <1>6
<1> QED
    BY <1>2, <1>3, <1>4, <1>5, <1>6
       DEF Next, Operator, Release, Application, vars, PrependKey, DropKey, Deploy, StopHalfWay,
           EncryptMfaSecrets, EndMigrate, Roll, OpenForm, Enroll, Confirm, Disable, RekeyDevice

LEMMA SecretsAreForLife ==
    ASSUME VaultInv, [Next]_vars, NEW u \in Users,
           devices[u]["confirmed"] # NoDevice, devices'[u]["confirmed"] # NoDevice
    PROVE  SecretOf(devices'[u]["confirmed"]) = SecretOf(devices[u]["confirmed"])
<1>1. /\ devices \in [Users -> [DeviceStates -> DeviceRows]]
      /\ "confirmed" \in DeviceStates /\ "pending" \in DeviceStates
      /\ devices[u]["confirmed"] \in DeviceRows
      /\ devices[u]["pending"] = NoDevice
    BY DEF VaultInv, TypeOK, DevicesOk, DeviceStates
<1>2. CASE EncryptMfaSecrets
    <2>1. devices'[u]["confirmed"] = Sealed(devices[u]["confirmed"])
        BY <1>1, <1>2 DEF EncryptMfaSecrets
    <2>2. keyring \in Seq(Labels) /\ keyring # <<>>
        BY <1>2 DEF EncryptMfaSecrets, StepOf, VaultInv, TypeOK
    <2> QED
        BY <1>1, <2>1, <2>2, Sealing
<1>3. ASSUME NEW p \in Containers, NEW v \in Users, NEW secret \in Secrets, Enroll(p, v, secret)
      PROVE  devices'[u]["confirmed"] = devices[u]["confirmed"]
    BY <1>1, <1>3 DEF Enroll
<1>4. ASSUME NEW p \in Containers, NEW v \in Users, Confirm(p, v)
      PROVE  devices'[u]["confirmed"] = devices[u]["confirmed"]
    <2>1. v # u
        BY <1>1, <1>4 DEF Confirm
    <2> QED
        BY <1>1, <1>4, <2>1 DEF Confirm
<1>5. ASSUME NEW p \in Containers, NEW v \in Users, Disable(p, v)
      PROVE  devices'[u]["confirmed"] = devices[u]["confirmed"]
    <2>1. v # u
        BY <1>1, <1>5 DEF Disable
    <2> QED
        BY <1>1, <1>5, <2>1 DEF Disable
<1>6. ASSUME NEW p \in Containers, NEW v \in Users, NEW state \in DeviceStates,
             RekeyDevice(p, v, state)
      PROVE  SecretOf(devices'[u]["confirmed"]) = SecretOf(devices[u]["confirmed"])
    <2>1. CASE v = u /\ state = "confirmed"
        <3> DEFINE old == devices[u]["confirmed"]
                   column == Encrypt(ring[p], Decrypt(old.secret))
        <3>1. /\ Running(p) /\ IsEncrypted(old.secret)
              /\ devices' = [devices EXCEPT ![u]["confirmed"].secret = column]
            BY <1>6, <2>1 DEF RekeyDevice
        <3>2. Decrypt(old.secret) \in Secrets
            BY <1>1, <3>1, Encrypted DEF DeviceRows
        <3>3. IsEncrypted(column) /\ Decrypt(column) = Decrypt(old.secret)
            BY <3>1, <3>2, Serving, Encrypting
        <3> HIDE DEF column
        <3>4. devices'[u]["confirmed"].secret = column
            BY <1>1, <3>1 DEF DeviceRows
        <3> QED
            BY <3>1, <3>3, <3>4 DEF SecretOf
    <2>2. CASE ~(v = u /\ state = "confirmed")
        <3>1. devices'[u]["confirmed"] = devices[u]["confirmed"]
            BY <1>1, <1>6, <2>2 DEF RekeyDevice
        <3> QED
            BY <3>1
    <2> QED
        BY <2>1, <2>2
<1>7. CASE UNCHANGED devices
    BY <1>7
<1> QED
    BY <1>2, <1>3, <1>4, <1>5, <1>6, <1>7
       DEF Next, Operator, Release, Application, vars, PrependKey, DropKey, Deploy, StopHalfWay,
           AssignMissingNumbers, EndMigrate, Roll, OpenAccount, OpenForm, SaveForm, RekeyAccount

(* No backfill, re-keying or stale admin page changes the number of an     *)
(* account, unless staff empty it, or the secret of a confirmed second     *)
(* factor.                                                                 *)
THEOREM ValuesAreForLifeHolds == Spec => ValuesAreForLife
<1>1. VaultInv /\ [Next]_vars =>
        [/\ \A a \in Accounts :
               IsEncrypted(accounts[a].number) /\ <<a, "number">> \notin edited' =>
                   IsEncrypted(accounts'[a].number)
                     /\ Decrypt(accounts'[a].number) = Decrypt(accounts[a].number)
         /\ \A u \in Users :
               devices[u]["confirmed"] # NoDevice /\ devices'[u]["confirmed"] # NoDevice =>
                   SecretOf(devices'[u]["confirmed"]) = SecretOf(devices[u]["confirmed"])]_vars
    BY NumbersAreForLife, SecretsAreForLife DEF Renumbered
<1> QED
    BY <1>1, VaultInvariant, PTL DEF Spec, ValuesAreForLife
-----------------------------------------------------------------------------
(* Registration. A request that has drawn a key has one row in the user    *)
(* table, and the rows of the other tables follow from how far it is.      *)

Begun == {"insert", "accounts", "deposit", "audit", "commit", "failed", "done"}
Passed == {"draw", "insert", "accounts", "deposit", "audit", "commit", "done"}

OwnRow(r) ==
    /\ key[r] \in DOMAIN users
    /\ users[key[r]].by = r
    /\ users[key[r]].username = asked[r].username
    /\ users[key[r]].email = asked[r].email
    /\ pc[r] = "insert" => users[key[r]].status = "drawn"
    /\ pc[r] \in {"accounts", "deposit", "audit", "commit"} => users[key[r]].status = "open"
    /\ pc[r] = "failed" => users[key[r]].status = "gone"
    /\ pc[r] = "done" => users[key[r]].status = "committed"

OwnLedger(r) ==
    LET k == key[r]
        d == asked[r].deposit
    IN
    /\ OwnedBy(opened, k) =
           CASE pc[r] = "deposit" -> Named(k, Starters)
             [] pc[r] \in {"audit", "commit", "done"} -> Named(k, AccountNames(d))
             [] OTHER -> {}
    /\ OwnedBy(lines, k) = IF pc[r] \in {"audit", "commit", "done"} THEN DepositLines(k, d) ELSE {}
    /\ OwnedBy(trail, k) = IF pc[r] \in {"commit", "done"} THEN {OpenedRow(k, d)} ELSE {}

RequestOk(r) ==
    /\ pc[r] # "idle" => asked[r] \in Forms
    /\ pc[r] \in Begun => OwnRow(r) /\ OwnLedger(r)
    /\ \A k \in known[r] : users[k].status = "committed"
    /\ pc[r] \in Passed =>
           \A k \in known[r] : ~SameIgnoringCase(users[k].email, asked[r].email)

RegistrationInv ==
    /\ OnboardingTypeOK
    /\ \A k \in DOMAIN users : pc[users[k].by] \in Begun /\ key[users[k].by] = k
    /\ \A r \in Requests : RequestOk(r)
    /\ UsernamesDiffer

LEMMA OwnedRemoved ==
    ASSUME NEW X, NEW k
    PROVE  /\ OwnedBy(X \ OwnedBy(X, k), k) = {}
           /\ \A j : j # k => OwnedBy(X \ OwnedBy(X, k), j) = OwnedBy(X, j)
BY DEF OwnedBy

LEMMA OwnedAdded ==
    ASSUME NEW X, NEW New, NEW k, \A row \in New : row.owner = k
    PROVE  /\ OwnedBy(X \cup New, k) = OwnedBy(X, k) \cup New
           /\ \A j : j # k => OwnedBy(X \cup New, j) = OwnedBy(X, j)
           /\ \A row \in X \cup New : row \in X \/ row.owner = k
BY DEF OwnedBy

LEMMA Owners ==
    ASSUME NEW k, NEW names, NEW d
    PROVE  /\ \A row \in Named(k, names) : row.owner = k
           /\ \A row \in DepositLines(k, d) : row.owner = k
           /\ OpenedRow(k, d).owner = k
<1> DEFINE out == [owner |-> k, account |-> "Opening balances", amount |-> -d]
           in == [owner |-> k, account |-> "Checking", amount |-> d]
<1>1. \A row \in DepositLines(k, d) : row.owner = k
    <2>1. DepositLines(k, d) = {} \/ DepositLines(k, d) = {out, in}
        BY DEF DepositLines
    <2>2. out.owner = k /\ in.owner = k
        OBVIOUS
    <2> HIDE DEF out, in
    <2> QED
        BY <2>1, <2>2
<1>2. \A row \in Named(k, names) : row.owner = k
    BY DEF Named
<1>3. OpenedRow(k, d).owner = k
    BY DEF OpenedRow
<1> QED
    BY <1>1, <1>2, <1>3

LEMMA MoreNames ==
    ASSUME NEW k, NEW d
    PROVE  Named(k, Starters) \cup Named(k, AccountNames(d)) = Named(k, AccountNames(d))
<1>1. Starters \subseteq AccountNames(d)
    BY DEF AccountNames
<1> QED
    BY <1>1 DEF Named

WithStatus(k, status) == [users EXCEPT ![k].status = status]

LEMMA StatusWritten ==
    ASSUME users \in Seq(UserRows), NEW k \in DOMAIN users,
           NEW s \in {"drawn", "open", "committed", "gone"}
    PROVE  LET other == WithStatus(k, s) IN
           /\ other \in Seq(UserRows) /\ DOMAIN other = DOMAIN users
           /\ \A j \in DOMAIN users : j # k => other[j] = users[j]
           /\ other[k].by = users[k].by /\ other[k].username = users[k].username
           /\ other[k].email = users[k].email /\ other[k].status = s
<1>1. users[k] \in UserRows
    OBVIOUS
<1> DEFINE row == [users[k] EXCEPT !.status = s]
<1>2. /\ row \in UserRows /\ row.by = users[k].by /\ row.username = users[k].username
      /\ row.email = users[k].email /\ row.status = s
    BY <1>1 DEF UserRows
<1>3. WithStatus(k, s) = [users EXCEPT ![k] = row]
    BY DEF WithStatus
<1> HIDE DEF row
<1>4. /\ [users EXCEPT ![k] = row] \in Seq(UserRows)
      /\ DOMAIN [users EXCEPT ![k] = row] = DOMAIN users
      /\ [users EXCEPT ![k] = row][k] = row
      /\ \A j \in DOMAIN users : j # k => [users EXCEPT ![k] = row][j] = users[j]
    BY <1>2
<1> QED
    BY <1>2, <1>3, <1>4

LEMMA RegistrationInit == OnboardingInit => RegistrationInv
<1> SUFFICES ASSUME OnboardingInit PROVE RegistrationInv
    OBVIOUS
<1> USE DEF OnboardingInit
<1>1. users \in Seq(UserRows) /\ DOMAIN users = {}
    OBVIOUS
<1>2. OnboardingTypeOK
    BY <1>1 DEF OnboardingTypeOK
<1>3. \A r \in Requests : RequestOk(r)
    BY DEF RequestOk, Begun, Passed
<1>4. UsernamesDiffer
    BY <1>1 DEF UsernamesDiffer, In, Committed
<1> QED
    BY <1>1, <1>2, <1>3, <1>4 DEF RegistrationInv

LEMMA OtherRequests ==
    ASSUME NEW q \in Requests, RequestOk(q), known[q] \subseteq DOMAIN users,
           pc'[q] = pc[q], asked'[q] = asked[q], key'[q] = key[q], known'[q] = known[q],
           pc[q] \in Begun =>
               /\ key[q] \in DOMAIN users' /\ users'[key[q]] = users[key[q]]
               /\ OwnedBy(opened', key[q]) = OwnedBy(opened, key[q])
               /\ OwnedBy(lines', key[q]) = OwnedBy(lines, key[q])
               /\ OwnedBy(trail', key[q]) = OwnedBy(trail, key[q]),
           \A k \in known[q] : users'[k].status = users[k].status /\ users'[k].email = users[k].email
    PROVE  RequestOk(q)'
<1>1. pc[q] \in Begun => OwnRow(q)'
    BY DEF RequestOk, OwnRow
<1>2. pc[q] \in Begun => OwnLedger(q)'
    BY DEF RequestOk, OwnLedger
<1> QED
    BY <1>1, <1>2 DEF RequestOk
LEMMA OneAtATime ==
    ASSUME RegistrationInv, NEW r \in Requests,
           \A q \in Requests : q # r =>
               /\ pc'[q] = pc[q] /\ asked'[q] = asked[q]
               /\ key'[q] = key[q] /\ known'[q] = known[q],
           DOMAIN users \subseteq DOMAIN users',
           \A k \in DOMAIN users :
               users[k].by # r \/ users[k].status = "committed" => users'[k] = users[k],
           \A k \in DOMAIN users : users[k].by # r =>
               /\ OwnedBy(opened', k) = OwnedBy(opened, k)
               /\ OwnedBy(lines', k) = OwnedBy(lines, k)
               /\ OwnedBy(trail', k) = OwnedBy(trail, k)
    PROVE  \A q \in Requests : q # r => RequestOk(q)'
<1> SUFFICES ASSUME NEW q \in Requests, q # r PROVE RequestOk(q)'
    OBVIOUS
<1>1. RequestOk(q) /\ known[q] \subseteq DOMAIN users
    BY DEF RegistrationInv, OnboardingTypeOK
<1>2. pc[q] \in Begun => key[q] \in DOMAIN users /\ users[key[q]].by = q
    BY <1>1 DEF RequestOk, OwnRow
<1>3. \A k \in known[q] : users'[k] = users[k]
    BY <1>1 DEF RequestOk
<1> QED
    BY <1>1, <1>2, <1>3, OtherRequests

Phases == {"idle", "username", "email", "draw"} \cup InTransaction \cup Ended

LEMMA Steps ==
    ASSUME RegistrationInv, NEW r \in Requests, NEW step \in Phases,
           pc' = [pc EXCEPT ![r] = step]
    PROVE  /\ pc'[r] = step /\ \A q \in Requests : q # r => pc'[q] = pc[q]
           /\ pc' \in [Requests -> Phases]
<1>1. pc \in [Requests -> Phases]
    BY DEF RegistrationInv, OnboardingTypeOK, Phases
<1> QED
    BY <1>1

LEMMA Typing ==
    ASSUME pc' \in [Requests -> Phases], asked' \in [Requests -> Forms \cup {NoForm}],
           known' \in [Requests -> SUBSET DOMAIN users'],
           key' \in [Requests -> {0} \cup DOMAIN users'], users' \in Seq(UserRows),
           \A row \in opened' \cup lines' \cup trail' : row.owner \in DOMAIN users'
    PROVE  OnboardingTypeOK'
BY DEF OnboardingTypeOK, Phases

LEMMA Typed ==
    ASSUME RegistrationInv
    PROVE  /\ asked \in [Requests -> Forms \cup {NoForm}]
           /\ known \in [Requests -> SUBSET DOMAIN users]
           /\ key \in [Requests -> {0} \cup DOMAIN users] /\ users \in Seq(UserRows)
           /\ \A row \in opened \cup lines \cup trail : row.owner \in DOMAIN users
           /\ \A k \in DOMAIN users : users[k].by \in Requests
<1>1. users \in Seq(UserRows) /\ \A k \in DOMAIN users : users[k] \in UserRows
    BY DEF RegistrationInv, OnboardingTypeOK
<1>2. \A k \in DOMAIN users : users[k].by \in Requests
    BY <1>1 DEF UserRows
<1> QED
    BY <1>1, <1>2 DEF RegistrationInv, OnboardingTypeOK

LEMMA Own ==
    ASSUME RegistrationInv, NEW r \in Requests
    PROVE  /\ pc[r] \in Begun => OwnRow(r) /\ OwnLedger(r)
           /\ pc[r] # "idle" => asked[r] \in Forms
           /\ \A k \in DOMAIN users : users[k].by = r => pc[r] \in Begun /\ k = key[r]
           /\ \A k \in known[r] : k \in DOMAIN users /\ users[k].status = "committed"
           /\ pc[r] \in Passed =>
                  \A k \in known[r] : ~SameIgnoringCase(users[k].email, asked[r].email)
BY DEF RegistrationInv, RequestOk, OnboardingTypeOK

(* Until it has drawn a key a request writes nothing.                      *)
LEMMA BeforeTheKey ==
    ASSUME RegistrationInv, NEW r \in Requests,
           (\E f \in Forms : Receive(r, f)) \/ CheckUsername(r) \/ CheckEmail(r)
    PROVE  RegistrationInv'
<1>1. /\ pc[r] \notin Begun /\ UNCHANGED <<key, users, opened, lines, trail>>
      /\ \E step \in {"username", "refused", "email", "draw"} : pc' = [pc EXCEPT ![r] = step]
    BY DEF Receive, CheckUsername, CheckEmail, Go, At, Begun, rows
<1>2. PICK step \in {"username", "refused", "email", "draw"} : pc' = [pc EXCEPT ![r] = step]
    BY <1>1
<1>3. /\ pc'[r] = step /\ (\A q \in Requests : q # r => pc'[q] = pc[q]) /\ step \notin Begun
      /\ pc' \in [Requests -> Phases]
    BY <1>2, Steps DEF Begun, Phases, Ended
<1>4. /\ asked' \in [Requests -> Forms \cup {NoForm}]
      /\ known' \in [Requests -> SUBSET DOMAIN users]
      /\ \A q \in Requests : q # r => asked'[q] = asked[q] /\ known'[q] = known[q]
      /\ asked'[r] \in Forms
    <2>1. /\ asked \in [Requests -> Forms \cup {NoForm}]
          /\ known \in [Requests -> SUBSET DOMAIN users]
          /\ Committed \in SUBSET DOMAIN users
        BY DEF RegistrationInv, OnboardingTypeOK, Committed, In
    <2>2. pc[r] # "idle" => asked[r] \in Forms
        BY Own
    <2>3. CASE \E f \in Forms : Receive(r, f)
        BY <2>1, <2>3 DEF Receive
    <2>4. CASE CheckUsername(r)
        BY <2>1, <2>2, <2>4 DEF CheckUsername, At
    <2>5. CASE CheckEmail(r)
        BY <2>1, <2>2, <2>5 DEF CheckEmail, At
    <2> QED
        BY <2>3, <2>4, <2>5
<1>5. /\ \A k \in known'[r] : users[k].status = "committed"
      /\ step = "draw" => \A k \in known'[r] : ~SameIgnoringCase(users[k].email, asked'[r].email)
    <2>1. \A k \in known[r] : users[k].status = "committed"
        BY Own
    <2>2. CASE (\E f \in Forms : Receive(r, f)) \/ CheckUsername(r)
        <3>1. step # "draw" /\ known' = known
            BY <1>3, <2>2 DEF Receive, CheckUsername, Go, RegistrationInv, OnboardingTypeOK
        <3> QED
            BY <2>1, <3>1
    <2>3. CASE CheckEmail(r)
        <3>1. known'[r] = Committed /\ asked' = asked
            BY <2>3 DEF CheckEmail, RegistrationInv, OnboardingTypeOK
        <3>2. step = "draw" => \A k \in Committed : ~SameIgnoringCase(users[k].email, asked[r].email)
            BY <1>3, <2>3 DEF CheckEmail, Go, RegistrationInv, OnboardingTypeOK
        <3> QED
            BY <3>1, <3>2 DEF Committed, In
    <2> QED
        BY <2>2, <2>3
<1>6. OnboardingTypeOK'
    BY <1>1, <1>3, <1>4, Typed, Typing
<1>7. \A k \in DOMAIN users' : pc'[users'[k].by] \in Begun /\ key'[users'[k].by] = k
    BY <1>1, <1>3, Typed DEF RegistrationInv
<1>8. RequestOk(r)'
    BY <1>3, <1>4, <1>5, <1>1 DEF RequestOk, Passed
<1>9. \A q \in Requests : q # r => RequestOk(q)'
    BY <1>1, <1>3, <1>4, OneAtATime
<1>10. UsernamesDiffer'
    BY <1>1 DEF RegistrationInv, UsernamesDiffer, In, Committed
<1> QED
    BY <1>6, <1>7, <1>8, <1>9, <1>10 DEF RegistrationInv

LEMMA DrawingAKey == ASSUME RegistrationInv, NEW r \in Requests, DrawKey(r) PROVE RegistrationInv'
<1> DEFINE k == Len(users) + 1
           row == [username |-> asked[r].username, email |-> asked[r].email,
                   by |-> r, status |-> "drawn"]
<1>1. /\ pc[r] = "draw" /\ pc' = [pc EXCEPT ![r] = "insert"] /\ users' = Append(users, row)
      /\ key' = [key EXCEPT ![r] = k] /\ UNCHANGED <<asked, known, opened, lines, trail>>
    BY DEF DrawKey, At, Go, rows
<1>2. /\ pc'[r] = "insert" /\ (\A q \in Requests : q # r => pc'[q] = pc[q])
      /\ pc' \in [Requests -> Phases]
    BY <1>1, Steps DEF Phases, InTransaction
<1>3. /\ asked[r] \in Forms
      /\ \A j \in DOMAIN users : users[j].by # r
      /\ \A j \in known[r] : j \in DOMAIN users /\ users[j].status = "committed"
                              /\ ~SameIgnoringCase(users[j].email, asked[r].email)
    BY <1>1, Own DEF Begun, Passed
<1>4. row \in UserRows /\ row.by = r /\ row.username = asked[r].username
      /\ row.email = asked[r].email /\ row.status = "drawn"
    BY <1>3, OnboardingAssumption DEF UserRows
<1>5. users \in Seq(UserRows) /\ key \in [Requests -> {0} \cup DOMAIN users]
    BY Typed
<1> HIDE DEF row
<1>6. /\ users' \in Seq(UserRows) /\ DOMAIN users' = DOMAIN users \cup {k} /\ k \notin DOMAIN users
      /\ users'[k] = row /\ \A j \in DOMAIN users : users'[j] = users[j]
    BY <1>1, <1>4, <1>5
<1>7. key' \in [Requests -> {0} \cup DOMAIN users'] /\ key'[r] = k
      /\ \A q \in Requests : q # r => key'[q] = key[q]
    BY <1>1, <1>5, <1>6
<1> HIDE DEF k
<1>8. OnboardingTypeOK'
    <2>1. /\ known' \in [Requests -> SUBSET DOMAIN users']
          /\ \A any \in opened' \cup lines' \cup trail' : any.owner \in DOMAIN users'
        BY <1>1, <1>6, Typed
    <2> QED
        BY <1>1, <1>2, <1>6, <1>7, <2>1, Typed, Typing
<1>9. \A j \in DOMAIN users' : pc'[users'[j].by] \in Begun /\ key'[users'[j].by] = j
    <2>1. \A j \in DOMAIN users : pc[users[j].by] \in Begun /\ key[users[j].by] = j
        BY DEF RegistrationInv
    <2>2. ASSUME NEW j \in DOMAIN users PROVE pc'[users'[j].by] \in Begun /\ key'[users'[j].by] = j
        <3>1. users'[j] = users[j] /\ users[j].by \in Requests /\ users[j].by # r
            BY <1>3, <1>6, Typed
        <3> QED
            BY <1>2, <1>7, <2>1, <3>1
    <2>3. pc'[users'[k].by] \in Begun /\ key'[users'[k].by] = k
        BY <1>2, <1>4, <1>6, <1>7 DEF Begun
    <2> QED
        BY <1>6, <2>2, <2>3
<1>10. OwnRow(r)'
    BY <1>1, <1>2, <1>4, <1>6, <1>7 DEF OwnRow
<1>11. OwnedBy(opened, k) = {} /\ OwnedBy(lines, k) = {} /\ OwnedBy(trail, k) = {}
    BY <1>6 DEF RegistrationInv, OnboardingTypeOK, OwnedBy
<1>12. OwnLedger(r)'
    BY <1>1, <1>2, <1>7, <1>11 DEF OwnLedger
<1>13. RequestOk(r)'
    BY <1>1, <1>2, <1>3, <1>6, <1>10, <1>12 DEF RequestOk
<1>14. \A q \in Requests : q # r => RequestOk(q)'
    BY <1>1, <1>2, <1>6, <1>7, OneAtATime
<1>15. UsernamesDiffer'
    BY <1>4, <1>6 DEF RegistrationInv, UsernamesDiffer, In, Committed
<1> QED
    BY <1>8, <1>9, <1>13, <1>14, <1>15 DEF RegistrationInv
(* From then on its row changes status.                                    *)
LEMMA StatusChanged ==
    ASSUME RegistrationInv, NEW r \in Requests, pc[r] \in InTransaction,
           NEW s \in {"open", "committed", "gone"}, NEW step \in Begun,
           users' = WithStatus(key[r], s),
           pc' = [pc EXCEPT ![r] = step], UNCHANGED <<asked, known, key>>,
           opened' \subseteq opened, lines' \subseteq lines, trail' \subseteq trail,
           \A k \in DOMAIN users : k # key[r] =>
               /\ OwnedBy(opened', k) = OwnedBy(opened, k)
               /\ OwnedBy(lines', k) = OwnedBy(lines, k)
               /\ OwnedBy(trail', k) = OwnedBy(trail, k),
           step = "accounts" <=> s = "open", step = "done" <=> s = "committed",
           step = "failed" <=> s = "gone",
           OwnLedger(r)', UsernamesDiffer'
    PROVE  RegistrationInv'
<1>1. /\ key[r] \in DOMAIN users /\ users[key[r]].by = r
      /\ users[key[r]].username = asked[r].username /\ users[key[r]].email = asked[r].email
      /\ asked[r] \in Forms
      /\ users[key[r]].status # "committed"
    BY Own DEF OwnRow, Begun, InTransaction
<1>2. /\ users' \in Seq(UserRows) /\ DOMAIN users' = DOMAIN users
      /\ \A j \in DOMAIN users : j # key[r] => users'[j] = users[j]
      /\ users'[key[r]].by = r /\ users'[key[r]].username = asked[r].username
      /\ users'[key[r]].email = asked[r].email /\ users'[key[r]].status = s
    BY <1>1, Typed, StatusWritten
<1>3. /\ pc'[r] = step /\ (\A q \in Requests : q # r => pc'[q] = pc[q])
      /\ pc' \in [Requests -> Phases] /\ step \in {"accounts", "done", "failed"}
    <2>1. step \in Phases
        BY DEF Begun, Phases, InTransaction, Ended
    <2> QED
        BY <2>1, Steps
<1>4. OnboardingTypeOK'
    <2>1. \A any \in opened' \cup lines' \cup trail' : any.owner \in DOMAIN users'
        BY <1>2, Typed
    <2> QED
        BY <1>2, <1>3, <2>1, Typed, Typing
<1>5. ASSUME NEW j \in DOMAIN users' PROVE pc'[users'[j].by] \in Begun /\ key'[users'[j].by] = j
    <2>1. CASE j = key[r]
        BY <1>2, <1>3, <2>1
    <2>2. CASE j # key[r]
        <3>1. users'[j] = users[j] /\ users[j].by \in Requests /\ users[j].by # r
            BY <1>2, <2>2, Typed, Own
        <3>2. pc[users[j].by] \in Begun /\ key[users[j].by] = j
            BY <1>2 DEF RegistrationInv
        <3> QED
            BY <1>3, <3>1, <3>2
    <2> QED
        BY <2>1, <2>2
<1>6. OwnRow(r)'
    BY <1>1, <1>2, <1>3 DEF OwnRow
<1>7. RequestOk(r)'
    <2>1. \A k \in known[r] : k \in DOMAIN users /\ users[k].status = "committed" /\ k # key[r]
        BY <1>1, Own
    <2>2. \A k \in known[r] : ~SameIgnoringCase(users[k].email, asked[r].email)
        BY Own DEF Passed, InTransaction
    <2> QED
        BY <1>1, <1>2, <1>3, <1>6, <2>1, <2>2 DEF RequestOk
<1>8. \A q \in Requests : q # r => RequestOk(q)'
    <2>1. \A k \in DOMAIN users :
              users[k].by # r \/ users[k].status = "committed" => k # key[r]
        BY <1>1
    <2> QED
        BY <1>2, <1>3, <2>1, OneAtATime
<1> QED
    BY <1>4, <1>5, <1>7, <1>8 DEF RegistrationInv
LEMMA InsertingTheUser == ASSUME RegistrationInv, NEW r \in Requests, InsertUser(r) PROVE RegistrationInv'
<1> DEFINE k == key[r]
           name == asked[r].username
<1>1. /\ pc[r] = "insert" /\ ~Holds("open", name)
      /\ UNCHANGED <<asked, known, key, opened, lines, trail>>
      /\ \/ /\ Holds("committed", name)
            /\ pc' = [pc EXCEPT ![r] = "failed"] /\ users' = WithStatus(k, "gone")
         \/ /\ ~Holds("committed", name)
            /\ pc' = [pc EXCEPT ![r] = "accounts"] /\ users' = WithStatus(k, "open")
    BY DEF InsertUser, At, Go, rows, WithStatus
<1>2. OwnRow(r) /\ OwnLedger(r)
    BY <1>1, Own DEF Begun
<1>3. k \in DOMAIN users /\ users \in Seq(UserRows)
    BY <1>2, Typed DEF OwnRow
<1>4. ASSUME NEW s \in {"gone", "open"}, users' = WithStatus(k, s)
      PROVE  /\ DOMAIN users' = DOMAIN users /\ users'[k].status = s /\ users'[k].username = name
             /\ \A j \in DOMAIN users : j # k => users'[j] = users[j]
    BY <1>2, <1>3, <1>4, StatusWritten DEF OwnRow
<1>5. CASE /\ pc' = [pc EXCEPT ![r] = "failed"] /\ users' = WithStatus(k, "gone")
    <2>1. pc'[r] = "failed"
        BY <1>5, Steps DEF Phases, Ended
    <2>2. OwnLedger(r)'
        BY <1>1, <1>2, <2>1 DEF OwnLedger
    <2>3. UsernamesDiffer'
        BY <1>4, <1>5 DEF RegistrationInv, UsernamesDiffer, In, Committed
    <2> QED
        BY <1>1, <1>5, <2>2, <2>3, StatusChanged DEF Begun, InTransaction
<1>6. CASE /\ ~Holds("committed", name)
           /\ pc' = [pc EXCEPT ![r] = "accounts"] /\ users' = WithStatus(k, "open")
    <2>1. pc'[r] = "accounts"
        BY <1>6, Steps DEF Phases, InTransaction
    <2>2. OwnLedger(r)'
        BY <1>1, <1>2, <2>1 DEF OwnLedger
    <2>3. UsernamesDiffer'
        <3>1. \A j \in In("open") \cup Committed : users[j].username # name
            BY <1>1, <1>6 DEF Holds, Committed
        <3>2. \A j \in (In("open") \cup Committed)' : j = k \/ j \in In("open") \cup Committed
            BY <1>4, <1>6 DEF In, Committed
        <3>3. \A j \in In("open") \cup Committed :
                  j # k => j \in DOMAIN users /\ users'[j] = users[j]
            BY <1>4, <1>6 DEF In, Committed
        <3>4. users'[k].username = name
            BY <1>4, <1>6
        <3> SUFFICES ASSUME NEW i \in (In("open") \cup Committed)', NEW j \in (In("open") \cup Committed)',
                            users'[i].username = users'[j].username
                     PROVE  i = j
            BY DEF UsernamesDiffer
        <3>5. CASE i = k \/ j = k
            BY <3>1, <3>2, <3>3, <3>4, <3>5
        <3>6. CASE i # k /\ j # k
            BY <3>2, <3>3, <3>6 DEF RegistrationInv, UsernamesDiffer
        <3> QED
            BY <3>5, <3>6
    <2> QED
        BY <1>1, <1>6, <2>2, <2>3, StatusChanged DEF Begun, InTransaction
<1> QED
    BY <1>1, <1>5, <1>6

LEMMA Committing == ASSUME RegistrationInv, NEW r \in Requests, Commit(r) PROVE RegistrationInv'
<1>1. /\ pc[r] = "commit" /\ pc' = [pc EXCEPT ![r] = "done"]
      /\ users' = WithStatus(key[r], "committed")
      /\ UNCHANGED <<asked, known, key, opened, lines, trail>>
    BY DEF Commit, At, Go, rows, WithStatus
<1>2. OwnRow(r) /\ OwnLedger(r)
    BY <1>1, Own DEF Begun
<1>3. pc'[r] = "done"
    BY <1>1, Steps DEF Phases, Ended
<1>4. OwnLedger(r)'
    BY <1>1, <1>2, <1>3 DEF OwnLedger
<1>5. /\ DOMAIN users' = DOMAIN users /\ users'[key[r]].username = users[key[r]].username
      /\ \A j \in DOMAIN users : j # key[r] => users'[j] = users[j]
      /\ users[key[r]].status = "open" /\ key[r] \in DOMAIN users
    BY <1>1, <1>2, Typed, StatusWritten DEF OwnRow
<1>6. UsernamesDiffer'
    <2>1. \A j \in (In("open") \cup Committed)' :
              j \in In("open") \cup Committed /\ users'[j].username = users[j].username
        BY <1>5 DEF In, Committed
    <2> QED
        BY <2>1 DEF RegistrationInv, UsernamesDiffer
<1> QED
    BY <1>1, <1>4, <1>6, StatusChanged DEF Begun, InTransaction

LEMMA RollingBack == ASSUME RegistrationInv, NEW r \in Requests, RollBack(r) PROVE RegistrationInv'
<1> DEFINE k == key[r]
<1>1. /\ pc[r] \in InTransaction /\ pc' = [pc EXCEPT ![r] = "failed"]
      /\ users' = WithStatus(k, "gone") /\ UNCHANGED <<asked, known, key>>
      /\ opened' = opened \ OwnedBy(opened, k)
      /\ lines' = lines \ OwnedBy(lines, k) /\ trail' = trail \ OwnedBy(trail, k)
    BY DEF RollBack, Go, WithStatus
<1>2. OwnRow(r)
    BY <1>1, Own DEF Begun, InTransaction
<1>3. pc'[r] = "failed"
    BY <1>1, Steps DEF Phases, Ended
<1>4. /\ OwnedBy(opened', k) = {} /\ OwnedBy(lines', k) = {} /\ OwnedBy(trail', k) = {}
      /\ \A j : j # k => /\ OwnedBy(opened', j) = OwnedBy(opened, j)
                        /\ OwnedBy(lines', j) = OwnedBy(lines, j)
                        /\ OwnedBy(trail', j) = OwnedBy(trail, j)
      /\ opened' \subseteq opened /\ lines' \subseteq lines /\ trail' \subseteq trail
    <2> HIDE DEF k
    <2> QED
        BY <1>1, OwnedRemoved
<1>5. OwnLedger(r)'
    BY <1>1, <1>3, <1>4 DEF OwnLedger
<1>6. /\ DOMAIN users' = DOMAIN users /\ users'[k].status = "gone"
      /\ \A j \in DOMAIN users : j # k => users'[j] = users[j]
    BY <1>1, <1>2, Typed, StatusWritten DEF OwnRow
<1>7. UsernamesDiffer'
    <2>1. \A j \in (In("open") \cup Committed)' :
              j \in In("open") \cup Committed /\ users'[j].username = users[j].username
        BY <1>6 DEF In, Committed
    <2> QED
        BY <2>1 DEF RegistrationInv, UsernamesDiffer
<1>8. "failed" \in Begun /\ "gone" \in {"open", "committed", "gone"}
    BY DEF Begun
<1>9. \A j \in DOMAIN users : j # key[r] =>
          /\ OwnedBy(opened', j) = OwnedBy(opened, j)
          /\ OwnedBy(lines', j) = OwnedBy(lines, j)
          /\ OwnedBy(trail', j) = OwnedBy(trail, j)
    BY <1>4
<1>10. opened' \subseteq opened /\ lines' \subseteq lines /\ trail' \subseteq trail
    BY <1>4
<1> QED
    BY ONLY RegistrationInv, r \in Requests, <1>1, <1>5, <1>7, <1>8, <1>9, <1>10, StatusChanged
(* And it writes the rows of its accounts, its deposit and its audit row.  *)
LEMMA RowsWritten ==
    ASSUME RegistrationInv, NEW r \in Requests, pc[r] \in {"accounts", "deposit", "audit"},
           NEW step \in {"deposit", "audit", "commit"}, pc' = [pc EXCEPT ![r] = step],
           \A row \in opened' : row \in opened \/ row.owner = key[r],
           \A row \in lines' : row \in lines \/ row.owner = key[r],
           \A row \in trail' : row \in trail \/ row.owner = key[r],
           \A j : j # key[r] => /\ OwnedBy(opened', j) = OwnedBy(opened, j)
                               /\ OwnedBy(lines', j) = OwnedBy(lines, j)
                               /\ OwnedBy(trail', j) = OwnedBy(trail, j),
           UNCHANGED <<asked, known, key, users>>,
           OwnLedger(r)'
    PROVE  RegistrationInv'
<1>1. OwnRow(r) /\ users[key[r]].status = "open"
    BY Own DEF OwnRow, Begun
<1>2. /\ pc'[r] = step /\ (\A q \in Requests : q # r => pc'[q] = pc[q])
      /\ pc' \in [Requests -> Phases]
    BY Steps DEF Phases, InTransaction
<1>3. OnboardingTypeOK'
    <2>1. \A any \in opened' \cup lines' \cup trail' : any.owner \in DOMAIN users'
        BY <1>1, Typed DEF OwnRow
    <2> QED
        BY <1>2, <2>1, Typed, Typing
<1>4. \A j \in DOMAIN users' : pc'[users'[j].by] \in Begun /\ key'[users'[j].by] = j
    BY <1>2, Typed DEF RegistrationInv, Begun
<1>5. OwnRow(r)'
    BY <1>1, <1>2 DEF OwnRow
<1>6. RequestOk(r)'
    BY <1>2, <1>5, Own DEF RequestOk, Begun, Passed
<1>7. \A q \in Requests : q # r => RequestOk(q)'
    <2>1. \A k \in DOMAIN users : users[k].by # r => k # key[r]
        BY <1>1 DEF OwnRow
    <2> QED
        BY <1>2, <2>1, OneAtATime
<1>8. UsernamesDiffer'
    BY DEF RegistrationInv, UsernamesDiffer, In, Committed
<1> QED
    BY <1>3, <1>4, <1>6, <1>7, <1>8 DEF RegistrationInv

LEMMA OpeningStarterAccounts ==
    ASSUME RegistrationInv, NEW r \in Requests, OpenStarterAccounts(r)
    PROVE  RegistrationInv'
<1> DEFINE k == key[r]
           X == Named(k, Starters)
<1>1. /\ pc[r] = "accounts" /\ pc' = [pc EXCEPT ![r] = "deposit"]
      /\ opened' = opened \cup X /\ UNCHANGED <<asked, known, key, users, lines, trail>>
    BY DEF OpenStarterAccounts, At, Go
<1>2. OwnLedger(r) /\ pc'[r] = "deposit"
    BY <1>1, Own, Steps DEF Begun, Phases, InTransaction
<1>3. \A row \in X : row.owner = k
    BY Owners
<1>4. /\ OwnedBy(opened', k) = OwnedBy(opened, k) \cup X
      /\ \A j : j # k => OwnedBy(opened', j) = OwnedBy(opened, j)
      /\ \A row \in opened' : row \in opened \/ row.owner = k
    <2>1. opened' = opened \cup X
        BY <1>1
    <2> HIDE DEF X, k
    <2>2. /\ OwnedBy(opened \cup X, k) = OwnedBy(opened, k) \cup X
          /\ \A j : j # k => OwnedBy(opened \cup X, j) = OwnedBy(opened, j)
          /\ \A row \in opened \cup X : row \in opened \/ row.owner = k
        BY ONLY <1>3, OwnedAdded, Zenon
    <2> QED
        BY ONLY <2>1, <2>2
<1>5. OwnLedger(r)'
    BY <1>1, <1>2, <1>4 DEF OwnLedger
<1> QED
    BY <1>1, <1>4, <1>5, RowsWritten

LEMMA PostingTheDeposit ==
    ASSUME RegistrationInv, NEW r \in Requests, PostOpeningDeposit(r)
    PROVE  RegistrationInv'
<1> DEFINE k == key[r]
           d == asked[r].deposit
           X == Named(k, AccountNames(d))
           Y == DepositLines(k, d)
<1>1. /\ pc[r] = "deposit" /\ pc' = [pc EXCEPT ![r] = "audit"]
      /\ opened' = opened \cup X /\ lines' = lines \cup Y
      /\ UNCHANGED <<asked, known, key, users, trail>>
    BY DEF PostOpeningDeposit, At, Go
<1>2. OwnLedger(r) /\ pc'[r] = "audit"
    BY <1>1, Own, Steps DEF Begun, Phases, InTransaction
<1>3. (\A row \in X : row.owner = k) /\ (\A row \in Y : row.owner = k)
    BY Owners
<1>4. /\ OwnedBy(opened', k) = OwnedBy(opened, k) \cup X
      /\ \A j : j # k => OwnedBy(opened', j) = OwnedBy(opened, j)
      /\ \A row \in opened' : row \in opened \/ row.owner = k
    <2>1. opened' = opened \cup X
        BY <1>1
    <2> HIDE DEF X, k
    <2>2. /\ OwnedBy(opened \cup X, k) = OwnedBy(opened, k) \cup X
          /\ \A j : j # k => OwnedBy(opened \cup X, j) = OwnedBy(opened, j)
          /\ \A row \in opened \cup X : row \in opened \/ row.owner = k
        BY ONLY <1>3, OwnedAdded, Zenon
    <2> QED
        BY ONLY <2>1, <2>2
<1>5. /\ OwnedBy(lines', k) = OwnedBy(lines, k) \cup Y
      /\ \A j : j # k => OwnedBy(lines', j) = OwnedBy(lines, j)
      /\ \A row \in lines' : row \in lines \/ row.owner = k
    <2>1. lines' = lines \cup Y
        BY <1>1
    <2> HIDE DEF Y, k
    <2>2. /\ OwnedBy(lines \cup Y, k) = OwnedBy(lines, k) \cup Y
          /\ \A j : j # k => OwnedBy(lines \cup Y, j) = OwnedBy(lines, j)
          /\ \A row \in lines \cup Y : row \in lines \/ row.owner = k
        BY ONLY <1>3, OwnedAdded, Zenon
    <2> QED
        BY ONLY <2>1, <2>2
<1>6. OwnedBy(opened', k) = X
    BY <1>1, <1>2, <1>4, MoreNames DEF OwnLedger
<1>7. OwnedBy(lines', k) = Y
    BY <1>1, <1>2, <1>5 DEF OwnLedger
<1>8. OwnLedger(r)'
    BY <1>1, <1>2, <1>6, <1>7 DEF OwnLedger
<1> QED
    BY <1>1, <1>4, <1>5, <1>8, RowsWritten

LEMMA RecordingTheOpening ==
    ASSUME RegistrationInv, NEW r \in Requests, RecordOpened(r)
    PROVE  RegistrationInv'
<1> DEFINE k == key[r]
           Z == {OpenedRow(k, asked[r].deposit)}
<1>1. /\ pc[r] = "audit" /\ pc' = [pc EXCEPT ![r] = "commit"]
      /\ trail' = trail \cup Z /\ UNCHANGED <<asked, known, key, users, opened, lines>>
    BY DEF RecordOpened, At, Go
<1>2. OwnLedger(r) /\ pc'[r] = "commit"
    BY <1>1, Own, Steps DEF Begun, Phases, InTransaction
<1>3. \A row \in Z : row.owner = k
    BY Owners
<1>4. /\ OwnedBy(trail', k) = OwnedBy(trail, k) \cup Z
      /\ \A j : j # k => OwnedBy(trail', j) = OwnedBy(trail, j)
      /\ \A row \in trail' : row \in trail \/ row.owner = k
    <2>1. trail' = trail \cup Z
        BY <1>1
    <2> HIDE DEF Z, k
    <2>2. /\ OwnedBy(trail \cup Z, k) = OwnedBy(trail, k) \cup Z
          /\ \A j : j # k => OwnedBy(trail \cup Z, j) = OwnedBy(trail, j)
          /\ \A row \in trail \cup Z : row \in trail \/ row.owner = k
        BY ONLY <1>3, OwnedAdded, Zenon
    <2> QED
        BY ONLY <2>1, <2>2
<1>5. OwnLedger(r)'
    BY <1>1, <1>2, <1>4 DEF OwnLedger
<1> QED
    BY <1>1, <1>4, <1>5, RowsWritten
LEMMA RegistrationStep == RegistrationInv /\ [OnboardingNext]_regVars => RegistrationInv'
<1> SUFFICES ASSUME RegistrationInv, [OnboardingNext]_regVars PROVE RegistrationInv'
    OBVIOUS
<1>1. ASSUME NEW r \in Requests, (\E f \in Forms : Receive(r, f)) \/ Handle(r) \/ RollBack(r)
      PROVE  RegistrationInv'
    <2>1. CASE (\E f \in Forms : Receive(r, f)) \/ CheckUsername(r) \/ CheckEmail(r)
        BY <2>1, BeforeTheKey
    <2>2. CASE DrawKey(r)
        BY <2>2, DrawingAKey
    <2>3. CASE InsertUser(r)
        BY <2>3, InsertingTheUser
    <2>4. CASE OpenStarterAccounts(r)
        BY <2>4, OpeningStarterAccounts
    <2>5. CASE PostOpeningDeposit(r)
        BY <2>5, PostingTheDeposit
    <2>6. CASE RecordOpened(r)
        BY <2>6, RecordingTheOpening
    <2>7. CASE Commit(r)
        BY <2>7, Committing
    <2>8. CASE RollBack(r)
        BY <2>8, RollingBack
    <2> QED
        BY <1>1, <2>1, <2>2, <2>3, <2>4, <2>5, <2>6, <2>7, <2>8 DEF Handle
<1>2. CASE UNCHANGED regVars
    <2>1. \A q \in Requests : RequestOk(q)'
        BY <1>2 DEF RegistrationInv, regVars, rows, RequestOk, OwnRow, OwnLedger
    <2> QED
        BY <1>2, <2>1 DEF RegistrationInv, regVars, rows, OnboardingTypeOK, UsernamesDiffer, In, Committed
<1> QED
    BY <1>1, <1>2 DEF OnboardingNext

(* The inductive invariant of registration.                                *)
THEOREM RegistrationInvariant == OnboardingSpec => []RegistrationInv
<1> QED
    BY RegistrationInit, RegistrationStep, PTL DEF OnboardingSpec

(* Type correctness of registration.                                       *)
THEOREM OnboardingTyped == OnboardingSpec => []OnboardingTypeOK
<1>1. RegistrationInv => OnboardingTypeOK
    BY DEF RegistrationInv
<1> QED
    BY <1>1, RegistrationInvariant, PTL

(* The user, the accounts, the balanced opening entry and the audit row    *)
(* exist together or not at all (identity/serializers.py,                  *)
(* ledger/onboarding.py), wherever a registration fails.                   *)
THEOREM CustomersAreCompleteHolds == OnboardingSpec => []CustomersAreComplete
<1>1. ASSUME RegistrationInv PROVE CustomersAreComplete
    <2> SUFFICES ASSUME NEW k \in DOMAIN users
                 PROVE  LET deposit == asked[users[k].by].deposit IN
                        /\ users[k].status = "committed" =>
                             /\ OwnedBy(opened, k) = Named(k, AccountNames(deposit))
                             /\ OwnedBy(lines, k) = DepositLines(k, deposit)
                             /\ OwnedBy(trail, k) = {OpenedRow(k, deposit)}
                        /\ users[k].status \in {"drawn", "gone"} =>
                             OwnedBy(opened, k) \cup OwnedBy(lines, k) \cup OwnedBy(trail, k) = {}
        BY DEF CustomersAreComplete
    <2> DEFINE r == users[k].by
    <2>1. r \in Requests /\ pc[r] \in Begun /\ key[r] = k
        BY <1>1, Typed DEF RegistrationInv
    <2>2. OwnRow(r) /\ OwnLedger(r)
        BY <1>1, <2>1, Own
    <2>3. users[k].status = "committed" => pc[r] = "done"
        BY <2>1, <2>2 DEF OwnRow, Begun
    <2>4. users[k].status \in {"drawn", "gone"} => pc[r] \in {"insert", "failed"}
        BY <2>1, <2>2 DEF OwnRow, Begun
    <2> HIDE DEF r
    <2>5. CASE pc[r] = "done"
        BY <2>1, <2>2, <2>4, <2>5 DEF OwnLedger, r
    <2>6. CASE pc[r] \in {"insert", "failed"}
        BY <2>1, <2>2, <2>3, <2>6 DEF OwnLedger, r
    <2> QED
        BY <2>3, <2>4, <2>5, <2>6
<1> QED
    BY <1>1, RegistrationInvariant, PTL

(* The unique index keeps usernames apart, however checks and inserts      *)
(* interleave.                                                             *)
THEOREM UsernamesDifferHolds == OnboardingSpec => []UsernamesDiffer
<1>1. RegistrationInv => UsernamesDiffer
    BY DEF RegistrationInv
<1> QED
    BY <1>1, RegistrationInvariant, PTL

(* An address is repeated only by two registrations neither of which could *)
(* see the other (validate_email in identity/serializers.py).              *)
THEOREM TwinsRacedHolds == OnboardingSpec => []TwinsRaced
<1>1. ASSUME RegistrationInv PROVE TwinsRaced
    <2>1. ASSUME NEW j \in Committed, NEW k \in Committed,
                 SameIgnoringCase(users[j].email, users[k].email)
          PROVE  k \notin known[users[j].by]
        <3> DEFINE r == users[j].by
        <3>1. j \in DOMAIN users /\ users[j].status = "committed"
            BY DEF Committed, In
        <3>2. r \in Requests /\ pc[r] \in Begun /\ key[r] = j
            BY <1>1, <3>1, Typed DEF RegistrationInv
        <3>3. OwnRow(r)
            BY <1>1, <3>2, Own
        <3>4. pc[r] \in Passed /\ users[j].email = asked[r].email
            BY <3>1, <3>2, <3>3 DEF OwnRow, Begun, Passed
        <3>5. \A i \in known[r] : ~SameIgnoringCase(users[i].email, asked[r].email)
            BY <1>1, <3>2, <3>4, Own
        <3> QED
            BY <2>1, <3>4, <3>5 DEF SameIgnoringCase
    <2> QED
        BY <2>1 DEF TwinsRaced, SameIgnoringCase
<1> QED
    BY <1>1, RegistrationInvariant, PTL

LEMMA CommittedStays ==
    ASSUME RegistrationInv, [OnboardingNext]_regVars
    PROVE  \A k \in Committed : k \in Committed' /\ users'[k] = users[k]
<1>1. ASSUME NEW r \in Requests, (\E f \in Forms : Receive(r, f)) \/ Handle(r) \/ RollBack(r)
      PROVE  \A k \in Committed : k \in Committed' /\ users'[k] = users[k]
    <2>1. CASE UNCHANGED users
        BY <2>1 DEF Committed, In
    <2>2. CASE DrawKey(r)
        <3>1. /\ DOMAIN users \subseteq DOMAIN users'
              /\ \A k \in DOMAIN users : users'[k] = users[k]
            BY <2>2, Typed DEF DrawKey
        <3> QED
            BY <3>1 DEF Committed, In
    <2>3. CASE InsertUser(r) \/ Commit(r) \/ RollBack(r)
        <3>1. /\ pc[r] \in InTransaction
              /\ \E s \in {"open", "committed", "gone"} : users' = WithStatus(key[r], s)
            BY <2>3 DEF InsertUser, Commit, RollBack, At, InTransaction, WithStatus
        <3>2. key[r] \in DOMAIN users /\ users[key[r]].status # "committed"
            BY <3>1, Own DEF OwnRow, Begun, InTransaction
        <3>3. /\ DOMAIN users' = DOMAIN users
              /\ \A k \in DOMAIN users : k # key[r] => users'[k] = users[k]
            BY <3>1, <3>2, Typed, StatusWritten
        <3> QED
            BY <3>2, <3>3 DEF Committed, In
    <2> QED
        BY <1>1, <2>1, <2>2, <2>3
           DEF Handle, Receive, CheckUsername, CheckEmail, OpenStarterAccounts, PostOpeningDeposit,
               RecordOpened
<1>2. CASE UNCHANGED regVars
    BY <1>2 DEF regVars, Committed, In
<1> QED
    BY <1>1, <1>2 DEF OnboardingNext

Oldest(id) ==
    /\ Matches(id) \in SUBSET (Nat \ {0})
    /\ Matches(id) = {} => Resolve(id) = 0
    /\ Matches(id) # {} =>
           Resolve(id) \in Matches(id) /\ \A j \in Matches(id) : Resolve(id) <= j

LEMMA Resolving == RegistrationInv => \A id \in Identifiers : Oldest(id)
<1> SUFFICES ASSUME RegistrationInv, NEW id \in Identifiers PROVE Oldest(id)
    OBVIOUS
<1>1. DOMAIN users \subseteq Nat \ {0}
    BY Typed
<1>2. Matches(id) \in SUBSET (Nat \ {0})
    BY <1>1 DEF Matches, Committed, In
<1>3. ASSUME Matches(id) # {}
      PROVE  Resolve(id) \in Matches(id) /\ \A j \in Matches(id) : Resolve(id) <= j
    <2>1. \E k \in Matches(id) : \A j \in Matches(id) : k <= j
        BY <1>2, <1>3, LeastOf
    <2> QED
        BY <1>3, <2>1 DEF Resolve
<1> QED
    BY <1>2, <1>3 DEF Oldest, Resolve

(* A newcomer takes no login away from an older user                       *)
(* (identity/backends.py, which orders its matches by primary key).        *)
THEOREM OldestKeepsTheLoginHolds == OnboardingSpec => OldestKeepsTheLogin
<1>1. ASSUME RegistrationInv, [OnboardingNext]_regVars,
             \A id \in Identifiers : Oldest(id), (\A id \in Identifiers : Oldest(id))'
      PROVE  [\A id \in Identifiers : Resolve(id) # 0 => Resolve(id)' \in 1 .. Resolve(id)]_regVars
    <2> SUFFICES ASSUME NEW id \in Identifiers, Resolve(id) # 0
                 PROVE  Resolve(id)' \in 1 .. Resolve(id)
        OBVIOUS
    <2>1. Oldest(id) /\ Oldest(id)'
        BY <1>1
    <2>2. Resolve(id) \in Matches(id) /\ Resolve(id) \in Nat \ {0}
        BY <2>1 DEF Oldest
    <2>3. Resolve(id) \in Matches(id)'
        BY <1>1, <2>2, CommittedStays DEF Matches
    <2>4. Resolve(id)' \in Nat \ {0} /\ Resolve(id)' <= Resolve(id)
        <3>1. /\ Matches(id)' \in SUBSET (Nat \ {0}) /\ Matches(id)' # {}
              /\ Resolve(id)' \in Matches(id)' /\ \A j \in Matches(id)' : Resolve(id)' <= j
            BY <2>1, <2>3 DEF Oldest
        <3> QED
            BY <2>3, <3>1
    <2> QED
        BY <2>2, <2>4
<1> QED
    BY <1>1, RegistrationInvariant, Resolving, PTL DEF OnboardingSpec, OldestKeepsTheLogin
=============================================================================
