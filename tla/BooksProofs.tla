---------------------------- MODULE BooksProofs ----------------------------
(***************************************************************************)
(* Theorems about what is posted and what the migrations do to it. The     *)
(* dictionaries that post_entry fills line by line hold the sums its       *)
(* triggers ask for (AddingSums, TallySums), so the service foresees the   *)
(* triggers; conserve_shares completes any fill (FillCompleted); and every *)
(* entry stays balanced, of one instant, and, as far as its migrations     *)
(* have come, conserved and keyed by its request (BooksInv). They hold for *)
(* any accounts, any finite set of instruments, any rounding that fits     *)
(* AccountsAssumption, and any history.                                    *)
(***************************************************************************)
EXTENDS Books, SumTheorems

(* The largest element of a set of positions.                              *)
LEMMA MaxIn ==
  ASSUME NEW n \in Nat, NEW s \in SUBSET (1..n), s # {}
  PROVE  Max(s) \in s
<1> DEFINE T == {n - x : x \in s}
<1>1. T \in SUBSET Nat /\ T # {}
  <2>1. \A x \in s : x \in 1..n /\ n - x \in Nat
    OBVIOUS
  <2> QED BY <2>1
<1>2. PICK y \in T : \A z \in T : y <= z
  <2> HIDE DEF T
  <2> QED BY <1>1, LeastOf
<1>3. PICK x \in s : y = n - x
  OBVIOUS
<1>4. \A z \in s : x >= z
  <2> TAKE z \in s
  <2>1. n - z \in T /\ z \in 1..n /\ x \in 1..n
    OBVIOUS
  <2>2. y <= n - z
    BY <1>2, <2>1
  <2> HIDE DEF T
  <2> QED BY <1>3, <2>1, <2>2
<1> QED BY <1>4 DEF Max

-----------------------------------------------------------------------------
(* A dictionary that is filled position by position holds sums.            *)
Adding(f, D, it) ==
    it = [s \in SUBSET D |-> IF s = {} THEN 0 ELSE it[s \ {Max(s)}] + f[Max(s)]]

LEMMA AddingSums ==
  ASSUME NEW n \in Nat, NEW f, \A x \in 1..n : f[x] \in Int
  PROVE  /\ \E it : Adding(f, 1..n, it)
         /\ \A it : Adding(f, 1..n, it) => it[1..n] = SumFunctionOnSet(f, 1..n)
<1> DEFINE D == 1..n
           S == SUBSET D
           jt == [s \in S |-> SumFunctionOnSet(f, s)]
<1>1. \A s \in S : IsFiniteSet(s) /\ Cardinality(s) \in Nat
  <2>1. IsFiniteSet(D)
    BY FS_Interval
  <2> QED BY <2>1, FS_Subset, FS_CardinalityType
<1>2. \A s \in S : s # {} => Max(s) \in s
  BY MaxIn
<1>3. \A s \in S : s # {} => SumFunctionOnSet(f, s) = SumFunctionOnSet(f, s \ {Max(s)}) + f[Max(s)]
  <2> TAKE s \in S
  <2> HAVE s # {}
  <2>1. Max(s) \in s /\ IsFiniteSet(s) /\ (\A x \in s : f[x] \in Int) /\ f[Max(s)] \in Int
    BY <1>1, <1>2
  <2>2. SumFunctionOnSet(f, s) = f[Max(s)] + SumFunctionOnSet(f, s \ {Max(s)})
    BY <2>1, SumTake
  <2>3. IsFiniteSet(s \ {Max(s)}) /\ \A x \in s \ {Max(s)} : f[x] \in Int
    BY <2>1, FS_RemoveElement
  <2>4. SumFunctionOnSet(f, s \ {Max(s)}) \in Int
    BY <2>3, SumType
  <2> QED BY <2>1, <2>2, <2>4
<1>4. SumFunctionOnSet(f, {}) = 0
  BY SumEmpty
<1>5. \A s \in S : s \ {Max(s)} \in S
  OBVIOUS
<1>6. Adding(f, D, jt)
  <2>1. jt = [s \in S |-> IF s = {} THEN 0 ELSE jt[s \ {Max(s)}] + f[Max(s)]]
    BY <1>3, <1>4, <1>5
  <2> QED BY <2>1 DEF Adding
<1>7. ASSUME NEW it, Adding(f, D, it) PROVE it[D] = jt[D]
  <2> DEFINE Bad == {m \in Nat : \E s \in S : Cardinality(s) = m /\ it[s] # jt[s]}
  <2>1. SUFFICES ASSUME it[D] # jt[D] PROVE FALSE
    OBVIOUS
  <2>2. D \in S
    OBVIOUS
  <2> HIDE DEF jt
  <2>3. Cardinality(D) \in Bad
    BY <1>1, <2>1, <2>2
  <2>4. PICK m \in Bad : \A k \in Bad : m <= k
    <3>1. Bad \in SUBSET Nat
      OBVIOUS
    <3> HIDE DEF Bad
    <3> QED BY <2>3, <3>1, LeastOf
  <2>5. PICK s \in S : Cardinality(s) = m /\ it[s] # jt[s]
    OBVIOUS
  <2>6. /\ it[s] = IF s = {} THEN 0 ELSE it[s \ {Max(s)}] + f[Max(s)]
        /\ jt[s] = IF s = {} THEN 0 ELSE jt[s \ {Max(s)}] + f[Max(s)]
    BY <1>6, <1>7 DEF Adding
  <2>7. s # {}
    BY <2>5, <2>6
  <2>8. Cardinality(s \ {Max(s)}) = m - 1 /\ m \in Nat /\ m - 1 \in Nat
    <3>1. Cardinality(s \ {Max(s)}) = m - 1
      BY <1>1, <1>2, <2>5, <2>7, FS_RemoveElement
    <3>2. Cardinality(s \ {Max(s)}) \in Nat
      BY <1>1, <1>5
    <3> QED BY <3>1, <3>2
  <2>9. m - 1 \notin Bad
    BY <2>4, <2>8
  <2>10. it[s \ {Max(s)}] = jt[s \ {Max(s)}]
    BY <1>5, <2>8, <2>9
  <2> QED BY <2>5, <2>6, <2>7, <2>10
<1>8. jt[D] = SumFunctionOnSet(f, D)
  OBVIOUS
<1> HIDE DEF jt
<1> QED BY <1>6, <1>7, <1>8

(* NetAmount adds the amounts up.                                          *)
LEMMA NetAmountSums ==
  ASSUME NEW rows, NEW n \in Nat, DOMAIN rows = 1..n, \A x \in 1..n : rows[x].amount \in Int
  PROVE  NetAmount(rows) = SumFunction([x \in DOMAIN rows |-> rows[x].amount])
<1> DEFINE D == 1..n
           f == [x \in D |-> rows[x].amount]
           Fold(it) == it = [s \in SUBSET D |-> IF s = {} THEN 0
                                                 ELSE it[s \ {Max(s)}] + rows[Max(s)].amount]
<1>1. NetAmount(rows) = (CHOOSE it : Fold(it))[D]
  BY DEF NetAmount, FoldLeft, MapThenFoldSet
<1>2. \A s \in SUBSET D : s # {} => Max(s) \in D
  BY MaxIn
<1>3. ASSUME NEW it PROVE Fold(it) <=> Adding(f, D, it)
  BY <1>2 DEF Adding
<1>4. \A x \in D : f[x] \in Int
  OBVIOUS
<1> HIDE DEF f, Fold
<1>5. \E it : Fold(it)
  BY <1>3, <1>4, AddingSums
<1>6. Fold(CHOOSE it : Fold(it))
  BY <1>5
<1>7. (CHOOSE it : Fold(it))[D] = SumFunctionOnSet(f, D)
  BY <1>3, <1>4, <1>6, AddingSums
<1>8. SumFunction(f) = SumFunctionOnSet(f, D)
  BY DEF SumFunction, f
<1> QED BY <1>1, <1>7, <1>8 DEF f

-----------------------------------------------------------------------------
(* The same for a dictionary: what is kept of the positions is added to    *)
(* the entry of its key.                                                   *)
Tally(I, K, key, q, D, it) ==
    it = [s \in SUBSET D |->
            IF s = {} THEN [i \in I |-> 0]
            ELSE IF Max(s) \notin K THEN it[s \ {Max(s)}]
            ELSE [it[s \ {Max(s)}] EXCEPT ![key[Max(s)]] = @ + q[Max(s)]]]

Under(K, key, s, i) == {x \in s \cap K : key[x] = i}

LEMMA TallySums ==
  ASSUME NEW I, NEW n \in Nat, NEW K \in SUBSET (1..n), NEW key, NEW q,
         \A x \in K : key[x] \in I /\ q[x] \in Int
  PROVE  /\ \E it : Tally(I, K, key, q, 1..n, it)
         /\ \A it : Tally(I, K, key, q, 1..n, it) =>
                 it[1..n] = [i \in I |-> SumFunctionOnSet(q, Under(K, key, 1..n, i))]
<1> DEFINE D == 1..n
           S == SUBSET D
           part(s) == [i \in I |-> SumFunctionOnSet(q, Under(K, key, s, i))]
           jt == [s \in S |-> part(s)]
<1>1. \A s \in S : IsFiniteSet(s) /\ Cardinality(s) \in Nat
  <2>1. IsFiniteSet(D)
    BY FS_Interval
  <2> QED BY <2>1, FS_Subset, FS_CardinalityType
<1>2. \A s \in S : s # {} => Max(s) \in s
  BY MaxIn
<1>3. \A s \in S : s \ {Max(s)} \in S
  OBVIOUS
<1>4. ASSUME NEW s \in S, s # {}, Max(s) \notin K PROVE part(s) = part(s \ {Max(s)})
  <2>1. \A i \in I : Under(K, key, s, i) = Under(K, key, s \ {Max(s)}, i)
    BY <1>4 DEF Under
  <2> QED BY <2>1
<1>5. ASSUME NEW s \in S, s # {}, Max(s) \in K
      PROVE  part(s) = [part(s \ {Max(s)}) EXCEPT ![key[Max(s)]] = @ + q[Max(s)]]
  <2> DEFINE x == Max(s)
             r == s \ {x}
  <2>1. x \in s /\ x \in K /\ key[x] \in I /\ q[x] \in Int
    BY <1>2, <1>5
  <2> HIDE DEF x
  <2>2. \A i \in I : i # key[x] => Under(K, key, s, i) = Under(K, key, r, i)
    BY DEF Under
  <2> DEFINE U == Under(K, key, s, key[x])
  <2>3. Under(K, key, r, key[x]) = U \ {x} /\ x \in U
    BY <2>1 DEF Under
  <2>4. IsFiniteSet(U) /\ \A y \in U : q[y] \in Int
    <3>1. U \in SUBSET s /\ \A y \in U : y \in K
      BY DEF Under
    <3> QED BY <3>1, <1>1, FS_Subset
  <2> HIDE DEF U
  <2>5. SumFunctionOnSet(q, U) = q[x] + SumFunctionOnSet(q, U \ {x})
    BY <2>3, <2>4, SumTake
  <2>6. IsFiniteSet(U \ {x}) /\ \A y \in U \ {x} : q[y] \in Int
    BY <2>4, FS_RemoveElement
  <2>7. SumFunctionOnSet(q, U \ {x}) \in Int
    BY <2>6, SumType
  <2>8. SumFunctionOnSet(q, U) = SumFunctionOnSet(q, U \ {x}) + q[x]
    BY <2>1, <2>5, <2>7
  <2>9. part(s)[key[x]] = part(r)[key[x]] + q[x]
    <3>1. part(s)[key[x]] = SumFunctionOnSet(q, U)
      BY <2>1 DEF U
    <3>2. part(r)[key[x]] = SumFunctionOnSet(q, U \ {x})
      BY <2>1, <2>3
    <3> QED BY <3>1, <3>2, <2>8
  <2>10. \A i \in I : i # key[x] => part(s)[i] = part(r)[i]
    BY <2>2
  <2> DEFINE ps == part(s)
             pr == part(r)
  <2>11. DOMAIN ps = I /\ DOMAIN pr = I /\ ps = [i \in I |-> ps[i]]
    OBVIOUS
  <2>12. ps[key[x]] = pr[key[x]] + q[x] /\ \A i \in I : i # key[x] => ps[i] = pr[i]
    BY <2>9, <2>10
  <2> HIDE DEF ps, pr
  <2>13. ps = [pr EXCEPT ![key[x]] = @ + q[x]]
    BY <2>1, <2>11, <2>12
  <2> QED BY <2>13 DEF ps, pr, x
<1>6. part({}) = [i \in I |-> 0]
  <2>1. \A i \in I : Under(K, key, {}, i) = {}
    BY DEF Under
  <2> QED BY <2>1, SumEmpty
<1> HIDE DEF part
<1>7. Tally(I, K, key, q, D, jt)
  <2>1. jt = [s \in S |->
            IF s = {} THEN [i \in I |-> 0]
            ELSE IF Max(s) \notin K THEN jt[s \ {Max(s)}]
            ELSE [jt[s \ {Max(s)}] EXCEPT ![key[Max(s)]] = @ + q[Max(s)]]]
    <3>1. ASSUME NEW s \in S
          PROVE  part(s) = IF s = {} THEN [i \in I |-> 0]
                           ELSE IF Max(s) \notin K THEN part(s \ {Max(s)})
                           ELSE [part(s \ {Max(s)}) EXCEPT ![key[Max(s)]] = @ + q[Max(s)]]
      BY <1>4, <1>5, <1>6
    <3>2. \A s \in S : jt[s \ {Max(s)}] = part(s \ {Max(s)})
      BY <1>3
    <3> QED BY <3>1, <3>2
  <2> QED BY <2>1 DEF Tally
<1>8. ASSUME NEW it, Tally(I, K, key, q, D, it) PROVE it[D] = jt[D]
  <2> DEFINE Bad == {m \in Nat : \E s \in S : Cardinality(s) = m /\ it[s] # jt[s]}
  <2>1. SUFFICES ASSUME it[D] # jt[D] PROVE FALSE
    OBVIOUS
  <2>2. D \in S
    OBVIOUS
  <2> HIDE DEF jt
  <2>3. Cardinality(D) \in Bad
    BY <1>1, <2>1, <2>2
  <2>4. PICK m \in Bad : \A k \in Bad : m <= k
    <3>1. Bad \in SUBSET Nat
      OBVIOUS
    <3> HIDE DEF Bad
    <3> QED BY <2>3, <3>1, LeastOf
  <2>5. PICK s \in S : Cardinality(s) = m /\ it[s] # jt[s]
    OBVIOUS
  <2>6. /\ it[s] = IF s = {} THEN [i \in I |-> 0]
            ELSE IF Max(s) \notin K THEN it[s \ {Max(s)}]
            ELSE [it[s \ {Max(s)}] EXCEPT ![key[Max(s)]] = @ + q[Max(s)]]
        /\ jt[s] = IF s = {} THEN [i \in I |-> 0]
            ELSE IF Max(s) \notin K THEN jt[s \ {Max(s)}]
            ELSE [jt[s \ {Max(s)}] EXCEPT ![key[Max(s)]] = @ + q[Max(s)]]
    BY <1>7, <1>8 DEF Tally
  <2>7. s # {}
    BY <2>5, <2>6
  <2>8. Cardinality(s \ {Max(s)}) = m - 1 /\ m \in Nat /\ m - 1 \in Nat
    <3>1. Cardinality(s \ {Max(s)}) = m - 1
      BY <1>1, <1>2, <2>5, <2>7, FS_RemoveElement
    <3>2. Cardinality(s \ {Max(s)}) \in Nat
      BY <1>1, <1>3
    <3> QED BY <3>1, <3>2
  <2>9. m - 1 \notin Bad
    BY <2>4, <2>8
  <2>10. it[s \ {Max(s)}] = jt[s \ {Max(s)}]
    BY <1>3, <2>8, <2>9
  <2> QED BY <2>5, <2>6, <2>7, <2>10
<1>9. jt[D] = part(D)
  OBVIOUS
<1> HIDE DEF jt
<1> QED BY <1>7, <1>8, <1>9 DEF part

-----------------------------------------------------------------------------
(* Rows, and lines before they are rounded.                                *)
Shaped(rows) ==
    \E n \in Nat : DOMAIN rows = 1..n /\
        \A x \in 1..n : /\ rows[x].account \in Accounts /\ rows[x].amount \in Int
                        /\ rows[x].quantity \in Int \cup {NoQuantity}

Group(rows, i) ==
    {n \in DOMAIN rows : Instrument(rows[n]) = i /\ rows[n].quantity # NoQuantity}

(* NetShares adds the shares up, instrument by instrument.                 *)
LEMMA NetSharesSums ==
  ASSUME NEW rows, Shaped(rows), NEW i \in Instruments \cup {NoInstrument}
  PROVE  NetShares(rows)[i] = SumFunction([n \in Group(rows, i) |-> rows[n].quantity])
<1>1. PICK n \in Nat : DOMAIN rows = 1..n /\
         \A x \in 1..n : /\ rows[x].account \in Accounts /\ rows[x].amount \in Int
                         /\ rows[x].quantity \in Int \cup {NoQuantity}
  BY DEF Shaped
<1> DEFINE D == 1..n
           I == Instruments \cup {NoInstrument}
           K == {x \in D : rows[x].quantity # NoQuantity}
           key == [x \in D |-> Instrument(rows[x])]
           q == [x \in D |-> rows[x].quantity]
           Fold(it) == it = [s \in SUBSET D |->
               IF s = {} THEN [j \in I |-> 0]
               ELSE IF rows[Max(s)].quantity = NoQuantity THEN it[s \ {Max(s)}]
               ELSE [it[s \ {Max(s)}] EXCEPT ![Instrument(rows[Max(s)])] = @ + rows[Max(s)].quantity]]
<1>2. NetShares(rows) = (CHOOSE it : Fold(it))[D]
  BY <1>1 DEF NetShares, FoldLeft, MapThenFoldSet
<1>3. \A s \in SUBSET D : s # {} => Max(s) \in D
  BY MaxIn
<1>4. ASSUME NEW it PROVE Fold(it) <=> Tally(I, K, key, q, D, it)
  BY <1>3 DEF Tally
<1>5. K \in SUBSET D /\ \A x \in K : key[x] \in I /\ q[x] \in Int
  BY <1>1, AccountsAssumption, LinesAssumption DEF Instrument
<1>6. \A x \in K : q[x] = rows[x].quantity
  OBVIOUS
<1>7. Under(K, key, D, i) = Group(rows, i)
  BY <1>1 DEF Under, Group
<1>8. i \in I
  OBVIOUS
<1> HIDE DEF Fold, K, key, q, I
<1>9. \E it : Fold(it)
  BY <1>4, <1>5, TallySums
<1>10. Fold(CHOOSE it : Fold(it))
  BY <1>9
<1>11. (CHOOSE it : Fold(it))[D] = [j \in I |-> SumFunctionOnSet(q, Under(K, key, D, j))]
  BY <1>4, <1>5, <1>10, TallySums
<1>12. NetShares(rows)[i] = SumFunctionOnSet(q, Group(rows, i))
  BY <1>2, <1>7, <1>8, <1>11
<1> DEFINE f == [x \in Group(rows, i) |-> rows[x].quantity]
<1>13. SumFunctionOnSet(q, Group(rows, i)) = SumFunctionOnSet(f, Group(rows, i))
  <2>1. IsFiniteSet(Group(rows, i))
    <3>1. Group(rows, i) \in SUBSET D /\ IsFiniteSet(D)
      BY <1>1, FS_Interval DEF Group
    <3> QED BY <3>1, FS_Subset
  <2>2. \A x \in Group(rows, i) : x \in K /\ f[x] = rows[x].quantity
    BY <1>1 DEF Group, K
  <2>3. \A x \in Group(rows, i) : q[x] = f[x]
    BY <1>6, <2>2
  <2> HIDE DEF f
  <2> QED BY <2>1, <2>3, SumSame
<1>14. SumFunction(f) = SumFunctionOnSet(f, Group(rows, i))
  BY DEF SumFunction
<1> QED BY <1>12, <1>13, <1>14

(* What post_entry stores has the shape of rows.                           *)
LEMMA RoundType ==
  ASSUME NEW num \in Int, NEW den \in Nat \ {0}
  PROVE  RoundHalfEven(num, den) \in Int
BY DEF RoundHalfEven

LEMMA RowsShaped ==
  ASSUME NEW ls \in Seq(Line)
  PROVE  Shaped(Rows(ls)) /\ DOMAIN Rows(ls) = 1..Len(ls)
<1>1. DOMAIN Rows(ls) = 1..Len(ls)
  BY DEF Rows
<1>2. ASSUME NEW x \in 1..Len(ls)
      PROVE  /\ Rows(ls)[x].account \in Accounts /\ Rows(ls)[x].amount \in Int
             /\ Rows(ls)[x].quantity \in Int \cup {NoQuantity}
  <2>1. ls[x] \in Line
    OBVIOUS
  <2>2. /\ ls[x].account \in Accounts /\ ls[x].amount \in Int
        /\ ls[x].quantity \in Int \cup {NoQuantity}
    BY <2>1 DEF Line
  <2>3. RoundHalfEven(ls[x].amount, Fine) \in Int
    BY <2>2, RoundType, LinesAssumption
  <2>4. StoredQuantity(ls[x].quantity) \in Int \cup {NoQuantity}
    BY <2>2, RoundType, LinesAssumption DEF StoredQuantity
  <2>5. Rows(ls)[x] = Stored(ls[x])
    BY DEF Rows
  <2> QED BY <2>2, <2>3, <2>4, <2>5 DEF Stored
<1> QED BY <1>1, <1>2 DEF Shaped

(* What post_entry accepts, Postgres commits.                              *)
LEMMA AcceptedCommits ==
  ASSUME NEW rows, Shaped(rows), Accepted(rows)
  PROVE  CommitSucceeds(rows)
<1>1. PICK n \in Nat : DOMAIN rows = 1..n /\
         \A x \in 1..n : /\ rows[x].account \in Accounts /\ rows[x].amount \in Int
                         /\ rows[x].quantity \in Int \cup {NoQuantity}
  BY DEF Shaped
<1>2. ChecksHold(rows)
  BY DEF Accepted, ChecksHold, QuantityFits
<1>3. EntryBalanced(rows)
  BY <1>1, NetAmountSums DEF Accepted, EntryBalanced
<1>4. ASSUME NEW i \in Instruments
      PROVE  SumFunction([n_1 \in Group(rows, i) |-> rows[n_1].quantity]) = 0
  BY NetSharesSums DEF Accepted
<1>5. SumFunction([n_1 \in Group(rows, NoInstrument) |-> rows[n_1].quantity]) = 0
  <2>1. Group(rows, NoInstrument) = {}
    BY DEF Group, Accepted, QuantityFits, IsPosition
  <2>2. SumFunctionOnSet([n_1 \in Group(rows, NoInstrument) |-> rows[n_1].quantity], {}) = 0
    BY SumEmpty
  <2> QED BY <2>1, <2>2 DEF SumFunction
<1>6. EntryConservesShares(rows)
  BY <1>4, <1>5 DEF EntryConservesShares, Group
<1> QED BY <1>2, <1>3, <1>6 DEF CommitSucceeds

-----------------------------------------------------------------------------
(* The legs of conserve_shares.                                            *)

(* A set as a sequence: each element once.                                 *)
LEMMA SequenceOfSet ==
  ASSUME NEW S, IsFiniteSet(S)
  PROVE  /\ Cardinality(S) \in Nat
         /\ SetToSeq(S) \in [1..Cardinality(S) -> S]
         /\ \A a, b \in 1..Cardinality(S) : SetToSeq(S)[a] = SetToSeq(S)[b] => a = b
         /\ \A x \in S : \E a \in 1..Cardinality(S) : SetToSeq(S)[a] = x
<1> DEFINE n == Cardinality(S)
           F == [1..n -> S]
<1>1. n \in Nat /\ ExistsBijection(1..n, S)
  BY FS_CardinalityType
<1>2. \E f \in F : IsInjective(f)
  BY <1>1 DEF ExistsBijection, Bijection, Injection
<1>3. SetToSeq(S) \in F /\ IsInjective(SetToSeq(S))
  BY <1>2 DEF SetToSeq
<1>4. SetToSeq(S) \in Injection(1..n, S)
  BY <1>3 DEF Injection
<1>5. Cardinality(1..n) = n
  BY <1>1, FS_Interval
<1>6. SetToSeq(S) \in Surjection(1..n, S)
  BY <1>1, <1>4, <1>5, FS_Injection
<1> QED BY <1>1, <1>3, <1>6 DEF IsInjective, Surjection

(* The lines a fill holds of an instrument.                                *)
HeldLines(ls, i) ==
    {n \in DOMAIN ls : /\ ls[n].quantity # NoQuantity /\ ls[n].account \in Assets
                       /\ IsPosition(ls[n]) /\ Instrument(ls[n]) = i}

QuantitiesOf(ls) == [n \in DOMAIN ls |-> StoredQuantity(ls[n].quantity)]

LEMMA MovedSharesSums ==
  ASSUME NEW ls \in Seq(Line)
  PROVE  /\ DOMAIN MovedShares(ls) = Instruments
         /\ \A i \in Instruments : /\ MovedShares(ls)[i] \in Int
                                   /\ MovedShares(ls)[i] =
                                        SumFunctionOnSet(QuantitiesOf(ls), HeldLines(ls, i))
<1> DEFINE n == Len(ls)
           D == 1..n
           I == Instruments
           K == {x \in D : ~(ls[x].quantity = NoQuantity \/ ls[x].account \notin Assets
                               \/ ~IsPosition(ls[x]))}
           key == [x \in D |-> Instrument(ls[x])]
           q == [x \in D |-> StoredQuantity(ls[x].quantity)]
           Fold(it) == it = [s \in SUBSET D |->
               IF s = {} THEN [j \in I |-> 0]
               ELSE IF ls[Max(s)].quantity = NoQuantity \/ ls[Max(s)].account \notin Assets
                         \/ ~IsPosition(ls[Max(s)]) THEN it[s \ {Max(s)}]
               ELSE [it[s \ {Max(s)}] EXCEPT
                        ![Instrument(ls[Max(s)])] = @ + StoredQuantity(ls[Max(s)].quantity)]]
<1>1. n \in Nat /\ DOMAIN ls = D /\ \A x \in D : ls[x] \in Line
  OBVIOUS
<1>2. MovedShares(ls) = (CHOOSE it : Fold(it))[D]
  BY <1>1 DEF MovedShares, FoldLeft, MapThenFoldSet
<1>3. \A s \in SUBSET D : s # {} => Max(s) \in D
  BY <1>1, MaxIn
<1>4. ASSUME NEW it PROVE Fold(it) <=> Tally(I, K, key, q, D, it)
  BY <1>3 DEF Tally
<1>5. K \in SUBSET D /\ \A x \in K : key[x] \in I /\ q[x] \in Int
  <2> SUFFICES ASSUME NEW x \in K PROVE key[x] \in I /\ q[x] \in Int
    OBVIOUS
  <2>1. ls[x].quantity \in Int /\ ls[x].account \in Accounts
    BY <1>1 DEF Line
  <2>2. key[x] \in I
    BY <2>1, AccountsAssumption DEF IsPosition, Instrument
  <2>3. q[x] = RoundHalfEven(ls[x].quantity, Fine)
    BY DEF StoredQuantity
  <2> QED BY <2>1, <2>2, <2>3, RoundType, LinesAssumption
<1>6. \A i \in I : Under(K, key, D, i) = HeldLines(ls, i)
  BY <1>1 DEF Under, HeldLines
<1>7. \A i \in I : IsFiniteSet(HeldLines(ls, i)) /\ \A x \in HeldLines(ls, i) : q[x] \in Int
  <2> TAKE i \in I
  <2>1. HeldLines(ls, i) \in SUBSET D /\ \A x \in HeldLines(ls, i) : x \in K
    BY <1>1 DEF HeldLines
  <2>2. IsFiniteSet(D)
    BY <1>1, FS_Interval
  <2> HIDE DEF K, q
  <2> QED BY <1>5, <2>1, <2>2, FS_Subset
<1> HIDE DEF Fold, K, key, q, I, n
<1>9. \E it : Fold(it)
  BY <1>1, <1>4, <1>5, TallySums
<1>10. Fold(CHOOSE it : Fold(it))
  BY <1>9
<1>11. (CHOOSE it : Fold(it))[D] = [j \in I |-> SumFunctionOnSet(q, Under(K, key, D, j))]
  BY <1>1, <1>4, <1>5, <1>10, TallySums
<1>12. MovedShares(ls) = [j \in I |-> SumFunctionOnSet(q, Under(K, key, D, j))]
  BY <1>2, <1>11
<1>13. \A i \in I : MovedShares(ls)[i] = SumFunctionOnSet(q, HeldLines(ls, i))
  BY <1>6, <1>12
<1>14. \A i \in I : SumFunctionOnSet(q, HeldLines(ls, i)) \in Int
  BY <1>7, SumType
<1>15. q = QuantitiesOf(ls)
  BY <1>1 DEF QuantitiesOf, q
<1> QED BY <1>12, <1>13, <1>14, <1>15 DEF I

(* The legs, as lines and as they are stored.                              *)
LegSet(ls) == {ContraLeg(i, MovedShares(ls)[i]) : i \in {j \in Instruments : MovedShares(ls)[j] # 0}}

LEMMA QuantaRoundBack ==
  ASSUME NEW k \in Int, NEW den \in Nat \ {0}
  PROVE  RoundHalfEven(k * den, den) = k
<1>1. (k * den) \div den = k /\ (k * den) % den = 0
  OBVIOUS
<1> QED BY <1>1 DEF RoundHalfEven

LEMMA LegsStored ==
  ASSUME NEW i \in Instruments, NEW k \in Int
  PROVE  /\ ContraLeg(i, k) \in Line
         /\ Stored(ContraLeg(i, k)).account = ContraOf[i]
         /\ Stored(ContraLeg(i, k)).amount = 0
         /\ Stored(ContraLeg(i, k)).quantity = -k
<1>1. ContraOf[i] \in Accounts /\ -k \in Int /\ -k * Fine \in Int /\ NoQuantity \notin Int
  BY AccountsAssumption, LinesAssumption
<1>2. ContraLeg(i, k) \in Line
  BY <1>1 DEF ContraLeg, Line
<1>3. RoundHalfEven(-k * Fine, Fine) = -k
  BY <1>1, QuantaRoundBack, LinesAssumption
<1>4. RoundHalfEven(0, Fine) = 0
  <2>1. 0 * Fine = 0
    BY LinesAssumption
  <2> QED BY <2>1, QuantaRoundBack, LinesAssumption
<1>5. -k * Fine # NoQuantity
  BY <1>1
<1> QED BY <1>2, <1>3, <1>4, <1>5 DEF ContraLeg, Stored, StoredQuantity

LEMMA LegsFinite ==
  ASSUME NEW ls \in Seq(Line)
  PROVE  IsFiniteSet(LegSet(ls)) /\ LegSet(ls) \subseteq Line
<1> DEFINE M == {j \in Instruments : MovedShares(ls)[j] # 0}
           g == [i \in M |-> ContraLeg(i, MovedShares(ls)[i])]
<1>1. IsFiniteSet(M)
  <2>1. M \in SUBSET Instruments
    OBVIOUS
  <2> QED BY <2>1, FS_Subset, AccountsAssumption
<1>2. g \in Surjection(M, LegSet(ls))
  BY DEF Surjection, LegSet
<1>3. IsFiniteSet(LegSet(ls))
  BY <1>1, <1>2, FS_Surjection
<1>4. LegSet(ls) \subseteq Line
  BY MovedSharesSums, LegsStored DEF LegSet
<1> QED BY <1>3, <1>4

LEMMA ConservedLines ==
  ASSUME NEW ls \in Seq(Line)
  PROVE  ConserveShares(ls) \in Seq(Line)
<1> DEFINE S == LegSet(ls)
<1>1. ConserveShares(ls) = ls \o SetToSeq(S)
  BY DEF ConserveShares, LegSet
<1>2. Cardinality(S) \in Nat /\ SetToSeq(S) \in [1..Cardinality(S) -> S] /\ S \subseteq Line
  BY LegsFinite, SequenceOfSet
<1> HIDE DEF S
<1>3. SetToSeq(S) \in Seq(Line)
  BY <1>2
<1> QED BY <1>1, <1>3

(* conserve_shares completes a fill.                                       *)
LEMMA FillCompleted ==
  ASSUME NEW ls \in Seq(Line), IsFill(Rows(ls))
  PROVE  Accepted(Rows(ConserveShares(ls)))
<1> DEFINE S == LegSet(ls)
           m == Cardinality(S)
           legs == SetToSeq(S)
           n == Len(ls)
           all == ls \o legs
           old == Rows(ls)
           new == Rows(all)
           moved == MovedShares(ls)
           M == {j \in Instruments : moved[j] # 0}
<1>1. ConserveShares(ls) = all
  BY DEF ConserveShares, LegSet
<1>2. /\ m \in Nat /\ n \in Nat /\ legs \in [1..m -> S] /\ S \subseteq Line
      /\ \A a, b \in 1..m : legs[a] = legs[b] => a = b
      /\ \A x \in S : \E a \in 1..m : legs[a] = x
  BY LegsFinite, SequenceOfSet
<1>3. all \in Seq(Line) /\ Len(all) = n + m
  <2> HIDE DEF S
  <2>1. legs \in Seq(Line) /\ Len(legs) = m
    BY <1>2
  <2> QED BY <2>1
<1>4. /\ \A x \in 1..n : all[x] = ls[x]
      /\ \A x \in n+1..n+m : all[x] = legs[x - n] /\ x - n \in 1..m
  <2> HIDE DEF S
  <2>1. legs \in Seq(Line) /\ Len(legs) = m
    BY <1>2
  <2> QED BY <1>2, <2>1
<1>5. Shaped(old) /\ DOMAIN old = 1..n /\ Shaped(new) /\ DOMAIN new = 1..(n + m)
  BY <1>3, RowsShaped
<1>6. \A x \in 1..n : new[x] = old[x]
  <2> SUFFICES ASSUME NEW x \in 1..n PROVE new[x] = old[x]
    OBVIOUS
  <2>1. x \in DOMAIN all /\ x \in DOMAIN ls
    BY <1>2, <1>3
  <2>2. new[x] = Stored(all[x]) /\ old[x] = Stored(ls[x])
    BY <2>1 DEF Rows
  <2> QED BY <1>4, <2>2
<1>7. \A i \in Instruments : moved[i] \in Int
  BY MovedSharesSums
<1>8. \A x \in n+1..n+m : \E i \in M :
         /\ legs[x - n] = ContraLeg(i, moved[i])
         /\ new[x].account = ContraOf[i] /\ new[x].amount = 0 /\ new[x].quantity = -moved[i]
  <2> SUFFICES ASSUME NEW x \in n+1..n+m
               PROVE \E i \in M : /\ legs[x - n] = ContraLeg(i, moved[i])
                     /\ new[x].account = ContraOf[i] /\ new[x].amount = 0
                     /\ new[x].quantity = -moved[i]
    OBVIOUS
  <2>1. legs[x - n] \in S
    BY <1>2, <1>4
  <2>2. PICK i \in M : legs[x - n] = ContraLeg(i, moved[i])
    BY <2>1 DEF LegSet
  <2>3. x \in DOMAIN all
    BY <1>2, <1>3
  <2>4. new[x] = Stored(ContraLeg(i, moved[i]))
    BY <1>4, <2>2, <2>3 DEF Rows
  <2>5. moved[i] \in Int /\ i \in Instruments
    BY <1>7
  <2> HIDE DEF moved, legs, new, all
  <2> QED BY <2>2, <2>4, <2>5, LegsStored
<1>9. \A i \in M : \E x \in n+1..n+m : legs[x - n] = ContraLeg(i, moved[i])
  <2> SUFFICES ASSUME NEW i \in M
               PROVE \E x \in n+1..n+m : legs[x - n] = ContraLeg(i, moved[i])
    OBVIOUS
  <2>1. ContraLeg(i, moved[i]) \in S
    BY DEF LegSet
  <2>2. PICK a \in 1..m : legs[a] = ContraLeg(i, moved[i])
    BY <1>2, <2>1
  <2>3. n + a \in n+1..n+m /\ (n + a) - n = a
    BY <1>2
  <2> QED BY <2>2, <2>3
<1>10. \A i \in Instruments : /\ ContraOf[i] \in Accounts /\ ContraOf[i] \in Dollars
                              /\ InstrumentOf[ContraOf[i]] = i /\ i # NoInstrument
  BY AccountsAssumption
<1>11. NoQuantity \notin Int
  BY LinesAssumption
<1>12. \A x \in 1..n : /\ old[x].account \in Accounts /\ old[x].amount \in Int
                       /\ old[x].quantity \in Int \cup {NoQuantity}
  BY <1>2, <1>5 DEF Shaped
<1>13. \A i \in Instruments : HeldLines(ls, i) = Group(old, i)
  <2>1. \A x \in 1..n : /\ old[x].account = ls[x].account
                        /\ old[x].quantity = StoredQuantity(ls[x].quantity)
    BY DEF Rows, Stored
  <2>2. \A x \in 1..n : ls[x].quantity = NoQuantity <=> old[x].quantity = NoQuantity
    <3> SUFFICES ASSUME NEW x \in 1..n
                 PROVE  ls[x].quantity = NoQuantity <=> old[x].quantity = NoQuantity
      OBVIOUS
    <3>1. ls[x].quantity \in Int \cup {NoQuantity}
      <4>1. ls[x] \in Line
        OBVIOUS
      <4> QED BY <4>1 DEF Line
    <3>2. CASE ls[x].quantity = NoQuantity
      BY <2>1, <3>2 DEF StoredQuantity
    <3>3. CASE ls[x].quantity \in Int
      BY <1>11, <2>1, <3>3, RoundType, LinesAssumption DEF StoredQuantity
    <3> QED BY <3>1, <3>2, <3>3
  <2>3. \A x \in 1..n : old[x].quantity # NoQuantity
                          => IsPosition(old[x]) /\ old[x].account \in Assets
    BY <1>5 DEF IsFill, QuantityFits
  <2> HIDE DEF old
  <2>4. DOMAIN ls = 1..n
    OBVIOUS
  <2> QED BY <1>5, <2>1, <2>2, <2>3, <2>4 DEF HeldLines, Group, IsPosition, Instrument
<1> HIDE DEF S, m, legs, n, all, old, new, moved, M
(* Money: the legs move none.                                              *)
<1>20. NetAmount(new) = 0
  <2> DEFINE f == [x \in DOMAIN new |-> new[x].amount]
             g == [x \in DOMAIN old |-> old[x].amount]
  <2>1. \A x \in 1..(n + m) : new[x].amount \in Int
    BY <1>2, <1>5 DEF Shaped
  <2>2. NetAmount(new) = SumFunctionOnSet(f, 1..(n + m)) /\ \A x \in 1..(n + m) : f[x] \in Int
    <3> DEFINE k == n + m
    <3>1. k \in Nat /\ DOMAIN new = 1..k /\ \A x \in 1..k : new[x].amount \in Int
      BY <1>2, <1>5, <2>1
    <3> HIDE DEF k
    <3>2. NetAmount(new) = SumFunction(f)
      BY <3>1, NetAmountSums
    <3> QED BY <1>5, <2>1, <3>2 DEF SumFunction
  <2>3. NetAmount(old) = SumFunctionOnSet(g, 1..n)
    <3>1. NetAmount(old) = SumFunction(g)
      BY <1>2, <1>5, <1>12, NetAmountSums
    <3> QED BY <1>5, <3>1 DEF SumFunction
  <2>4. /\ IsFiniteSet(1..n) /\ IsFiniteSet(n+1..n+m) /\ (1..n) \cap (n+1..n+m) = {}
        /\ (1..n) \cup (n+1..n+m) = 1..(n+m)
    <3>1. IsFiniteSet(1..n) /\ IsFiniteSet(n+1..n+m)
      BY <1>2, FS_Interval
    <3> QED BY <1>2, <3>1
  <2>5. \A x \in 1..n : f[x] = g[x]
    BY <1>2, <1>5, <1>6
  <2>6. \A x \in n+1..n+m : f[x] = 0
    BY <1>2, <1>5, <1>8
  <2> HIDE DEF f, g
  <2> DEFINE A == 1..n
             B == n+1..n+m
  <2>7. SumFunctionOnSet(f, 1..(n + m)) = SumFunctionOnSet(f, A) + SumFunctionOnSet(f, B)
    <3>1. A \cup B = 1..(n + m) /\ IsFiniteSet(A) /\ IsFiniteSet(B) /\ A \cap B = {}
      BY <2>4
    <3> HIDE DEF A, B
    <3>2. \A x \in A \cup B : f[x] \in Int
      BY <2>2, <3>1
    <3>3. SumFunctionOnSet(f, A \cup B) = SumFunctionOnSet(f, A) + SumFunctionOnSet(f, B)
      BY <3>1, <3>2, SumUnion
    <3> QED BY <3>1, <3>3
  <2>8. SumFunctionOnSet(f, 1..n) = SumFunctionOnSet(g, 1..n)
    BY <2>4, <2>5, SumSame
  <2>9. SumFunctionOnSet(f, n+1..n+m) = 0
    BY <2>4, <2>6, SumZero
  <2>10. NetAmount(old) = 0
    BY DEF IsFill, old
  <2>11. SumFunctionOnSet(f, 1..n) = 0
    BY <2>3, <2>8, <2>10
  <2>12. NetAmount(new) = SumFunctionOnSet(f, A) + SumFunctionOnSet(f, B)
    BY <2>2, <2>7
  <2>13. SumFunctionOnSet(f, A) = 0 /\ SumFunctionOnSet(f, B) = 0
    BY <2>9, <2>11
  <2> HIDE DEF A, B
  <2> QED BY <2>12, <2>13
(* Shares: each leg moves back what its instrument moved.                  *)
<1>30. \A i \in Instruments : NetShares(new)[i] = 0
  <2> SUFFICES ASSUME NEW i \in Instruments PROVE NetShares(new)[i] = 0
    OBVIOUS
  <2> DEFINE G == Group(old, i)
             T == {x \in n+1..n+m : new[x].account = ContraOf[i]}
             f == [x \in G \cup T |-> new[x].quantity]
  <2>1. Group(new, i) = G \cup T
    <3>1. \A x \in n+1..n+m : /\ Instrument(new[x]) = i <=> new[x].account = ContraOf[i]
                              /\ new[x].quantity # NoQuantity
      BY <1>7, <1>8, <1>10, <1>11 DEF Instrument, M
    <3>2. 1..(n+m) = (1..n) \cup (n+1..n+m)
      BY <1>2
    <3> QED BY <1>5, <1>6, <3>1, <3>2 DEF Group
  <2>2. IsFiniteSet(G) /\ IsFiniteSet(T) /\ G \cap T = {} /\ G \subseteq 1..n
    <3>1. G \in SUBSET (1..n) /\ T \in SUBSET (n+1..n+m)
      BY <1>5 DEF Group
    <3>2. IsFiniteSet(1..n) /\ IsFiniteSet(n+1..n+m) /\ (1..n) \cap (n+1..n+m) = {}
      <4>1. IsFiniteSet(1..n) /\ IsFiniteSet(n+1..n+m)
        BY <1>2, FS_Interval
      <4> QED BY <1>2, <4>1
    <3> HIDE DEF G, T
    <3> QED BY <3>1, <3>2, FS_Subset
  <2>3. \A x \in G : f[x] = QuantitiesOf(ls)[x]
    <3>1. \A x \in 1..n : old[x].quantity = QuantitiesOf(ls)[x]
      BY DEF old, n, Rows, Stored, QuantitiesOf
    <3> QED BY <1>6, <2>2, <3>1
  <2>4. \A x \in G \cup T : f[x] \in Int
    <3>1. \A x \in G : new[x].quantity \in Int
      BY <1>5, <1>6, <1>12 DEF Group
    <3>2. \A x \in T : new[x].quantity \in Int
      BY <1>7, <1>8 DEF M
    <3> QED BY <3>1, <3>2
  <2>5. NetShares(new)[i] = SumFunctionOnSet(f, G \cup T)
    <3>1. NetShares(new)[i] = SumFunction([x \in Group(new, i) |-> new[x].quantity])
      BY <1>5, NetSharesSums
    <3>2. NetShares(new)[i] = SumFunction(f)
      BY <2>1, <3>1
    <3> QED BY <3>2 DEF SumFunction
  <2>6. SumFunctionOnSet(f, G) = moved[i]
    <3>1. moved[i] = SumFunctionOnSet(QuantitiesOf(ls), G)
      BY <1>13, MovedSharesSums DEF moved
    <3> HIDE DEF f, G
    <3>2. SumFunctionOnSet(f, G) = SumFunctionOnSet(QuantitiesOf(ls), G)
      BY <2>2, <2>3, SumSame
    <3> QED BY <3>1, <3>2
  <2>7. moved[i] + SumFunctionOnSet(f, T) = 0
    <3>1. CASE i \notin M
      <4>1. T = {}
        BY <1>8, <1>10, <3>1 DEF M
      <4>2. moved[i] = 0
        BY <3>1 DEF M
      <4>3. SumFunctionOnSet(f, T) = 0
        BY <4>1, SumEmpty
      <4> HIDE DEF f, T
      <4> QED BY <4>2, <4>3
    <3>2. CASE i \in M
      <4>1. PICK x \in n+1..n+m : legs[x - n] = ContraLeg(i, moved[i])
        BY <1>9, <3>2
      <4>2. new[x].account = ContraOf[i] /\ new[x].quantity = -moved[i]
        <5>1. PICK j \in M : /\ legs[x - n] = ContraLeg(j, moved[j])
                             /\ new[x].account = ContraOf[j] /\ new[x].quantity = -moved[j]
          BY <1>8
        <5>2. ContraOf[i] = ContraOf[j]
          BY <4>1, <5>1 DEF ContraLeg
        <5>3. i = j
          BY <1>10, <5>2 DEF M
        <5> QED BY <5>1, <5>3
      <4>3. ASSUME NEW y \in n+1..n+m, new[y].account = ContraOf[i] PROVE y = x
        <5>1. PICK j \in M : legs[y - n] = ContraLeg(j, moved[j]) /\ new[y].account = ContraOf[j]
          BY <1>8
        <5>2. i = j
          BY <1>10, <4>3, <5>1 DEF M
        <5>3. y - n = x - n
          BY <1>2, <1>4, <4>1, <5>1, <5>2
        <5> QED BY <1>2, <5>3
      <4>4. T = {x}
        BY <4>2, <4>3
      <4>5. f[x] = -moved[i] /\ f[x] \in Int
        BY <2>4, <4>2, <4>4
      <4> HIDE DEF f, T
      <4>6. SumFunctionOnSet(f, T) = -moved[i]
        BY <4>4, <4>5, SumSingle
      <4> QED BY <1>7, <4>6
    <3> QED BY <3>1, <3>2
  <2> HIDE DEF f, G, T
  <2>8. SumFunctionOnSet(f, G \cup T) = SumFunctionOnSet(f, G) + SumFunctionOnSet(f, T)
    BY <2>2, <2>4, SumUnion
  <2> QED BY <1>7, <2>5, <2>6, <2>7, <2>8
(* Lines: old ones as before, legs on a contra account in dollars.         *)
<1>40. Len(new) >= 2
  <2>1. Len(old) = n /\ Len(new) = n + m
    BY <1>2, <1>3 DEF old, new, Rows, n, all
  <2> QED BY <1>2, <2>1 DEF IsFill, old
<1>41. \A x \in DOMAIN new :
          Moves(new[x]) /\ new[x].account \in Dollars /\ QuantityFits(new[x])
  <2> SUFFICES ASSUME NEW x \in 1..(n + m)
               PROVE  Moves(new[x]) /\ new[x].account \in Dollars /\ QuantityFits(new[x])
    BY <1>5
  <2>1. CASE x \in 1..n
    <3>1. Moves(old[x]) /\ old[x].account \in Dollars /\ QuantityFits(old[x])
      BY <1>5, <2>1 DEF IsFill, old
    <3> QED BY <1>6, <2>1, <3>1
  <2>2. CASE x \in n+1..n+m
    <3>1. PICK i \in M : /\ new[x].account = ContraOf[i] /\ new[x].amount = 0
                         /\ new[x].quantity = -moved[i]
      BY <1>8, <2>2
    <3>2. new[x].quantity # 0 /\ new[x].quantity # NoQuantity
      BY <1>7, <1>11, <3>1 DEF M
    <3>3. IsPosition(new[x]) /\ new[x].account \in Dollars
      BY <1>10, <3>1 DEF IsPosition, Instrument, M
    <3> QED BY <3>2, <3>3 DEF Moves, QuantityFits
  <2> QED BY <1>2, <2>1, <2>2
<1> QED BY <1>1, <1>20, <1>30, <1>40, <1>41 DEF Accepted, new

-----------------------------------------------------------------------------
(* post_entry foresees what Postgres refuses.                              *)
LinesTyped == lines \in Seq(Line)

LEMMA LinesStart == BooksInit => LinesTyped
BY LinesAssumption DEF BooksInit, Init, LinesTyped

LEMMA LinesKept == LinesTyped /\ [BooksNext]_booksVars => LinesTyped'
<1> SUFFICES ASSUME LinesTyped, [BooksNext]_booksVars PROVE LinesTyped'
  OBVIOUS
<1>1. CASE lines' = lines
  BY <1>1 DEF LinesTyped
<1>2. CASE lines' = ConserveShares(lines)
  BY <1>2, ConservedLines DEF LinesTyped
<1>3. lines' = lines \/ lines' = ConserveShares(lines)
  BY DEF BooksNext, booksVars, OldPost, BackfillFingerprints, BackfillShareContras,
         EnforceConservation, NewConserve, NewPost, CheckInvariants, Elapse, Conserve, Post
<1> QED BY <1>1, <1>2, <1>3

LEMMA ForeseesKept ==
    LinesTyped /\ ServiceForesees /\ [BooksNext]_booksVars => ServiceForesees'
<1> SUFFICES ASSUME LinesTyped, ServiceForesees, [BooksNext]_booksVars PROVE ServiceForesees'
  OBVIOUS
<1>1. CASE Post
  <2>1. Accepted(Rows(lines)) => CommitSucceeds(Rows(lines))
    BY RowsShaped, AcceptedCommits DEF LinesTyped
  <2> QED BY <1>1, <2>1 DEF Post, ServiceForesees
<1>2. CASE Conserve
  BY <1>2 DEF Conserve, ServiceForesees
<1>3. CASE OldPost
  BY <1>3 DEF OldPost, ServiceForesees
<1>4. CASE stage' = stage
  BY <1>4 DEF ServiceForesees
<1>5. Post \/ Conserve \/ OldPost \/ stage' = stage
  BY DEF BooksNext, booksVars, BackfillFingerprints, BackfillShareContras,
         EnforceConservation, NewConserve, NewPost, CheckInvariants, Elapse
<1> QED BY <1>1, <1>2, <1>3, <1>4, <1>5

(* No list of lines that post_entry lets through is refused at COMMIT: the *)
(* loops of the service and the SUMs of the triggers agree for any lines,  *)
(* accounts and rounding.                                                  *)
THEOREM ServiceForeseesHolds == BooksSpec => []ServiceForesees
<1>1. BooksInit => ServiceForesees
  BY DEF BooksInit, Init, ServiceForesees
<1> QED BY <1>1, LinesStart, LinesKept, ForeseesKept, PTL DEF BooksSpec

(* Whatever a fill moves, in any number of instruments, its completion is  *)
(* accepted.                                                               *)
THEOREM CompletionsAreAccepted == BooksSpec => CompletedFillIsAccepted
<1>1. ASSUME LinesTyped, [BooksNext]_booksVars
      PROVE  [stage = "built" /\ stage' = "conserved" /\ IsFill(Rows(lines))
                => Accepted(Rows(lines'))]_vars
  <2> SUFFICES ASSUME stage = "built", stage' = "conserved", IsFill(Rows(lines))
               PROVE  Accepted(Rows(lines'))
    OBVIOUS
  <2>1. Conserve
    BY <1>1 DEF BooksNext, booksVars, OldPost, BackfillFingerprints, BackfillShareContras,
         EnforceConservation, NewConserve, NewPost, CheckInvariants, Elapse, Post
  <2> QED BY <1>1, <2>1, FillCompleted DEF Conserve, LinesTyped
<1> QED BY <1>1, LinesStart, LinesKept, PTL DEF BooksSpec, CompletedFillIsAccepted

-----------------------------------------------------------------------------
(* The entries.                                                            *)
Row == [account : Accounts, amount : Int, quantity : Int \cup {NoQuantity}, at : 0..MaxTime]
AskedTransfer == Accounts \X Accounts \X Int
AskedOrder == {"order"} \X Seq(Line)
Asked == AskedTransfer \cup AskedOrder \cup {NoRequest}
EntryRecord ==
    [rows : Seq(Row), key : {"order", "transfer", NoKey}, request : Asked, digest : Asked]

(* The lines of an entry are of one instant and add up to no money.        *)
OneInstant(rows) == \E t \in 0..MaxTime : \A n \in DOMAIN rows : rows[n].at = t
Sound(e) == OneInstant(e.rows) /\ EntryBalanced(e.rows)

Conserved(e) == \A i \in Instruments \cup {NoInstrument} : Shares(e.rows, i) = 0

(* Before migration 0006 a keyed entry has no digest and its request can   *)
(* be recovered; from then on the digest is that of its request.           *)
Recoverable(e) ==
    \/ e.key = "order"
    \/ /\ e.key = "transfer" /\ DOMAIN e.rows = 1..2
       /\ e.rows[1].amount < 0 /\ e.rows[2].amount > 0
       /\ e.request = <<e.rows[1].account, e.rows[2].account, -e.rows[1].amount>>
Keyed(e, s) ==
    e.key # NoKey => IF s = "0005" THEN e.digest = NoRequest /\ Recoverable(e)
                     ELSE e.digest = e.request

GoodEntry(e, s) ==
    e \in EntryRecord /\ Sound(e) /\ (s = "0009" => Conserved(e)) /\ Keyed(e, s)

Reported ==
    report.schema = "0009" =>
        /\ schema = "0009"
        /\ \A v \in report.found : v[1] \in {"negative_asset_balance", "negative_holding"}

BooksInv ==
    /\ LinesTyped /\ now \in 0..MaxTime
    /\ books \in Seq(EntryRecord) /\ \A n \in DOMAIN books : GoodEntry(books[n], schema)
    /\ Reported

(* What an entry stores of its lines is what post_entry judged.            *)
LEMMA EntryRows ==
  ASSUME NEW ls \in Seq(Line), NEW t \in 0..MaxTime, NEW key, NEW d \in BOOLEAN
  PROVE  LET e == Entry(ls, t, key, d)
         IN  /\ DOMAIN e.rows = 1..Len(ls) /\ DOMAIN Rows(ls) = 1..Len(ls)
             /\ e.rows \in Seq(Row)
             /\ \A n \in 1..Len(ls) : /\ e.rows[n].account = Rows(ls)[n].account
                                      /\ e.rows[n].amount = Rows(ls)[n].amount
                                      /\ e.rows[n].quantity = Rows(ls)[n].quantity
                                      /\ e.rows[n].at = t
             /\ OneInstant(e.rows)
             /\ e.key = key /\ e.request = Request(ls, key)
             /\ e.digest = IF d THEN Request(ls, key) ELSE NoRequest
<1> DEFINE rs == [n \in DOMAIN ls |-> Stamped(Stored(ls[n]), t)]
           e == Entry(ls, t, key, d)
<1>1. e.rows = rs /\ e.key = key /\ e.request = Request(ls, key)
      /\ e.digest = IF d THEN Request(ls, key) ELSE NoRequest
  BY DEF Entry
<1>2. DOMAIN rs = 1..Len(ls) /\ DOMAIN Rows(ls) = 1..Len(ls) /\ Shaped(Rows(ls)) /\ Len(ls) \in Nat
  BY RowsShaped
<1>3. \A n \in 1..Len(ls) : /\ rs[n].account = Rows(ls)[n].account
                            /\ rs[n].amount = Rows(ls)[n].amount
                            /\ rs[n].quantity = Rows(ls)[n].quantity
                            /\ rs[n].at = t
  BY DEF Rows, Stamped
<1>4. ASSUME NEW n \in 1..Len(ls) PROVE rs[n] \in Row
  <2>1. /\ Rows(ls)[n].account \in Accounts /\ Rows(ls)[n].amount \in Int
        /\ Rows(ls)[n].quantity \in Int \cup {NoQuantity}
    BY <1>2 DEF Shaped
  <2>2. rs[n] = Stamped(Rows(ls)[n], t)
    BY DEF Rows
  <2> HIDE DEF rs
  <2> QED BY <2>1, <2>2 DEF Row, Stamped
<1> HIDE DEF rs, e
<1>5. rs \in Seq(Row)
  <2>1. rs \in [1..Len(ls) -> Row]
    <3>1. rs = [n \in 1..Len(ls) |-> rs[n]]
      BY <1>2 DEF rs
    <3> QED BY <1>4, <3>1
  <2> QED BY <1>2, <2>1
<1>6. OneInstant(rs)
  BY <1>2, <1>3 DEF OneInstant
<1> QED BY <1>1, <1>2, <1>3, <1>5, <1>6 DEF e

(* Sums over rows that agree are the same.                                 *)
LEMMA SameBalance ==
  ASSUME NEW rows, NEW old, DOMAIN rows = DOMAIN old,
         \A n \in DOMAIN old : rows[n].amount = old[n].amount
  PROVE  EntryBalanced(rows) <=> EntryBalanced(old)
<1>1. [n \in DOMAIN rows |-> rows[n].amount] = [n \in DOMAIN old |-> old[n].amount]
  OBVIOUS
<1> QED BY <1>1 DEF EntryBalanced

LEMMA SameShares ==
  ASSUME NEW rows, NEW old, DOMAIN rows = DOMAIN old,
         \A n \in DOMAIN old : /\ rows[n].account = old[n].account
                               /\ rows[n].quantity = old[n].quantity,
         EntryConservesShares(old), NEW i \in Instruments \cup {NoInstrument}
  PROVE  SumFunction([n \in Group(rows, i) |-> rows[n].quantity]) = 0
<1>1. Group(rows, i) = Group(old, i)
  BY DEF Group, Instrument
<1>2. [n \in Group(rows, i) |-> rows[n].quantity] = [n \in Group(old, i) |-> old[n].quantity]
  BY <1>1 DEF Group
<1>3. SumFunction([n \in Group(old, i) |-> old[n].quantity]) = 0
  BY DEF EntryConservesShares, Group
<1> QED BY <1>2, <1>3

(* All shares of an entry were moved before the end of time.               *)
LEMMA AllShares ==
  ASSUME NEW rows \in Seq(Row), NEW i
  PROVE  Shares(rows, i) = SumFunction([n \in Group(rows, i) |-> rows[n].quantity])
<1>1. \A n \in DOMAIN rows : rows[n].at < MaxTime + 1
  <2> TAKE n \in DOMAIN rows
  <2>1. rows[n] \in Row
    OBVIOUS
  <2> QED BY <2>1, PastAssumption DEF Row
<1>2. Group(rows, i) = {n \in DOMAIN rows : Instrument(rows[n]) = i /\ rows[n].at < MaxTime + 1
                                            /\ rows[n].quantity # NoQuantity}
  BY <1>1 DEF Group
<1> QED BY <1>2 DEF Shares, SharesBefore

(* An entry of one instant that conserves shares does so at any instant.   *)
LEMMA ConservedAlways ==
  ASSUME NEW e, e.rows \in Seq(Row), OneInstant(e.rows), Conserved(e),
         NEW i \in Instruments, NEW t \in 0..MaxTime + 1
  PROVE  SharesBefore(e.rows, i, t) = 0
<1> DEFINE rows == e.rows
           Early(u) == {n \in DOMAIN rows : Instrument(rows[n]) = i /\ rows[n].at < u
                                            /\ rows[n].quantity # NoQuantity}
<1>1. PICK u \in 0..MaxTime : \A n \in DOMAIN rows : rows[n].at = u
  BY DEF OneInstant
<1>2. SharesBefore(rows, i, MaxTime + 1) = 0
  BY DEF Conserved, Shares
<1>3. \A x : SharesBefore(rows, i, x) = SumFunction([n \in Early(x) |-> rows[n].quantity])
  BY DEF SharesBefore
<1>4. CASE u < t
  <2>1. Early(t) = Early(MaxTime + 1)
    BY <1>1, <1>4, PastAssumption
  <2> HIDE DEF Early, rows
  <2>2. SharesBefore(rows, i, t) = SharesBefore(rows, i, MaxTime + 1)
    BY <1>3, <2>1
  <2> QED BY <1>2, <2>2 DEF rows
<1>5. CASE ~(u < t)
  <2>1. Early(t) = {}
    BY <1>1, <1>5
  <2> DEFINE f == [n \in Early(t) |-> rows[n].quantity]
  <2>2. SumFunction(f) = SumFunctionOnSet(f, Early(t))
    BY DEF SumFunction
  <2> HIDE DEF Early, rows, f
  <2>3. SumFunctionOnSet(f, {}) = 0
    BY SumEmpty
  <2> QED BY <1>3, <2>1, <2>2, <2>3 DEF f, rows
<1> QED BY <1>4, <1>5

-----------------------------------------------------------------------------
(* What a key was spent on.                                                *)
LEMMA RequestOf ==
  ASSUME NEW ls \in Seq(Line), NEW key \in KeysOf(ls)
  PROVE  /\ key \in {"order", "transfer", NoKey}
         /\ Request(ls, key) \in Asked
         /\ key = "transfer" => /\ IsTransfer(ls)
                                /\ Request(ls, key) = <<ls[1].account, ls[2].account,
                                                        -Rows(ls)[1].amount>>
<1>1. key \in {"order", "transfer", NoKey} /\ (key = "transfer" => IsTransfer(ls))
  BY PastAssumption DEF KeysOf
<1>2. key = "transfer" => Request(ls, key) = <<ls[1].account, ls[2].account, -Rows(ls)[1].amount>>
  BY DEF Request
<1>3. CASE key = "transfer"
  <2>1. Len(ls) = 2 /\ Shaped(Rows(ls)) /\ DOMAIN Rows(ls) = 1..Len(ls)
    BY <1>1, <1>3, RowsShaped DEF IsTransfer
  <2>2. Rows(ls)[1].amount \in Int
    BY <2>1 DEF Shaped
  <2>3. ls[1] \in Line /\ ls[2] \in Line
    BY <2>1
  <2>4. ls[1].account \in Accounts /\ ls[2].account \in Accounts
    BY <2>3 DEF Line
  <2>5. -Rows(ls)[1].amount \in Int
    BY <2>2
  <2>6. Request(ls, key) \in AskedTransfer
    BY <1>2, <1>3, <2>4, <2>5 DEF AskedTransfer
  <2> QED BY <1>1, <1>2, <1>3, <2>6 DEF Asked
<1>4. CASE key = "order"
  <2>1. Request(ls, key) = <<"order", ls>>
    BY <1>4 DEF Request
  <2>2. <<"order", ls>> \in AskedOrder
    BY DEF AskedOrder
  <2> QED BY <1>4, <2>1, <2>2 DEF Asked
<1>5. CASE key # "order" /\ key # "transfer"
  <2>1. Request(ls, key) = NoRequest
    BY <1>5 DEF Request
  <2> QED BY <1>1, <1>5, <2>1 DEF Asked
<1>6. Request(ls, key) \in Asked
  BY <1>3, <1>4, <1>5
<1> QED BY <1>1, <1>2, <1>6

LEMMA EntryTyped ==
  ASSUME NEW ls \in Seq(Line), NEW t \in 0..MaxTime, NEW key \in KeysOf(ls), NEW d \in BOOLEAN
  PROVE  Entry(ls, t, key, d) \in EntryRecord
<1>1. /\ Entry(ls, t, key, d).rows \in Seq(Row)
      /\ Entry(ls, t, key, d).key \in {"order", "transfer", NoKey}
      /\ Entry(ls, t, key, d).request \in Asked
      /\ Entry(ls, t, key, d).digest \in Asked
  <2>1. NoRequest \in Asked
    BY DEF Asked
  <2> QED BY <2>1, EntryRows, RequestOf
<1> QED BY <1>1 DEF Entry, EntryRecord

(* A transfer that was posted: one line out, one line in.                  *)
LEMMA TransferRows ==
  ASSUME NEW ls \in Seq(Line), IsTransfer(ls), NEW t \in 0..MaxTime, NEW d \in BOOLEAN,
         EntryBalanced(Entry(ls, t, "transfer", d).rows), "transfer" \in KeysOf(ls)
  PROVE  Recoverable(Entry(ls, t, "transfer", d))
<1> DEFINE e == Entry(ls, t, "transfer", d)
           f == [n \in DOMAIN e.rows |-> e.rows[n].amount]
<1>1. /\ DOMAIN e.rows = 1..2 /\ e.rows \in Seq(Row) /\ e.key = "transfer"
      /\ e.request = <<ls[1].account, ls[2].account, -Rows(ls)[1].amount>>
      /\ \A n \in 1..2 : /\ e.rows[n].account = Rows(ls)[n].account
                         /\ e.rows[n].amount = Rows(ls)[n].amount
  BY EntryRows, RequestOf DEF IsTransfer
<1>2. Rows(ls)[1].account = ls[1].account /\ Rows(ls)[2].account = ls[2].account
  BY DEF Rows, Stored, IsTransfer
<1>3. e.rows[1].amount < 0
  BY <1>1 DEF IsTransfer
<1>4. f[1] \in Int /\ f[2] \in Int
  <2>1. e.rows[1] \in Row /\ e.rows[2] \in Row
    BY <1>1
  <2> QED BY <1>1, <2>1 DEF Row
<1>5. f[1] = e.rows[1].amount /\ f[2] = e.rows[2].amount
  BY <1>1
<1>6. SumFunctionOnSet(f, {1, 2}) = 0
  <2>1. SumFunction(f) = 0
    BY DEF EntryBalanced
  <2>2. DOMAIN f = {1, 2}
    BY <1>1
  <2> HIDE DEF f
  <2> QED BY <2>1, <2>2 DEF SumFunction
<1> HIDE DEF f, e
<1>7. SumFunctionOnSet(f, {1, 2}) = f[1] + f[2]
  <2>1. IsFiniteSet({1}) /\ IsFiniteSet({2}) /\ {1} \cap {2} = {} /\ {1} \cup {2} = {1, 2}
    <3>1. IsFiniteSet({1}) /\ IsFiniteSet({2})
      BY FS_Singleton
    <3> QED BY <3>1
  <2>2. \A x \in {1} \cup {2} : f[x] \in Int
    BY <1>4
  <2>3. SumFunctionOnSet(f, {1} \cup {2}) = SumFunctionOnSet(f, {1}) + SumFunctionOnSet(f, {2})
    BY <2>1, <2>2, SumUnion
  <2>4. SumFunctionOnSet(f, {1}) = f[1] /\ SumFunctionOnSet(f, {2}) = f[2]
    BY <1>4, SumSingle
  <2> QED BY <2>1, <2>3, <2>4
<1>8. e.rows[2].amount > 0
  BY <1>3, <1>4, <1>5, <1>6, <1>7
<1> QED BY <1>1, <1>2, <1>3, <1>8 DEF Recoverable, e

(* What the signs of a transfer's rows say.                                *)
LEMMA RecoveredRequest ==
  ASSUME NEW e \in EntryRecord, Recoverable(e)
  PROVE  Recovered(e) = e.request
<1>1. CASE e.key = "order"
  BY <1>1 DEF Recovered
<1>2. CASE e.key # "order"
  <2>1. /\ DOMAIN e.rows = 1..2 /\ e.rows[1].amount < 0 /\ e.rows[2].amount > 0
        /\ e.request = <<e.rows[1].account, e.rows[2].account, -e.rows[1].amount>>
    BY <1>2 DEF Recoverable
  <2>2. e.rows[1].amount \in Int /\ e.rows[2].amount \in Int
    <3>1. e.rows \in Seq(Row)
      BY DEF EntryRecord
    <3>2. e.rows[1] \in Row /\ e.rows[2] \in Row
      BY <2>1, <3>1
    <3> QED BY <3>2 DEF Row
  <2>3. (CHOOSE n \in DOMAIN e.rows : e.rows[n].amount < 0) = 1
    <3>1. \A n \in DOMAIN e.rows : e.rows[n].amount < 0 <=> n = 1
      BY <2>1, <2>2
    <3>2. 1 \in DOMAIN e.rows
      BY <2>1
    <3> QED BY <3>1, <3>2
  <2>4. (CHOOSE n \in DOMAIN e.rows : e.rows[n].amount > 0) = 2
    <3>1. \A n \in DOMAIN e.rows : e.rows[n].amount > 0 <=> n = 2
      BY <2>1, <2>2
    <3>2. 2 \in DOMAIN e.rows
      BY <2>1
    <3> QED BY <3>1, <3>2
  <2> QED BY <1>2, <2>1, <2>3, <2>4 DEF Recovered
<1> QED BY <1>1, <1>2

-----------------------------------------------------------------------------
(* The invariant at the start.                                             *)
LEMMA SequenceOf ==
  ASSUME NEW S, NEW n \in Nat, NEW f \in [1..n -> S]
  PROVE  f \in Seq(S)
OBVIOUS

LEMMA PostedIsBalanced ==
  ASSUME NEW rows, Shaped(rows), NetAmount(rows) = 0
  PROVE  EntryBalanced(rows)
<1>1. PICK n \in Nat : DOMAIN rows = 1..n /\ \A x \in 1..n : rows[x].amount \in Int
  BY DEF Shaped
<1> QED BY <1>1, NetAmountSums DEF EntryBalanced

LEMMA BooksStart == BooksInit => BooksInv
<1> SUFFICES ASSUME BooksInit PROVE BooksInv
  OBVIOUS
<1>1. LinesTyped
  BY LinesStart
<1>2. /\ schema = "0005" /\ now = 0 /\ now \in 0..MaxTime
      /\ report.schema = "0005"
  BY PastAssumption DEF BooksInit
<1>3a. PICK past \in Past :
         books \in {[n \in DOMAIN past |-> Entry(past[n], 0, keys[n], FALSE)] :
                       keys \in {k \in [DOMAIN past -> {"order", "transfer", NoKey}] :
                                    \A n \in DOMAIN past : k[n] \in KeysOf(past[n])}}
  BY DEF BooksInit
<1>3. PICK keys \in [DOMAIN past -> {"order", "transfer", NoKey}] :
         /\ \A n \in DOMAIN past : keys[n] \in KeysOf(past[n])
         /\ books = [n \in DOMAIN past |-> Entry(past[n], 0, keys[n], FALSE)]
  BY <1>3a
<1>4. past \in Seq(Seq(Line)) /\ DOMAIN past = 1..Len(past) /\ Len(past) \in Nat
  BY PastAssumption
<1>5. ASSUME NEW n \in DOMAIN past
      PROVE  /\ Entry(past[n], 0, keys[n], FALSE) \in EntryRecord
             /\ GoodEntry(Entry(past[n], 0, keys[n], FALSE), "0005")
  <2> DEFINE ls == past[n]
             e == Entry(ls, 0, keys[n], FALSE)
  <2>1. ls \in Seq(Line) /\ keys[n] \in KeysOf(ls) /\ 0 \in 0..MaxTime
    BY <1>3, <1>4, <1>5, PastAssumption
  <2>2. e \in EntryRecord
    BY <2>1, EntryTyped
  <2>3. EntryBalanced(Rows(ls))
    <3>1. NetAmount(Rows(ls)) = 0
      BY HistoriesAssumption DEF OldAccepted, IsFill
    <3> QED BY <2>1, <3>1, RowsShaped, PostedIsBalanced
  <2>4. OneInstant(e.rows) /\ EntryBalanced(e.rows) /\ e.key = keys[n]
    <3>1. /\ OneInstant(e.rows) /\ e.key = keys[n] /\ DOMAIN e.rows = 1..Len(ls)
          /\ DOMAIN Rows(ls) = 1..Len(ls)
          /\ \A k \in 1..Len(ls) : e.rows[k].amount = Rows(ls)[k].amount
      <4> HIDE DEF ls
      <4> DEFINE key == keys[n]
                 d == FALSE
      <4>1. key \in KeysOf(ls) /\ ls \in Seq(Line) /\ 0 \in 0..MaxTime /\ d \in BOOLEAN
        BY <2>1
      <4> HIDE DEF key, d
      <4>2. /\ OneInstant(Entry(ls, 0, key, d).rows) /\ Entry(ls, 0, key, d).key = key
            /\ DOMAIN Entry(ls, 0, key, d).rows = 1..Len(ls)
            /\ DOMAIN Rows(ls) = 1..Len(ls)
            /\ \A j \in 1..Len(ls) : Entry(ls, 0, key, d).rows[j].amount = Rows(ls)[j].amount
        BY <4>1, EntryRows
      <4> QED BY <4>2 DEF key, d
    <3> HIDE DEF e, ls
    <3> QED BY <2>3, <3>1, SameBalance
  <2>5. Keyed(e, "0005")
    <3>1. SUFFICES ASSUME keys[n] # NoKey PROVE Recoverable(e)
      <4>1. e.digest = NoRequest
        BY DEF Entry
      <4> QED BY <2>4, <4>1 DEF Keyed
    <3>2. CASE keys[n] = "order"
      BY <2>4, <3>2 DEF Recoverable
    <3>3. CASE keys[n] = "transfer"
      BY <2>1, <2>4, <3>3, RequestOf, TransferRows
    <3> QED BY <3>1, <3>2, <3>3
  <2> QED BY <2>2, <2>4, <2>5 DEF GoodEntry, Sound
<1>6. books \in Seq(EntryRecord)
  <2>1. books \in [1..Len(past) -> EntryRecord]
    BY <1>3, <1>4, <1>5
  <2> QED BY <1>4, <2>1, SequenceOf
<1>7. \A n \in DOMAIN books : GoodEntry(books[n], schema)
  BY <1>2, <1>3, <1>5
<1> QED BY <1>1, <1>2, <1>6, <1>7 DEF BooksInv, Reported

-----------------------------------------------------------------------------
(* The invariant through each step.                                        *)
LEMMA EntryJoins ==
  ASSUME BooksInv, NEW e, GoodEntry(e, schema)
  PROVE  /\ Append(books, e) \in Seq(EntryRecord)
         /\ \A n \in DOMAIN Append(books, e) : GoodEntry(Append(books, e)[n], schema)
<1>1. e \in EntryRecord /\ books \in Seq(EntryRecord)
  BY DEF GoodEntry, BooksInv
<1>2. \A n \in DOMAIN books : GoodEntry(books[n], schema)
  BY DEF BooksInv
<1> HIDE DEF GoodEntry, EntryRecord
<1>3. \A n \in DOMAIN Append(books, e) : Append(books, e)[n] = e \/
         (n \in DOMAIN books /\ Append(books, e)[n] = books[n])
  BY <1>1
<1> QED BY <1>1, <1>2, <1>3

LEMMA NewEntry ==
  ASSUME NEW ls \in Seq(Line), NEW t \in 0..MaxTime, NEW key \in KeysOf(ls), NEW d \in BOOLEAN,
         NEW s, EntryBalanced(Entry(ls, t, key, d).rows),
         s = "0009" => EntryConservesShares(Entry(ls, t, key, d).rows),
         s = "0005" => Entry(ls, t, key, d).digest = NoRequest,
         s # "0005" => key = NoKey \/ Entry(ls, t, key, d).digest = Request(ls, key)
  PROVE  GoodEntry(Entry(ls, t, key, d), s)
<1> DEFINE e == Entry(ls, t, key, d)
<1>1. e \in EntryRecord
  BY EntryTyped
<1>2. /\ OneInstant(e.rows) /\ e.key = key /\ e.rows \in Seq(Row)
      /\ e.request = Request(ls, key)
      /\ e.digest = IF d THEN Request(ls, key) ELSE NoRequest
  BY EntryRows
<1>3. key \in {"order", "transfer", NoKey} /\ (key = "transfer" => IsTransfer(ls))
  BY RequestOf
<1>4. s = "0009" => Conserved(e)
  <2> SUFFICES ASSUME s = "0009", NEW i \in Instruments \cup {NoInstrument}
               PROVE  Shares(e.rows, i) = 0
    BY DEF Conserved
  <2>1. SumFunction([n \in Group(e.rows, i) |-> e.rows[n].quantity]) = 0
    <3> HIDE DEF e
    <3>1. EntryConservesShares(e.rows)
      BY DEF e
    <3> QED BY <3>1 DEF EntryConservesShares, Group
  <2> HIDE DEF e
  <2> QED BY <1>2, <2>1, AllShares
<1>5. Keyed(e, s)
  <2> SUFFICES ASSUME key # NoKey PROVE Keyed(e, s)
    BY <1>2 DEF Keyed
  <2>1. CASE s # "0005"
    BY <1>2, <2>1 DEF Keyed
  <2>2. CASE s = "0005"
    <3>1. Recoverable(e)
      <4>1. CASE key = "order"
        BY <1>2, <4>1 DEF Recoverable
      <4>2. CASE key = "transfer"
        BY <1>3, <4>2, TransferRows
      <4> QED BY <1>3, <4>1, <4>2
    <3> QED BY <2>2, <3>1 DEF Keyed
  <2> QED BY <2>1, <2>2
<1> QED BY <1>1, <1>2, <1>4, <1>5 DEF GoodEntry, Sound

LEMMA OldPostKept == ASSUME BooksInv, OldPost PROVE BooksInv'
<1>1. LinesTyped' /\ now' \in 0..MaxTime /\ Reported'
  BY DEF BooksInv, OldPost, LinesTyped, Reported
<1>2. CASE books' = books
  BY <1>1, <1>2 DEF BooksInv, OldPost
<1>3. CASE books' # books
  <2>1. PICK key \in KeysOf(lines), d \in {schema # "0005", FALSE} :
          LET e == Entry(lines, now, key, d)
          IN  OldCommits(e) /\ books' = Append(books, e)
    BY <1>3 DEF OldPost
  <2>2. d \in BOOLEAN /\ lines \in Seq(Line) /\ now \in 0..MaxTime
    BY DEF BooksInv, LinesTyped
  <2> DEFINE e == Entry(lines, now, key, d)
  <2>3. OldCommits(e) /\ books' = Append(books, e)
    BY <2>1
  <2>4. /\ EntryBalanced(e.rows)
        /\ schema = "0009" => EntryConservesShares(e.rows)
        /\ schema # "0005" => e.key = NoKey \/ e.digest # NoRequest
        /\ schema = "0005" => d = FALSE
    BY <2>3 DEF OldCommits
  <2>5. e.key = key /\ e.digest = IF d THEN Request(lines, key) ELSE NoRequest
    BY DEF Entry
  <2>6. GoodEntry(e, schema)
    BY <2>2, <2>4, <2>5, NewEntry
  <2>7. schema' = schema
    BY DEF OldPost
  <2> HIDE DEF e
  <2>8. /\ books' \in Seq(EntryRecord)
        /\ \A n \in DOMAIN books' : GoodEntry(books'[n], schema')
    BY <2>3, <2>6, <2>7, EntryJoins
  <2> QED BY <1>1, <2>8 DEF BooksInv
<1> QED BY <1>2, <1>3

LEMMA NewPostKept == ASSUME BooksInv, NewPost PROVE BooksInv'
<1>1. LinesTyped' /\ now' \in 0..MaxTime /\ Reported' /\ schema' = schema /\ schema = "0009"
  BY DEF BooksInv, NewPost, Post, LinesTyped, Reported
<1>2. CASE books' = books
  BY <1>1, <1>2 DEF BooksInv
<1>3. CASE books' # books
  <2>1. PICK key \in KeysOf(lines) : /\ stage' = "posted"
                                     /\ books' = Append(books, Entry(lines, now, key, TRUE))
    BY <1>3 DEF NewPost
  <2> DEFINE d == TRUE
             e == Entry(lines, now, key, d)
  <2>2. lines \in Seq(Line) /\ now \in 0..MaxTime /\ d \in BOOLEAN
    BY DEF BooksInv, LinesTyped
  <2>3. CommitSucceeds(Rows(lines))
    BY <2>1 DEF NewPost, Post
  <2>4. e.digest = Request(lines, key)
    BY DEF Entry
  <2> HIDE DEF d
  <2>5. /\ DOMAIN e.rows = 1..Len(lines) /\ DOMAIN Rows(lines) = 1..Len(lines)
        /\ e.rows \in Seq(Row)
        /\ \A n \in 1..Len(lines) : /\ e.rows[n].account = Rows(lines)[n].account
                                    /\ e.rows[n].amount = Rows(lines)[n].amount
                                    /\ e.rows[n].quantity = Rows(lines)[n].quantity
    BY <2>2, EntryRows
  <2>6. EntryBalanced(e.rows)
    <3> HIDE DEF e
    <3>1. EntryBalanced(Rows(lines))
      BY <2>3 DEF CommitSucceeds
    <3> QED BY <2>5, <3>1, SameBalance
  <2>7. EntryConservesShares(e.rows)
    <3> HIDE DEF e
    <3>1. EntryConservesShares(Rows(lines))
      BY <2>3 DEF CommitSucceeds
    <3>2. \A i \in Instruments \cup {NoInstrument} :
            SumFunction([n \in Group(e.rows, i) |-> e.rows[n].quantity]) = 0
      BY <2>5, <3>1, SameShares
    <3> QED BY <3>2 DEF EntryConservesShares, Group
  <2>8. GoodEntry(e, schema)
    BY <1>1, <2>2, <2>4, <2>6, <2>7, NewEntry
  <2>9. books' = Append(books, e)
    BY <2>1 DEF d
  <2> HIDE DEF e
  <2>10. /\ books' \in Seq(EntryRecord)
         /\ \A n \in DOMAIN books' : GoodEntry(books'[n], schema')
    BY <1>1, <2>8, <2>9, EntryJoins
  <2> QED BY <1>1, <2>10 DEF BooksInv
<1> QED BY <1>2, <1>3

LEMMA FingerprintsKept == ASSUME BooksInv, BackfillFingerprints PROVE BooksInv'
<1>1. /\ LinesTyped' /\ now' \in 0..MaxTime /\ Reported' /\ schema' = "0006" /\ schema = "0005"
      /\ books' = [n \in DOMAIN books |->
                    IF books[n].key # NoKey /\ books[n].digest = NoRequest
                    THEN [books[n] EXCEPT !.digest = Recovered(books[n])] ELSE books[n]]
  BY DEF BooksInv, BackfillFingerprints, LinesTyped, Reported
<1>2. ASSUME NEW n \in DOMAIN books PROVE GoodEntry(books'[n], "0006")
  <2> DEFINE e == books[n]
             f == books'[n]
  <2>1. GoodEntry(e, "0005") /\ e \in EntryRecord /\ Sound(e)
    BY <1>1 DEF BooksInv, GoodEntry
  <2>2. CASE e.key # NoKey /\ e.digest = NoRequest
    <3>1. f = [e EXCEPT !.digest = Recovered(e)]
      BY <1>1, <2>2
    <3>2. Recovered(e) = e.request
      BY <2>1, <2>2, RecoveredRequest DEF GoodEntry, Keyed
    <3>3. e.request \in Asked
      BY <2>1 DEF EntryRecord
    <3> HIDE DEF e, f
    <3>4. f \in EntryRecord /\ f.rows = e.rows /\ f.digest = f.request
      BY <2>1, <3>1, <3>2, <3>3 DEF EntryRecord
    <3>5. GoodEntry(f, "0006")
      BY <2>1, <3>4 DEF GoodEntry, Sound, Keyed
    <3> QED BY <3>5 DEF f
  <2>3. CASE ~(e.key # NoKey /\ e.digest = NoRequest)
    <3>1. f = e
      BY <1>1, <2>3
    <3>2. e.key = NoKey
      BY <2>1, <2>3 DEF GoodEntry, Keyed
    <3> HIDE DEF e, f
    <3>3. GoodEntry(f, "0006")
      BY <2>1, <3>1, <3>2 DEF GoodEntry, Keyed
    <3> QED BY <3>3 DEF f
  <2> QED BY <2>2, <2>3
<1>3. books' \in Seq(EntryRecord) /\ DOMAIN books' = DOMAIN books
  <2>1. DOMAIN books = 1..Len(books) /\ Len(books) \in Nat
    BY DEF BooksInv
  <2>2. books' = [n \in 1..Len(books) |-> books'[n]]
    BY <1>1, <2>1
  <2>3. books' \in [1..Len(books) -> EntryRecord]
    BY <1>2, <2>1, <2>2 DEF GoodEntry
  <2> QED BY <2>1, <2>3, SequenceOf
<1> QED BY <1>1, <1>2, <1>3 DEF BooksInv

LEMMA MembersOf == ASSUME NEW S, NEW s \in Seq(S) PROVE \A k \in DOMAIN s : s[k] \in S
OBVIOUS

LEMMA Joined ==
  ASSUME NEW S, NEW a \in Seq(S), NEW b \in Seq(S)
  PROVE  /\ a \o b \in Seq(S) /\ Len(a) \in Nat /\ Len(b) \in Nat
         /\ DOMAIN a = 1..Len(a) /\ DOMAIN (a \o b) = 1..(Len(a) + Len(b))
         /\ \A k \in 1..Len(a) : (a \o b)[k] = a[k]
         /\ \A k \in Len(a) + 1..Len(a) + Len(b) :
              (a \o b)[k] = b[k - Len(a)] /\ k - Len(a) \in 1..Len(b)
<1>1. \A k \in 1..Len(a) + Len(b) :
        (a \o b)[k] = IF k <= Len(a) THEN a[k] ELSE b[k - Len(a)]
  OBVIOUS
<1>2. Len(a) \in Nat /\ Len(b) \in Nat /\ Len(a \o b) = Len(a) + Len(b) /\ a \o b \in Seq(S)
  OBVIOUS
<1>3. DOMAIN a = 1..Len(a) /\ DOMAIN (a \o b) = 1..(Len(a) + Len(b))
  BY <1>2
<1>4. ASSUME NEW k \in 1..Len(a) PROVE (a \o b)[k] = a[k]
  BY <1>1, <1>2
<1>5. ASSUME NEW k \in Len(a) + 1..Len(a) + Len(b)
      PROVE  (a \o b)[k] = b[k - Len(a)] /\ k - Len(a) \in 1..Len(b)
  BY <1>1, <1>2
<1> QED BY <1>2, <1>3, <1>4, <1>5

LEMMA TwoIntervals ==
  ASSUME NEW n \in Nat, NEW m \in Nat
  PROVE  /\ IsFiniteSet(1..n) /\ IsFiniteSet(n + 1..n + m)
         /\ (1..n) \cap (n + 1..n + m) = {} /\ (1..n) \cup (n + 1..n + m) = 1..(n + m)
<1>1. 1 \in Int /\ n \in Int /\ n + 1 \in Int /\ n + m \in Int
  OBVIOUS
<1>2. IsFiniteSet(1..n) /\ IsFiniteSet(n + 1..n + m)
  BY <1>1, FS_Interval, Zenon
<1> QED BY <1>2

(* A leg is stamped like its siblings and moves no money.                  *)
LEMMA BackfilledRows ==
  ASSUME NEW rows \in Seq(Row), OneInstant(rows), EntryBalanced(rows)
  PROVE  /\ Backfilled(rows) \in Seq(Row)
         /\ OneInstant(Backfilled(rows)) /\ EntryBalanced(Backfilled(rows))
<1> DEFINE leg(i) == [account |-> ContraOf[i], amount |-> 0, quantity |-> -NetHeld(rows, i),
                      at |-> StampOf(rows, i)]
           M == {j \in Traded : NetHeld(rows, j) # 0 /\ ~HasContra(rows, j)}
           S == {leg(i) : i \in M}
           g == [i \in M |-> leg(i)]
           m == Cardinality(S)
           n == Len(rows)
           legs == SetToSeq(S)
           new == Backfilled(rows)
<1>1. new = rows \o legs
  BY DEF Backfilled
<1>2. PICK t \in 0..MaxTime : \A k \in DOMAIN rows : rows[k].at = t
  BY DEF OneInstant
<1>3. \A k \in 1..n : rows[k] \in Row
  OBVIOUS
<1>4. IsFiniteSet(S)
  <2>1. M \in SUBSET Instruments
    BY DEF Traded
  <2>2. IsFiniteSet(M)
    BY <2>1, FS_Subset, AccountsAssumption
  <2>3. g \in Surjection(M, S)
    BY DEF Surjection
  <2> HIDE DEF M, S, g
  <2> QED BY <2>2, <2>3, FS_Surjection
<1>5. ASSUME NEW i \in M PROVE leg(i) \in Row /\ leg(i).at = t /\ leg(i).amount = 0
  <2> DEFINE H == HeldRows(rows, i)
             q == [k \in H |-> rows[k].quantity]
  <2>1. NetHeld(rows, i) = SumFunctionOnSet(q, H) /\ NetHeld(rows, i) # 0 /\ i \in Instruments
    BY DEF NetHeld, SumFunction, Traded
  <2>2. H \in SUBSET (1..n) /\ \A k \in H : rows[k].quantity # NoQuantity
    BY DEF HeldRows
  <2>3. IsFiniteSet(H)
    <3>1. IsFiniteSet(1..n)
      BY FS_Interval
    <3> HIDE DEF H
    <3> QED BY <2>2, <3>1, FS_Subset
  <2>4. \A k \in H : q[k] \in Int
    <3> SUFFICES ASSUME NEW k \in H PROVE rows[k].quantity \in Int
      OBVIOUS
    <3>1. rows[k] \in Row
      BY <1>3, <2>2
    <3> QED BY <2>2, <3>1 DEF Row
  <2> HIDE DEF H, q
  <2>5. NetHeld(rows, i) \in Int
    BY <2>1, <2>3, <2>4, SumType
  <2>6. H # {}
    BY <2>1, SumEmpty
  <2>7. StampOf(rows, i) = t
    <3>0. \A k \in H : k \in DOMAIN rows /\ rows[k].at = t
      BY <1>2, <2>2
    <3>1. {rows[k].at : k \in H} = {t}
      BY <2>6, <3>0
    <3>2. Min({t}) = t
      <4>1. t \in {t} /\ \A y \in {t} : t <= y
        BY <1>2
      <4> QED BY <4>1 DEF Min
    <3> QED BY <3>1, <3>2 DEF StampOf, H
  <2>8. ContraOf[i] \in Accounts
    BY <2>1, AccountsAssumption
  <2>9. -NetHeld(rows, i) \in Int
    BY <2>5
  <2> QED BY <2>7, <2>8, <2>9 DEF Row
<1>6. \A x \in S : x \in Row /\ x.at = t /\ x.amount = 0
  <2> HIDE DEF leg, M
  <2> QED BY <1>5
<1> HIDE DEF S
<1>7. m \in Nat /\ legs \in [1..m -> S]
  BY <1>4, SequenceOfSet
<1>8. legs \in Seq(Row) /\ Len(legs) = m
  BY <1>6, <1>7
<1>9. /\ n \in Nat /\ DOMAIN rows = 1..n /\ new \in Seq(Row) /\ DOMAIN new = 1..(n + m)
      /\ \A k \in 1..n : new[k] = rows[k]
      /\ \A k \in n+1..n+m : new[k] = legs[k - n] /\ k - n \in 1..m
  <2> HIDE DEF legs, m, new
  <2> QED BY <1>1, <1>8, Joined
<1>10. \A k \in n+1..n+m : new[k].at = t /\ new[k].amount = 0
  <2> HIDE DEF new, legs, m, n
  <2> QED BY <1>6, <1>7, <1>9
<1> HIDE DEF new, legs, m, n
<1>11. OneInstant(new)
  <2>1. \A k \in 1..(n + m) : new[k].at = t
    BY <1>2, <1>7, <1>9, <1>10
  <2> QED BY <1>9, <2>1 DEF OneInstant
<1>12. EntryBalanced(new)
  <2> DEFINE f == [k \in DOMAIN new |-> new[k].amount]
             h == [k \in DOMAIN rows |-> rows[k].amount]
             A == 1..n
             B == n+1..n+m
  <2>1. SumFunctionOnSet(h, A) = 0
    BY <1>9 DEF EntryBalanced, SumFunction
  <2>2. IsFiniteSet(A) /\ IsFiniteSet(B) /\ A \cap B = {} /\ A \cup B = DOMAIN new
    <3>1. m \in Nat /\ n \in Nat /\ DOMAIN new = 1..(n + m)
      BY <1>7, <1>9
    <3> QED BY <3>1, TwoIntervals
  <2>3. \A k \in A : f[k] = h[k]
    BY <1>7, <1>9
  <2>4. \A k \in B : f[k] = 0
    BY <1>7, <1>9, <1>10
  <2>5. \A k \in A \cup B : f[k] \in Int
    <3>1. \A k \in DOMAIN new : new[k] \in Row
      BY <1>9, MembersOf
    <3>2. \A k \in DOMAIN new : new[k].amount \in Int
      BY <3>1 DEF Row
    <3>3. \A k \in DOMAIN new : f[k] = new[k].amount
      OBVIOUS
    <3> HIDE DEF A, B, f
    <3> QED BY <2>2, <3>2, <3>3
  <2>6. EntryBalanced(new) <=> SumFunctionOnSet(f, A \cup B) = 0
    BY <2>2 DEF EntryBalanced, SumFunction
  <2> HIDE DEF f, h, A, B
  <2>7. SumFunctionOnSet(f, A \cup B) = SumFunctionOnSet(f, A) + SumFunctionOnSet(f, B)
    BY <2>2, <2>5, SumUnion
  <2>8. SumFunctionOnSet(f, A) = SumFunctionOnSet(h, A)
    BY <2>2, <2>3, SumSame
  <2>9. SumFunctionOnSet(f, B) = 0
    BY <2>2, <2>4, SumZero
  <2> QED BY <2>1, <2>6, <2>7, <2>8, <2>9
<1> QED BY <1>9, <1>11, <1>12 DEF new

LEMMA ContrasKept == ASSUME BooksInv, BackfillShareContras PROVE BooksInv'
<1>1. /\ LinesTyped' /\ now' \in 0..MaxTime /\ Reported' /\ schema' = "0008" /\ schema = "0006"
      /\ books' = [n \in DOMAIN books |-> [books[n] EXCEPT !.rows = Backfilled(@)]]
  BY DEF BooksInv, BackfillShareContras, LinesTyped, Reported
<1>2. ASSUME NEW n \in DOMAIN books PROVE GoodEntry(books'[n], "0008")
  <2> DEFINE e == books[n]
             f == books'[n]
  <2>1. GoodEntry(e, "0006") /\ e \in EntryRecord /\ OneInstant(e.rows) /\ EntryBalanced(e.rows)
    BY <1>1 DEF BooksInv, GoodEntry, Sound
  <2>2. e.rows \in Seq(Row)
    BY <2>1 DEF EntryRecord
  <2>3. f = [e EXCEPT !.rows = Backfilled(e.rows)]
    BY <1>1
  <2> HIDE DEF e, f
  <2>4. /\ Backfilled(e.rows) \in Seq(Row)
        /\ OneInstant(Backfilled(e.rows)) /\ EntryBalanced(Backfilled(e.rows))
    BY <2>1, <2>2, BackfilledRows
  <2>5. /\ f \in EntryRecord /\ f.rows = Backfilled(e.rows) /\ f.key = e.key
        /\ f.digest = e.digest /\ f.request = e.request
    BY <2>1, <2>3, <2>4 DEF EntryRecord
  <2>6. GoodEntry(f, "0008")
    BY <2>1, <2>4, <2>5 DEF GoodEntry, Sound, Keyed
  <2> QED BY <2>6 DEF f
<1>3. books' \in Seq(EntryRecord) /\ DOMAIN books' = DOMAIN books
  <2>1. DOMAIN books = 1..Len(books) /\ Len(books) \in Nat
    BY DEF BooksInv
  <2>2. books' = [n \in 1..Len(books) |-> books'[n]]
    BY <1>1, <2>1
  <2>3. books' \in [1..Len(books) -> EntryRecord]
    BY <1>2, <2>1, <2>2 DEF GoodEntry
  <2> QED BY <2>1, <2>3, SequenceOf
<1> QED BY <1>1, <1>2, <1>3 DEF BooksInv

LEMMA EnforcedKept == ASSUME BooksInv, EnforceConservation PROVE BooksInv'
<1>1. LinesTyped' /\ now' \in 0..MaxTime /\ Reported' /\ schema = "0008" /\ books' = books
  BY DEF BooksInv, EnforceConservation, LinesTyped, Reported
<1>2. CASE schema' = schema
  BY <1>1, <1>2 DEF BooksInv
<1>3. CASE schema' = "0009" /\ Unconserved = {}
  <2>1. ASSUME NEW n \in DOMAIN books PROVE GoodEntry(books[n], "0009")
    <3>1. Conserved(books[n])
      <4> SUFFICES ASSUME NEW i \in Instruments \cup {NoInstrument}
                   PROVE  Shares(books[n].rows, i) = 0
        BY DEF Conserved
      <4>1. <<n, i>> \notin Unconserved
        BY <1>3
      <4> QED BY <4>1 DEF Unconserved
    <3>2. GoodEntry(books[n], "0008")
      BY <1>1 DEF BooksInv
    <3> QED BY <3>1, <3>2 DEF GoodEntry, Keyed
  <2> QED BY <1>1, <1>3, <2>1 DEF BooksInv
<1> QED BY <1>2, <1>3 DEF EnforceConservation

LEMMA CheckedKept == ASSUME BooksInv, CheckInvariants PROVE BooksInv'
<1>1. /\ LinesTyped' /\ now' \in 0..MaxTime /\ schema' = schema /\ books' = books
      /\ report' = [schema |-> schema, found |-> Violations]
  BY DEF BooksInv, CheckInvariants, LinesTyped
<1>2. ASSUME schema = "0009", NEW v \in Violations
      PROVE  v[1] \in {"negative_asset_balance", "negative_holding"}
  <2>1. \A n \in DOMAIN books : EntryBalanced(books[n].rows) /\ Conserved(books[n])
    BY <1>2 DEF BooksInv, GoodEntry, Sound
  <2>2. {k \in DOMAIN books : ~EntryBalanced(books[k].rows)} = {} /\ Unconserved = {}
    BY <2>1 DEF Unconserved, Conserved
  <2>3. \/ v \in {<<"negative_asset_balance", a>> : a \in {b \in Assets : Balance(b) < 0}}
        \/ v \in {<<"negative_holding", a>> :
              a \in {b \in Assets : InstrumentOf[b] # NoInstrument /\ Held(b) < 0}}
    BY <2>2 DEF Violations
  <2> QED BY <2>3
<1>3. Reported'
  BY <1>1, <1>2 DEF Reported
<1> QED BY <1>1, <1>3 DEF BooksInv

LEMMA BooksKept == BooksInv /\ [BooksNext]_booksVars => BooksInv'
<1> SUFFICES ASSUME BooksInv, [BooksNext]_booksVars PROVE BooksInv'
  OBVIOUS
<1>1. CASE OldPost
  BY <1>1, OldPostKept
<1>2. CASE BackfillFingerprints
  BY <1>2, FingerprintsKept
<1>3. CASE BackfillShareContras
  BY <1>3, ContrasKept
<1>4. CASE EnforceConservation
  BY <1>4, EnforcedKept
<1>5. CASE NewConserve
  <2>1. LinesTyped'
    BY LinesKept DEF BooksInv
  <2> QED BY <1>5, <2>1 DEF NewConserve, BooksInv, Reported
<1>6. CASE NewPost
  BY <1>6, NewPostKept
<1>7. CASE CheckInvariants
  BY <1>7, CheckedKept
<1>8. CASE Elapse
  <2>1. LinesTyped' /\ now' \in 0..MaxTime
    BY <1>8, PastAssumption DEF Elapse, BooksInv, LinesTyped
  <2> QED BY <1>8, <2>1 DEF Elapse, BooksInv, Reported
<1>9. CASE UNCHANGED booksVars
  BY <1>9 DEF booksVars, BooksInv, LinesTyped, Reported
<1> QED BY <1>1, <1>2, <1>3, <1>4, <1>5, <1>6, <1>7, <1>8, <1>9 DEF BooksNext

-----------------------------------------------------------------------------
(* Once 0009 is in, every entry of any history conserves the shares of     *)
(* every instrument at every instant, and reconciliation finds nothing but *)
(* overdrawn accounts and holdings.                                        *)
THEOREM HistoryConservedHolds == BooksSpec => []HistoryConserved
<1>1. BooksInv => HistoryConserved
  <2> SUFFICES ASSUME BooksInv PROVE HistoryConserved
    OBVIOUS
  <2>1. ASSUME schema = "0009", NEW n \in DOMAIN books, NEW i \in Instruments,
               NEW t \in 0..MaxTime + 1
        PROVE  SharesBefore(books[n].rows, i, t) = 0
    <3>1. GoodEntry(books[n], schema)
      BY DEF BooksInv
    <3>2. books[n].rows \in Seq(Row) /\ OneInstant(books[n].rows) /\ Conserved(books[n])
      BY <2>1, <3>1 DEF GoodEntry, Sound, EntryRecord
    <3> QED BY <3>2, ConservedAlways
  <2> QED BY <2>1 DEF HistoryConserved, BooksInv, Reported
<1> QED BY <1>1, BooksStart, BooksKept, PTL DEF BooksSpec

(* From 0006 on, the digest of every keyed entry, recovered or stored, is  *)
(* that of the request its key was spent on: its retries replay.           *)
THEOREM OldKeysReplayHolds == BooksSpec => []OldKeysReplay
<1>1. BooksInv => OldKeysReplay
  BY DEF BooksInv, GoodEntry, Keyed, OldKeysReplay
<1> QED BY <1>1, BooksStart, BooksKept, PTL DEF BooksSpec
=============================================================================
