---------------------------- MODULE SumTheorems ----------------------------
(***************************************************************************)
(* Facts about the sums of the community module Functions: for a function  *)
(* f and any finite set S, SumFunctionOnSet(f, S) is an integer when the   *)
(* terms are, is the same whatever is taken first, and adds up over        *)
(* disjoint sets. The fold is recursive over subsets of S; what it yields  *)
(* is shown by taking a counterexample of least cardinality.               *)
(***************************************************************************)
EXTENDS Functions, FiniteSetTheorems, TLAPS

(* Natural numbers by size, and the least number principle.                *)
Smaller == {p \in Nat \X Nat : p[1] < p[2]}

LEMMA LeastOf ==
  ASSUME NEW T \in SUBSET Nat, T # {}
  PROVE  \E x \in T : \A y \in T : x <= y
<1>1. IsWellFoundedOn(Smaller, Nat)
  BY NatLessThanWellFounded DEF OpToRel, Smaller
<1>2. \E x \in T : \A y \in T : <<y, x>> \notin Smaller
  BY <1>1, WFMin
<1>3. ASSUME NEW x \in T, NEW y \in T, <<y, x>> \notin Smaller PROVE x <= y
  BY <1>3 DEF Smaller
<1> QED BY <1>2, <1>3

(* The element the fold takes of s, the equation its recursive function it *)
(* obeys on a domain D, and the subsets of S with at most n elements.      *)
One(s) == CHOOSE x \in s : TRUE

Adds(f, D, it) ==
    it = [s \in D |-> IF s = {} THEN 0 ELSE f[One(s)] + it[s \ {One(s)}]]

Upto(S, n) == {s \in SUBSET S : Cardinality(s) <= n}

LEMMA OneIn == ASSUME NEW s, s # {} PROVE One(s) \in s
BY DEF One

(* The fold, with its definitions expanded.                                *)
LEMMA SumIs ==
  ASSUME NEW f, NEW S
  PROVE  SumFunctionOnSet(f, S) = (CHOOSE it : Adds(f, SUBSET S, it))[S]
BY DEF SumFunctionOnSet, FoldFunctionOnSet, MapThenFoldSet, Adds, One

(* The recursive equation has a solution over the subsets of a finite set. *)
LEMMA SumExists ==
  ASSUME NEW f, NEW S, IsFiniteSet(S)
  PROVE  \E it : Adds(f, SUBSET S, it)
<1> DEFINE Bad == {n \in Nat : ~ \E it : Adds(f, Upto(S, n), it)}
<1>1. \A s \in SUBSET S : IsFiniteSet(s) /\ Cardinality(s) \in Nat
  BY FS_Subset, FS_CardinalityType
<1>2. 0 \notin Bad
  <2>1. Upto(S, 0) = {{}}
    BY <1>1, FS_EmptySet DEF Upto
  <2>2. Adds(f, {{}}, [s \in {{}} |-> 0])
    BY DEF Adds
  <2> QED BY <2>1, <2>2
<1>3. ASSUME NEW n \in Nat, n \notin Bad PROVE n + 1 \notin Bad
  <2>1. PICK it : Adds(f, Upto(S, n), it)
    BY <1>3
  <2> DEFINE jt == [s \in Upto(S, n + 1) |-> IF s = {} THEN 0 ELSE f[One(s)] + it[s \ {One(s)}]]
  <2>2. Upto(S, n) \subseteq Upto(S, n + 1)
    BY <1>1 DEF Upto
  <2>3. ASSUME NEW s \in Upto(S, n) PROVE jt[s] = it[s]
    <3>1. it[s] = IF s = {} THEN 0 ELSE f[One(s)] + it[s \ {One(s)}]
      BY <2>1 DEF Adds
    <3>2. jt[s] = IF s = {} THEN 0 ELSE f[One(s)] + it[s \ {One(s)}]
      BY <2>2
    <3> QED BY <3>1, <3>2
  <2>4. ASSUME NEW s \in Upto(S, n + 1), s # {} PROVE s \ {One(s)} \in Upto(S, n)
    <3>1. One(s) \in s /\ IsFiniteSet(s) /\ Cardinality(s) \in Nat /\ Cardinality(s) <= n + 1
      BY <2>4, OneIn, <1>1 DEF Upto
    <3>2. Cardinality(s \ {One(s)}) = Cardinality(s) - 1
      BY <3>1, FS_RemoveElement
    <3> QED BY <3>1, <3>2 DEF Upto
  <2>5. jt = [s \in Upto(S, n + 1) |-> IF s = {} THEN 0 ELSE f[One(s)] + jt[s \ {One(s)}]]
    BY <2>3, <2>4
  <2>6. Adds(f, Upto(S, n + 1), jt)
    BY <2>5 DEF Adds
  <2> QED BY <2>6
<1>4. Bad = {}
  <2>1. SUFFICES ASSUME Bad # {} PROVE FALSE
    OBVIOUS
  <2>2. PICK n \in Bad : \A m \in Bad : n <= m
    BY <2>1, LeastOf
  <2>3. n # 0 /\ n \in Nat /\ n - 1 \in Nat
    BY <1>2
  <2>4. n - 1 \notin Bad
    BY <2>2, <2>3
  <2>5. (n - 1) + 1 \notin Bad
    BY <2>3, <2>4, <1>3
  <2>6. (n - 1) + 1 = n
    BY <2>3
  <2> QED BY <2>5, <2>6
<1>5. Upto(S, Cardinality(S)) = SUBSET S
  BY FS_Subset DEF Upto
<1>6. Cardinality(S) \in Nat
  BY <1>1
<1> HIDE DEF Bad
<1>7. \E it : Adds(f, Upto(S, Cardinality(S)), it)
  BY <1>4, <1>6 DEF Bad
<1> QED BY <1>5, <1>7

(* What the chosen function adds up does not depend on its domain.         *)
LEMMA AddsAgree ==
  ASSUME NEW f, NEW g, NEW D, NEW E, NEW it, NEW jt, NEW S,
         Adds(f, D, it), Adds(g, E, jt), IsFiniteSet(S),
         SUBSET S \subseteq D, SUBSET S \subseteq E,
         \A x \in S : f[x] = g[x]
  PROVE  it[S] = jt[S]
<1> DEFINE Bad == {n \in Nat : \E s \in SUBSET S : Cardinality(s) = n /\ it[s] # jt[s]}
<1>1. \A s \in SUBSET S : IsFiniteSet(s) /\ Cardinality(s) \in Nat
  BY FS_Subset, FS_CardinalityType
<1>2. SUFFICES ASSUME it[S] # jt[S] PROVE FALSE
  OBVIOUS
<1>3. Cardinality(S) \in Bad
  BY <1>1, <1>2
<1>4. PICK n \in Bad : \A m \in Bad : n <= m
  <2> HIDE DEF Bad
  <2>1. Bad \in SUBSET Nat
    BY DEF Bad
  <2> QED BY <1>3, <2>1, LeastOf
<1>5. PICK s \in SUBSET S : Cardinality(s) = n /\ it[s] # jt[s]
  OBVIOUS
<1>6. /\ it[s] = IF s = {} THEN 0 ELSE f[One(s)] + it[s \ {One(s)}]
      /\ jt[s] = IF s = {} THEN 0 ELSE g[One(s)] + jt[s \ {One(s)}]
  <2>1. s \in D /\ s \in E
    OBVIOUS
  <2> QED BY <2>1 DEF Adds
<1>7. s # {}
  BY <1>5, <1>6
<1>8. One(s) \in s /\ s \ {One(s)} \in SUBSET S
  BY <1>7, OneIn
<1>9. Cardinality(s \ {One(s)}) = n - 1 /\ n \in Nat /\ n - 1 \in Nat
  <2>1. Cardinality(s \ {One(s)}) = n - 1
    BY <1>1, <1>5, <1>8, FS_RemoveElement
  <2>2. Cardinality(s \ {One(s)}) \in Nat
    BY <1>1, <1>8
  <2> QED BY <2>1, <2>2
<1>10. n - 1 \notin Bad
  BY <1>4, <1>9
<1>11. it[s \ {One(s)}] = jt[s \ {One(s)}]
  BY <1>8, <1>9, <1>10
<1>12. f[One(s)] = g[One(s)]
  BY <1>8
<1> QED BY <1>5, <1>6, <1>11, <1>12

(* A sum is what the recursive equation says.                              *)
LEMMA SumAdds ==
  ASSUME NEW f, NEW S, IsFiniteSet(S)
  PROVE  \E it : Adds(f, SUBSET S, it) /\ SumFunctionOnSet(f, S) = it[S]
<1>1. PICK it : Adds(f, SUBSET S, it)
  BY SumExists
<1>2. Adds(f, SUBSET S, CHOOSE jt : Adds(f, SUBSET S, jt))
  BY <1>1
<1> QED BY <1>2, SumIs

(* A sum only looks at the values on its set.                              *)
LEMMA SumSame ==
  ASSUME NEW f, NEW g, NEW S, IsFiniteSet(S), \A x \in S : f[x] = g[x]
  PROVE  SumFunctionOnSet(f, S) = SumFunctionOnSet(g, S)
<1>1. PICK it : Adds(f, SUBSET S, it) /\ SumFunctionOnSet(f, S) = it[S]
  BY SumAdds
<1>2. PICK jt : Adds(g, SUBSET S, jt) /\ SumFunctionOnSet(g, S) = jt[S]
  BY SumAdds
<1>3. it[S] = jt[S]
  BY <1>1, <1>2, AddsAgree
<1> QED BY <1>1, <1>2, <1>3

LEMMA SumEmpty == ASSUME NEW f PROVE SumFunctionOnSet(f, {}) = 0
<1>1. IsFiniteSet({})
  BY FS_EmptySet
<1>2. PICK it : Adds(f, SUBSET {}, it) /\ SumFunctionOnSet(f, {}) = it[{}]
  BY <1>1, SumAdds
<1>3. {} \in SUBSET {}
  OBVIOUS
<1>4. it[{}] = 0
  BY <1>2, <1>3 DEF Adds
<1> QED BY <1>2, <1>4

LEMMA SumPick ==
  ASSUME NEW f, NEW S, IsFiniteSet(S), S # {}
  PROVE  SumFunctionOnSet(f, S) = f[One(S)] + SumFunctionOnSet(f, S \ {One(S)})
<1>1. PICK it : Adds(f, SUBSET S, it) /\ SumFunctionOnSet(f, S) = it[S]
  BY SumAdds
<1>2. IsFiniteSet(S \ {One(S)})
  BY FS_RemoveElement
<1>3. PICK jt : /\ Adds(f, SUBSET (S \ {One(S)}), jt)
                /\ SumFunctionOnSet(f, S \ {One(S)}) = jt[S \ {One(S)}]
  BY <1>2, SumAdds
<1>4. it[S \ {One(S)}] = jt[S \ {One(S)}]
  <2> DEFINE R == S \ {One(S)}
  <2>1. SUBSET R \subseteq SUBSET S /\ SUBSET R \subseteq SUBSET R /\ IsFiniteSet(R)
    BY <1>2
  <2>2. \A x \in R : f[x] = f[x]
    OBVIOUS
  <2>3. Adds(f, SUBSET S, it) /\ Adds(f, SUBSET R, jt)
    BY <1>1, <1>3
  <2> HIDE DEF R
  <2>4. it[R] = jt[R]
    BY <2>1, <2>2, <2>3, AddsAgree
  <2> QED BY <2>4 DEF R
<1>5. S \in SUBSET S
  OBVIOUS
<1>6. it[S] = f[One(S)] + it[S \ {One(S)}]
  BY <1>1, <1>5 DEF Adds
<1> QED BY <1>1, <1>3, <1>4, <1>6

(* A sum is where its terms are: in the integers, or zero.                 *)
LEMMA SumIn ==
  ASSUME NEW f, NEW S, IsFiniteSet(S), NEW V, 0 \in V, \A a, b \in V : a + b \in V,
         \A x \in S : f[x] \in V
  PROVE  SumFunctionOnSet(f, S) \in V
<1> DEFINE Bad == {n \in Nat : \E s \in SUBSET S : Cardinality(s) = n
                                                 /\ SumFunctionOnSet(f, s) \notin V}
<1>1. \A s \in SUBSET S : IsFiniteSet(s) /\ Cardinality(s) \in Nat
  BY FS_Subset, FS_CardinalityType
<1>2. SUFFICES ASSUME SumFunctionOnSet(f, S) \notin V PROVE FALSE
  OBVIOUS
<1>3. Cardinality(S) \in Bad
  BY <1>1, <1>2
<1>4. PICK n \in Bad : \A m \in Bad : n <= m
  <2>1. Bad \in SUBSET Nat
    OBVIOUS
  <2> HIDE DEF Bad
  <2> QED BY <1>3, <2>1, LeastOf
<1>5. PICK s \in SUBSET S : Cardinality(s) = n /\ SumFunctionOnSet(f, s) \notin V
  OBVIOUS
<1>6. s # {}
  BY <1>5, SumEmpty
<1>7. One(s) \in s /\ s \ {One(s)} \in SUBSET S
  BY <1>6, OneIn
<1>8. Cardinality(s \ {One(s)}) = n - 1 /\ n \in Nat /\ n - 1 \in Nat
  <2>1. Cardinality(s \ {One(s)}) = n - 1
    BY <1>1, <1>5, <1>7, FS_RemoveElement
  <2>2. Cardinality(s \ {One(s)}) \in Nat
    BY <1>1, <1>7
  <2> QED BY <2>1, <2>2
<1>9. n - 1 \notin Bad
  BY <1>4, <1>8
<1>10. SumFunctionOnSet(f, s \ {One(s)}) \in V
  BY <1>7, <1>8, <1>9
<1>11. SumFunctionOnSet(f, s) = f[One(s)] + SumFunctionOnSet(f, s \ {One(s)})
  BY <1>1, <1>6, SumPick
<1> QED BY <1>5, <1>7, <1>10, <1>11

LEMMA SumType ==
  ASSUME NEW f, NEW S, IsFiniteSet(S), \A x \in S : f[x] \in Int
  PROVE  SumFunctionOnSet(f, S) \in Int
<1>1. 0 \in Int /\ \A a, b \in Int : a + b \in Int
  OBVIOUS
<1> QED BY <1>1, SumIn

LEMMA SumZero ==
  ASSUME NEW f, NEW S, IsFiniteSet(S), \A x \in S : f[x] = 0
  PROVE  SumFunctionOnSet(f, S) = 0
<1>1. 0 \in {0} /\ (\A a, b \in {0} : a + b \in {0}) /\ \A x \in S : f[x] \in {0}
  OBVIOUS
<1>2. SumFunctionOnSet(f, S) \in {0}
  BY <1>1, SumIn
<1> QED BY <1>2

(* The order in which a set is added up does not matter.                   *)
LEMMA SumTake ==
  ASSUME NEW f, NEW S, IsFiniteSet(S), \A x \in S : f[x] \in Int, NEW x \in S
  PROVE  SumFunctionOnSet(f, S) = f[x] + SumFunctionOnSet(f, S \ {x})
<1> DEFINE Sum(s) == SumFunctionOnSet(f, s)
<1> DEFINE Bad == {n \in Nat : \E s \in SUBSET S : \E y \in s : Cardinality(s) = n
                                   /\ Sum(s) # f[y] + Sum(s \ {y})}
<1>1. \A s \in SUBSET S : IsFiniteSet(s) /\ Cardinality(s) \in Nat /\ Sum(s) \in Int
  <2> TAKE s \in SUBSET S
  <2>1. IsFiniteSet(s) /\ Cardinality(s) \in Nat
    BY FS_Subset, FS_CardinalityType
  <2>2. \A y \in s : f[y] \in Int
    OBVIOUS
  <2> QED BY <2>1, <2>2, SumType
<1>2. SUFFICES ASSUME Sum(S) # f[x] + Sum(S \ {x}) PROVE FALSE
  OBVIOUS
<1>3. \A s \in SUBSET S : s # {} => /\ One(s) \in s
                                   /\ Sum(s) = f[One(s)] + Sum(s \ {One(s)})
  BY <1>1, SumPick, OneIn
<1> HIDE DEF Sum
<1>4. Cardinality(S) \in Bad
  BY <1>1, <1>2
<1>5. PICK n \in Bad : \A m \in Bad : n <= m
  <2>1. Bad \in SUBSET Nat
    OBVIOUS
  <2> HIDE DEF Bad
  <2> QED BY <1>4, <2>1, LeastOf
<1>6. PICK s \in SUBSET S : \E y \in s : Cardinality(s) = n /\ Sum(s) # f[y] + Sum(s \ {y})
  OBVIOUS
<1>7. PICK y \in s : Cardinality(s) = n /\ Sum(s) # f[y] + Sum(s \ {y})
  BY <1>6
<1> DEFINE p == One(s)
<1>8. p \in s /\ p # y /\ Sum(s) = f[p] + Sum(s \ {p})
  BY <1>3, <1>7
<1> HIDE DEF p
<1>9. \A z \in s : /\ Cardinality(s \ {z}) = n - 1 /\ n \in Nat /\ n - 1 \in Nat
                   /\ s \ {z} \in SUBSET S
  <2> TAKE z \in s
  <2>1. Cardinality(s \ {z}) = n - 1
    BY <1>1, <1>7, FS_RemoveElement
  <2>2. Cardinality(s \ {z}) \in Nat
    BY <1>1
  <2> QED BY <2>1, <2>2
<1>10. n - 1 \notin Bad
  BY <1>5, <1>7, <1>9
<1>11. Sum(s \ {p}) = f[y] + Sum((s \ {p}) \ {y})
  BY <1>8, <1>9, <1>10
<1>12. Sum(s \ {y}) = f[p] + Sum((s \ {y}) \ {p})
  BY <1>8, <1>9, <1>10
<1>13. (s \ {p}) \ {y} = (s \ {y}) \ {p}
  OBVIOUS
<1>14. f[p] \in Int /\ f[y] \in Int /\ Sum((s \ {y}) \ {p}) \in Int
  BY <1>1, <1>8
<1>15. Sum((s \ {p}) \ {y}) = Sum((s \ {y}) \ {p})
  BY <1>13
<1>16. Sum(s) = f[p] + (f[y] + Sum((s \ {y}) \ {p}))
  BY <1>8, <1>11, <1>15
<1>17. f[y] + Sum(s \ {y}) = f[y] + (f[p] + Sum((s \ {y}) \ {p}))
  BY <1>12
<1>18. f[p] + (f[y] + Sum((s \ {y}) \ {p})) = f[y] + (f[p] + Sum((s \ {y}) \ {p}))
  BY <1>14
<1> QED BY <1>7, <1>16, <1>17, <1>18

(* Sets that have nothing in common are added up one after the other.      *)
LEMMA SumUnion ==
  ASSUME NEW f, NEW S, NEW T, IsFiniteSet(S), IsFiniteSet(T), S \cap T = {},
         \A x \in S \cup T : f[x] \in Int
  PROVE  SumFunctionOnSet(f, S \cup T) = SumFunctionOnSet(f, S) + SumFunctionOnSet(f, T)
<1> DEFINE Sum(s) == SumFunctionOnSet(f, s)
<1> DEFINE Bad == {n \in Nat : \E t \in SUBSET T : Cardinality(t) = n
                                   /\ Sum(S \cup t) # Sum(S) + Sum(t)}
<1>1. \A t \in SUBSET T : /\ IsFiniteSet(t) /\ Cardinality(t) \in Nat /\ Sum(t) \in Int
                          /\ IsFiniteSet(S \cup t)
  <2> TAKE t \in SUBSET T
  <2>1. IsFiniteSet(t) /\ Cardinality(t) \in Nat /\ IsFiniteSet(S \cup t)
    BY FS_Subset, FS_CardinalityType, FS_Union
  <2>2. \A y \in t : f[y] \in Int
    OBVIOUS
  <2> QED BY <2>1, <2>2, SumType
<1>2. SUFFICES ASSUME Sum(S \cup T) # Sum(S) + Sum(T) PROVE FALSE
  OBVIOUS
<1>3. Sum(S) \in Int
  BY SumType
<1>4. Sum({}) = 0
  BY SumEmpty
<1>5. \A t \in SUBSET T : \A y \in t : /\ Sum(t) = f[y] + Sum(t \ {y})
                                        /\ Sum(S \cup t) = f[y] + Sum((S \cup t) \ {y})
  <2> TAKE t \in SUBSET T
  <2> TAKE y \in t
  <2>1. \A z \in t : f[z] \in Int
    OBVIOUS
  <2>2. \A z \in S \cup t : f[z] \in Int
    OBVIOUS
  <2>3. y \in S \cup t
    OBVIOUS
  <2>4. IsFiniteSet(t) /\ IsFiniteSet(S \cup t)
    BY <1>1
  <2>5. Sum(t) = f[y] + Sum(t \ {y})
    BY <2>1, <2>4, SumTake
  <2> DEFINE U == S \cup t
  <2>6. IsFiniteSet(U) /\ y \in U /\ \A z \in U : f[z] \in Int
    BY <2>2, <2>3, <2>4
  <2> HIDE DEF U
  <2>7. Sum(U) = f[y] + Sum(U \ {y})
    BY <2>6, SumTake
  <2> QED BY <2>5, <2>7 DEF U
<1> HIDE DEF Sum
<1>6. Cardinality(T) \in Bad
  BY <1>1, <1>2
<1>7. PICK n \in Bad : \A m \in Bad : n <= m
  <2>1. Bad \in SUBSET Nat
    OBVIOUS
  <2> HIDE DEF Bad
  <2> QED BY <1>6, <2>1, LeastOf
<1>8. PICK t \in SUBSET T : Cardinality(t) = n /\ Sum(S \cup t) # Sum(S) + Sum(t)
  OBVIOUS
<1>9. t # {}
  <2>1. SUFFICES ASSUME t = {} PROVE FALSE
    OBVIOUS
  <2>2. S \cup t = S
    BY <2>1
  <2> QED BY <1>3, <1>4, <1>8, <2>1, <2>2
<1>10. PICK y \in t : TRUE
  BY <1>9
<1>11. Cardinality(t \ {y}) = n - 1 /\ n \in Nat /\ n - 1 \in Nat
  <2>1. Cardinality(t \ {y}) = n - 1
    BY <1>1, <1>8, FS_RemoveElement
  <2>2. Cardinality(t \ {y}) \in Nat
    BY <1>1
  <2> QED BY <2>1, <2>2
<1>12. n - 1 \notin Bad
  BY <1>7, <1>11
<1>13. Sum(S \cup (t \ {y})) = Sum(S) + Sum(t \ {y})
  BY <1>11, <1>12
<1>14. (S \cup t) \ {y} = S \cup (t \ {y})
  OBVIOUS
<1>15. f[y] \in Int /\ Sum(t \ {y}) \in Int
  BY <1>1
<1>16. Sum((S \cup t) \ {y}) = Sum(S) + Sum(t \ {y})
  BY <1>13, <1>14
<1>17. Sum(S \cup t) = f[y] + (Sum(S) + Sum(t \ {y}))
  BY <1>5, <1>16
<1>18. Sum(S) + Sum(t) = Sum(S) + (f[y] + Sum(t \ {y}))
  BY <1>5
<1>19. f[y] + (Sum(S) + Sum(t \ {y})) = Sum(S) + (f[y] + Sum(t \ {y}))
  BY <1>3, <1>15
<1> QED BY <1>8, <1>17, <1>18, <1>19

LEMMA SumSingle ==
  ASSUME NEW f, NEW x, f[x] \in Int
  PROVE  SumFunctionOnSet(f, {x}) = f[x]
<1>1. IsFiniteSet({x}) /\ (\A y \in {x} : f[y] \in Int) /\ x \in {x}
  BY FS_Singleton
<1>2. SumFunctionOnSet(f, {x}) = f[x] + SumFunctionOnSet(f, {x} \ {x})
  BY <1>1, SumTake
<1>3. {x} \ {x} = {}
  OBVIOUS
<1>4. SumFunctionOnSet(f, {x} \ {x}) = 0
  BY <1>3, SumEmpty
<1> QED BY <1>2, <1>4
=============================================================================
