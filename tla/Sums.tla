-------------------------------- MODULE Sums --------------------------------
(***************************************************************************)
(* Facts about the sums that the specifications are built from: of a       *)
(* function over its finite domain (SumFunction), and of the layers of a   *)
(* list, oldest first (Layers).                                            *)
(*                                                                         *)
(* Induction is by minimal counterexample: a nonempty set of naturals has  *)
(* a least element.  What is proved by it is given as a set, of numbers or *)
(* of sets, so that no fact here takes an operator as its parameter.       *)
(***************************************************************************)
EXTENDS Layers, FiniteSetTheorems, TLAPS

\* A set that holds 0 and the successor of each of its members holds every natural.
LEMMA NatInductionOnSet ==
  ASSUME NEW S, 0 \in S, \A n \in Nat : n \in S => n + 1 \in S
  PROVE  Nat \subseteq S
<1> DEFINE T == Nat \ S
<1>1. CASE T # {}
  <2>1. PICK x \in T : \A y \in T : <<y, x>> \notin OpToRel(<, Nat)
    BY <1>1, NatLessThanWellFounded, WFMin, Zenon
  <2>2. x # 0 /\ x \in Nat
    BY <2>1
  <2>3. x - 1 \in Nat /\ x - 1 < x /\ (x - 1) + 1 = x
    BY <2>2
  <2>4. <<x - 1, x>> \in OpToRel(<, Nat)
    BY <2>2, <2>3 DEF OpToRel
  <2>5. x - 1 \in S
    BY <2>1, <2>3, <2>4
  <2> QED BY <2>1, <2>3, <2>5
<1> QED BY <1>1

\* A set of sets that holds {}, and with a part of S each part that is one element larger, holds S.
LEMMA FiniteInductionOnSet ==
  ASSUME NEW S, IsFiniteSet(S), NEW G, {} \in G,
         \A T \in SUBSET S : T \in G => \A x \in S \ T : T \cup {x} \in G
  PROVE  S \in G
<1> DEFINE Bad == {T \in SUBSET S : T \notin G}
           Sizes == {Cardinality(T) : T \in Bad}
<1>1. \A T \in SUBSET S : IsFiniteSet(T) /\ Cardinality(T) \in Nat
  BY FS_Subset, FS_CardinalityType
<1>2. CASE Bad # {}
  <2>1. Sizes \subseteq Nat /\ Sizes # {}
    BY <1>1, <1>2
  <2>2. PICK n \in Sizes : \A m \in Sizes : <<m, n>> \notin OpToRel(<, Nat)
    BY <2>1, NatLessThanWellFounded, WFMin, Zenon
  <2>3. PICK T \in Bad : Cardinality(T) = n
    BY <2>2
  <2>4. PICK x : x \in T
    BY <2>3
  <2>5. Cardinality(T \ {x}) = n - 1 /\ n \in Nat
    BY <1>1, <2>3, <2>4, FS_RemoveElement
  <2>6. n - 1 \in Nat
    BY <1>1, <2>3, <2>5
  <2>7. <<n - 1, n>> \in OpToRel(<, Nat)
    BY <2>5, <2>6 DEF OpToRel
  <2>8. T \ {x} \notin Bad
    BY <2>2, <2>5, <2>7
  <2>9. T \ {x} \in G /\ (T \ {x}) \cup {x} = T
    BY <2>3, <2>4, <2>8
  <2> QED BY <2>3, <2>4, <2>9
<1>3. CASE Bad = {}
  BY <1>3
<1> QED BY <1>2, <1>3

----------------------------------------------------------------------------
(* Sums over a finite set *)

\* The element the fold takes from T next.
Pick(T) == CHOOSE x \in T : TRUE

\* What the fold does for a family of sets that is closed under taking that element out.
IsSum(it, F, D) == it = [T \in D |-> IF T = {} THEN 0 ELSE F[Pick(T)] + it[T \ {Pick(T)}]]

\* For every part of S.
Solves(it, F, S) == IsSum(it, F, SUBSET S)

LEMMA SumExists ==
  ASSUME NEW F, NEW S, IsFiniteSet(S)
  PROVE  \E it : Solves(it, F, S)
<1> DEFINE D(m) == {T \in SUBSET S : Cardinality(T) <= m}
           G == {m \in Nat : \E it : IsSum(it, F, D(m))}
<1>1. \A T \in SUBSET S : /\ Cardinality(T) \in Nat
                          /\ Cardinality(T) <= Cardinality(S)
                          /\ Cardinality(T) = 0 <=> T = {}
  BY FS_Subset, FS_CardinalityType, FS_EmptySet
<1>2. ASSUME NEW T \in SUBSET S, T # {}
      PROVE  T \ {Pick(T)} \in SUBSET S /\ Cardinality(T \ {Pick(T)}) = Cardinality(T) - 1
  <2>1. Pick(T) \in T
    BY <1>2 DEF Pick
  <2> QED BY <2>1, FS_Subset, FS_RemoveElement
<1>3. 0 \in G
  <2> DEFINE it == [T \in D(0) |-> 0]
  <2>1. \A T \in D(0) : T = {}
    BY <1>1
  <2>2. IsSum(it, F, D(0))
    BY <2>1 DEF IsSum
  <2> QED BY <2>2
<1>4. ASSUME NEW m \in Nat, m \in G PROVE m + 1 \in G
  <2>1. PICK it : IsSum(it, F, D(m))
    BY <1>4
  <2> DEFINE value(T) == IF T = {} THEN 0 ELSE F[Pick(T)] + it[T \ {Pick(T)}]
             next == [T \in D(m + 1) |-> value(T)]
  <2>2. ASSUME NEW T \in D(m) PROVE T \in D(m + 1) /\ it[T] = value(T)
    <3>1. T \in D(m + 1)
      BY <1>1
    <3> HIDE DEF D
    <3>2. it[T] = value(T)
      BY <2>1 DEF IsSum
    <3> QED BY <3>1, <3>2
  <2>3. ASSUME NEW T \in D(m + 1), T # {}
        PROVE  T \ {Pick(T)} \in D(m)
    BY <1>1, <1>2, <2>3
  <2> HIDE DEF D
  <2>4. \A T \in D(m) : next[T] = it[T]
    BY <2>2
  <2>5. ASSUME NEW T \in D(m + 1)
        PROVE  next[T] = IF T = {} THEN 0 ELSE F[Pick(T)] + next[T \ {Pick(T)}]
    BY <2>3, <2>4
  <2>6. IsSum(next, F, D(m + 1))
    BY <2>5 DEF IsSum
  <2> QED BY <2>6
<1>5. Cardinality(S) \in G
  <2> HIDE DEF G
  <2>1. Nat \subseteq G
    BY <1>3, <1>4, NatInductionOnSet, Zenon
  <2> QED BY <1>1, <2>1
<1>6. D(Cardinality(S)) = SUBSET S
  BY <1>1
<1> QED BY <1>5, <1>6 DEF Solves

\* Whatever satisfies the recursion has the same values.
LEMMA SumUnique ==
  ASSUME NEW F, NEW S, IsFiniteSet(S), NEW T \in SUBSET S,
         NEW a, Solves(a, F, S), NEW b, Solves(b, F, T)
  PROVE  a[T] = b[T]
<1> DEFINE G == {m \in Nat : \A U \in SUBSET T : Cardinality(U) = m => a[U] = b[U]}
<1>1. \A U \in SUBSET T : IsFiniteSet(U) /\ Cardinality(U) \in Nat /\ (Cardinality(U) = 0 <=> U = {})
  BY FS_Subset, FS_CardinalityType, FS_EmptySet
<1>2. ASSUME NEW U \in SUBSET T, U # {}
      PROVE  /\ U \ {Pick(U)} \in SUBSET T
             /\ Cardinality(U \ {Pick(U)}) = Cardinality(U) - 1
             /\ a[U] = F[Pick(U)] + a[U \ {Pick(U)}]
             /\ b[U] = F[Pick(U)] + b[U \ {Pick(U)}]
  <2>1. Pick(U) \in U
    BY <1>2 DEF Pick
  <2>2. Cardinality(U \ {Pick(U)}) = Cardinality(U) - 1
    BY <1>1, <2>1, FS_RemoveElement
  <2> QED BY <1>2, <2>2 DEF Solves, IsSum
<1>3. 0 \in G
  BY <1>1 DEF Solves, IsSum
<1>4. ASSUME NEW m \in Nat, m \in G PROVE m + 1 \in G
  <2>1. SUFFICES ASSUME NEW U \in SUBSET T, Cardinality(U) = m + 1 PROVE a[U] = b[U]
    OBVIOUS
  <2>2. U # {}
    BY <1>1, <2>1
  <2>3. a[U \ {Pick(U)}] = b[U \ {Pick(U)}]
    BY <1>2, <1>4, <2>1, <2>2
  <2> QED BY <1>2, <2>2, <2>3
<1>5. Cardinality(T) \in G
  <2> HIDE DEF G
  <2>1. Nat \subseteq G
    BY <1>3, <1>4, NatInductionOnSet, Zenon
  <2> QED BY <1>1, <2>1
<1> QED BY <1>5

\* The library's sum is that of any solution of the recursion.
LEMMA SumIsSum ==
  ASSUME NEW F, NEW S, IsFiniteSet(S), NEW T \in SUBSET S, NEW it, Solves(it, F, S)
  PROVE  SumFunctionOnSet(F, T) = it[T]
<1> DEFINE chosen == CHOOSE b : Solves(b, F, T)
<1>1. SumFunctionOnSet(F, T) = chosen[T]
  BY Zenon DEF SumFunctionOnSet, FoldFunctionOnSet, MapThenFoldSet, Solves, IsSum, Pick
<1>2. IsFiniteSet(T)
  BY FS_Subset
<1> HIDE DEF chosen
<1>3. Solves(chosen, F, T)
  BY <1>2, SumExists, Zenon DEF chosen
<1>4. it[T] = chosen[T]
  <2>1. \A a, b : Solves(a, F, S) /\ Solves(b, F, T) => a[T] = b[T]
    BY SumUnique
  <2> QED BY <1>3, <2>1
<1> QED BY <1>1, <1>4

LEMMA SumEmpty ==
  ASSUME NEW F
  PROVE  SumFunctionOnSet(F, {}) = 0
<1>1. PICK it : Solves(it, F, {})
  BY SumExists, FS_EmptySet
<1>2. {} \in SUBSET {}
  OBVIOUS
<1>3. SumFunctionOnSet(F, {}) = it[{}]
  <2>1. \A a : Solves(a, F, {}) => SumFunctionOnSet(F, {}) = a[{}]
    BY <1>2, FS_EmptySet, SumIsSum
  <2> QED BY <1>1, <2>1
<1> QED BY <1>1, <1>3 DEF Solves, IsSum

\* A sum of integers is an integer, and any element may be taken out first.
LEMMA SumTakeOut ==
  ASSUME NEW S, IsFiniteSet(S), NEW F, \A x \in S : F[x] \in Int
  PROVE  /\ SumFunctionOnSet(F, S) \in Int
         /\ \A x \in S : SumFunctionOnSet(F, S) = F[x] + SumFunctionOnSet(F, S \ {x})
<1>1. PICK it : Solves(it, F, S)
  BY SumExists
<1> DEFINE Good(T) == it[T] \in Int /\ \A x \in T : it[T] = F[x] + it[T \ {x}]
           G == {m \in Nat : \A T \in SUBSET S : Cardinality(T) <= m => Good(T)}
<1>2. \A T \in SUBSET S : IsFiniteSet(T) /\ Cardinality(T) \in Nat /\ (Cardinality(T) = 0 <=> T = {})
  BY FS_Subset, FS_CardinalityType, FS_EmptySet
<1>3. ASSUME NEW T \in SUBSET S, NEW x \in T
      PROVE  T \ {x} \in SUBSET S /\ Cardinality(T \ {x}) = Cardinality(T) - 1
  BY <1>2, FS_RemoveElement
<1>4. 0 \in G
  BY <1>1, <1>2 DEF Solves, IsSum
<1>5. ASSUME NEW m \in Nat, m \in G PROVE m + 1 \in G
  <2>1. SUFFICES ASSUME NEW T \in SUBSET S, Cardinality(T) = m + 1 PROVE Good(T)
    BY <1>2, <1>5
  <2> DEFINE p == Pick(T)
  <2>2. p \in T
    BY <1>2, <2>1 DEF Pick
  <2>3. it[T] = F[p] + it[T \ {p}]
    BY <1>1, <2>2 DEF Solves, IsSum
  <2> HIDE DEF p
  <2>4. \A x \in T : T \ {x} \in SUBSET S /\ Good(T \ {x})
    BY <1>3, <1>5, <2>1
  <2>5. F[p] \in Int /\ it[T \ {p}] \in Int
    BY <2>2, <2>4
  <2>6. ASSUME NEW x \in T PROVE it[T] = F[x] + it[T \ {x}]
    <3>1. CASE x = p
      BY <2>3, <3>1
    <3>2. CASE x # p
      <4>1. it[T \ {p}] = F[x] + it[(T \ {p}) \ {x}]
        BY <2>2, <2>4, <3>2
      <4>2. it[T \ {x}] = F[p] + it[(T \ {x}) \ {p}]
        BY <2>2, <2>4, <3>2
      <4>3. (T \ {p}) \ {x} = (T \ {x}) \ {p}
        OBVIOUS
      <4>4. /\ T \ {p} \in SUBSET S /\ Cardinality(T \ {p}) = m /\ x \in T \ {p}
            /\ (T \ {p}) \ {x} \in SUBSET S
        BY <1>3, <2>1, <2>2, <3>2
      <4>5. Cardinality((T \ {p}) \ {x}) = m - 1
        BY <1>3, <4>4
      <4>6. it[(T \ {p}) \ {x}] \in Int
        BY <1>5, <4>4, <4>5
      <4> DEFINE rest == it[(T \ {p}) \ {x}]
                 a == it[T \ {p}]
                 b == it[T \ {x}]
      <4>7. a = F[x] + rest /\ b = F[p] + rest /\ rest \in Int /\ F[x] \in Int /\ it[T] = F[p] + a
        BY <2>3, <4>1, <4>2, <4>3, <4>6
      <4> HIDE DEF rest, a
      <4>8. it[T] = F[x] + b
        BY <2>5, <4>7
      <4> QED BY <4>8
    <3> QED BY <3>1, <3>2
  <2>7. it[T] \in Int
    BY <2>3, <2>5
  <2> QED BY <2>6, <2>7
<1>6. Good(S)
  <2> HIDE DEF G
  <2>1. Nat \subseteq G
    BY <1>4, <1>5, NatInductionOnSet, Zenon
  <2>2. Cardinality(S) \in G
    BY <1>2, <2>1
  <2> QED BY <2>2 DEF G
<1>7. \A T \in SUBSET S : SumFunctionOnSet(F, T) = it[T]
  BY <1>1, SumIsSum
<1> QED BY <1>6, <1>7

\* One more element adds its value.
LEMMA SumAdd ==
  ASSUME NEW S, IsFiniteSet(S), NEW F \in [S -> Int]
  PROVE  \A T \in SUBSET S : \A x \in S \ T :
           /\ SumFunctionOnSet(F, T) \in Int
           /\ SumFunctionOnSet(F, T \cup {x}) = F[x] + SumFunctionOnSet(F, T)
<1> SUFFICES ASSUME NEW T \in SUBSET S, NEW x \in S \ T
             PROVE  /\ SumFunctionOnSet(F, T) \in Int
                    /\ SumFunctionOnSet(F, T \cup {x}) = F[x] + SumFunctionOnSet(F, T)
  OBVIOUS
<1>1. IsFiniteSet(T) /\ IsFiniteSet(T \cup {x})
  BY FS_Subset
<1>2. (T \cup {x}) \ {x} = T /\ \A y \in T \cup {x} : F[y] \in Int
  OBVIOUS
<1>3. SumFunctionOnSet(F, T) \in Int
  BY <1>1, <1>2, SumTakeOut
<1>4. SumFunctionOnSet(F, T \cup {x}) = F[x] + SumFunctionOnSet(F, (T \cup {x}) \ {x})
  BY <1>1, <1>2, SumTakeOut
<1> QED BY <1>2, <1>3, <1>4

THEOREM SumType ==
  ASSUME NEW S, IsFiniteSet(S), NEW F \in [S -> Int]
  PROVE  SumFunction(F) \in Int
<1>1. \A x \in S : F[x] \in Int
  OBVIOUS
<1>2. SumFunctionOnSet(F, S) \in Int
  BY <1>1, SumTakeOut
<1>3. DOMAIN F = S
  OBVIOUS
<1> QED BY <1>2, <1>3 DEF SumFunction

\* A function that is nowhere greater has no greater a sum.
THEOREM SumMonotonic ==
  ASSUME NEW S, IsFiniteSet(S), NEW F \in [S -> Int], NEW G \in [S -> Int],
         \A x \in S : F[x] <= G[x]
  PROVE  SumFunction(F) <= SumFunction(G)
<1> DEFINE Good == {T \in SUBSET S : SumFunctionOnSet(F, T) <= SumFunctionOnSet(G, T)}
<1>F. \A T \in SUBSET S : \A x \in S \ T :
         /\ SumFunctionOnSet(F, T) \in Int
         /\ SumFunctionOnSet(F, T \cup {x}) = F[x] + SumFunctionOnSet(F, T)
  BY SumAdd, Zenon
<1>G. \A T \in SUBSET S : \A x \in S \ T :
         /\ SumFunctionOnSet(G, T) \in Int
         /\ SumFunctionOnSet(G, T \cup {x}) = G[x] + SumFunctionOnSet(G, T)
  BY SumAdd, Zenon
<1>1. {} \in Good
  BY SumEmpty
<1>2. ASSUME NEW T \in SUBSET S, T \in Good, NEW x \in S \ T PROVE T \cup {x} \in Good
  <2>1. /\ SumFunctionOnSet(F, T) \in Int
        /\ SumFunctionOnSet(F, T \cup {x}) = F[x] + SumFunctionOnSet(F, T)
    BY <1>F
  <2>2. /\ SumFunctionOnSet(G, T) \in Int
        /\ SumFunctionOnSet(G, T \cup {x}) = G[x] + SumFunctionOnSet(G, T)
    BY <1>G
  <2>3. F[x] \in Int /\ G[x] \in Int /\ F[x] <= G[x] /\ T \cup {x} \in SUBSET S
    OBVIOUS
  <2> QED BY <1>2, <2>1, <2>2, <2>3
<1>3. S \in Good
  <2> HIDE DEF Good
  <2> QED BY <1>1, <1>2, FiniteInductionOnSet
<1>4. DOMAIN F = S /\ DOMAIN G = S
  OBVIOUS
<1> QED BY <1>3, <1>4 DEF SumFunction

\* The sum of a pointwise sum.
THEOREM SumOfSums ==
  ASSUME NEW S, IsFiniteSet(S), NEW F \in [S -> Int], NEW G \in [S -> Int], NEW H \in [S -> Int],
         \A x \in S : H[x] = F[x] + G[x]
  PROVE  SumFunction(H) = SumFunction(F) + SumFunction(G)
<1> DEFINE Good == {T \in SUBSET S :
              SumFunctionOnSet(H, T) = SumFunctionOnSet(F, T) + SumFunctionOnSet(G, T)}
<1>F. \A T \in SUBSET S : \A x \in S \ T :
         /\ SumFunctionOnSet(F, T) \in Int
         /\ SumFunctionOnSet(F, T \cup {x}) = F[x] + SumFunctionOnSet(F, T)
  BY SumAdd, Zenon
<1>G. \A T \in SUBSET S : \A x \in S \ T :
         /\ SumFunctionOnSet(G, T) \in Int
         /\ SumFunctionOnSet(G, T \cup {x}) = G[x] + SumFunctionOnSet(G, T)
  BY SumAdd, Zenon
<1>H. \A T \in SUBSET S : \A x \in S \ T :
         /\ SumFunctionOnSet(H, T) \in Int
         /\ SumFunctionOnSet(H, T \cup {x}) = H[x] + SumFunctionOnSet(H, T)
  BY SumAdd, Zenon
<1>1. {} \in Good
  BY SumEmpty
<1>2. ASSUME NEW T \in SUBSET S, T \in Good, NEW x \in S \ T PROVE T \cup {x} \in Good
  <2>1. /\ SumFunctionOnSet(F, T) \in Int
        /\ SumFunctionOnSet(F, T \cup {x}) = F[x] + SumFunctionOnSet(F, T)
    BY <1>F
  <2>2. /\ SumFunctionOnSet(G, T) \in Int
        /\ SumFunctionOnSet(G, T \cup {x}) = G[x] + SumFunctionOnSet(G, T)
    BY <1>G
  <2>3. SumFunctionOnSet(H, T \cup {x}) = H[x] + SumFunctionOnSet(H, T)
    BY <1>H
  <2>4. F[x] \in Int /\ G[x] \in Int /\ H[x] = F[x] + G[x] /\ T \cup {x} \in SUBSET S
    OBVIOUS
  <2> QED BY <1>2, <2>1, <2>2, <2>3, <2>4
<1>3. S \in Good
  <2> HIDE DEF Good
  <2> QED BY <1>1, <1>2, FiniteInductionOnSet
<1>4. DOMAIN F = S /\ DOMAIN G = S /\ DOMAIN H = S
  OBVIOUS
<1> QED BY <1>3, <1>4 DEF SumFunction

THEOREM SumOfZeros ==
  ASSUME NEW S, IsFiniteSet(S), NEW F \in [S -> Int], \A x \in S : F[x] = 0
  PROVE  SumFunction(F) = 0
<1>1. SumFunction(F) = SumFunction(F) + SumFunction(F)
  BY SumOfSums
<1>2. SumFunction(F) \in Int
  BY SumType
<1>3. \A a \in Int : a = a + a => a = 0
  OBVIOUS
<1> QED BY <1>1, <1>2, <1>3

\* A sum of naturals is one, and is no less than any of them.
THEOREM SumOfNats ==
  ASSUME NEW S, IsFiniteSet(S), NEW F \in [S -> Nat]
  PROVE  SumFunction(F) \in Nat
<1> DEFINE Z == [x \in S |-> 0]
<1>1. F \in [S -> Int] /\ Z \in [S -> Int] /\ \A x \in S : Z[x] = 0 /\ Z[x] <= F[x]
  OBVIOUS
<1> HIDE DEF Z
<1>2. SumFunction(Z) = 0
  BY <1>1, SumOfZeros
<1>3. SumFunction(Z) <= SumFunction(F)
  BY <1>1, SumMonotonic
<1>4. SumFunction(F) \in Int
  BY <1>1, SumType
<1> QED BY <1>2, <1>3, <1>4

\* Where a function changes at one place, its sum changes by as much.
THEOREM SumChanged ==
  ASSUME NEW S, IsFiniteSet(S), NEW F \in [S -> Int], NEW G \in [S -> Int], NEW x \in S,
         \A y \in S \ {x} : G[y] = F[y]
  PROVE  SumFunction(G) = SumFunction(F) - F[x] + G[x]
<1> DEFINE R == S \ {x}
           Good == {T \in SUBSET R : SumFunctionOnSet(F, T) = SumFunctionOnSet(G, T)}
<1>1. {} \in Good
  BY SumEmpty
<1>2. ASSUME NEW T \in SUBSET R, T \in Good, NEW y \in R \ T PROVE T \cup {y} \in Good
  <2>1. SumFunctionOnSet(F, T \cup {y}) = F[y] + SumFunctionOnSet(F, T)
    BY SumAdd
  <2>2. SumFunctionOnSet(G, T \cup {y}) = G[y] + SumFunctionOnSet(G, T)
    BY SumAdd
  <2> QED BY <1>2, <2>1, <2>2
<1>3. R \in Good
  <2>1. IsFiniteSet(R)
    BY FS_RemoveElement
  <2> HIDE DEF Good, R
  <2> QED BY <1>1, <1>2, <2>1, FiniteInductionOnSet
<1>4. R \in SUBSET S /\ x \in S \ R /\ R \cup {x} = S
  OBVIOUS
<1> HIDE DEF R
<1>5. SumFunctionOnSet(F, R) \in Int /\ SumFunctionOnSet(F, S) = F[x] + SumFunctionOnSet(F, R)
  BY <1>4, SumAdd
<1>6. SumFunctionOnSet(G, S) = G[x] + SumFunctionOnSet(G, R)
  BY <1>4, SumAdd
<1>7. DOMAIN F = S /\ DOMAIN G = S /\ F[x] \in Int /\ G[x] \in Int
  OBVIOUS
<1> QED BY <1>3, <1>5, <1>6, <1>7 DEF SumFunction

----------------------------------------------------------------------------
(* Layers *)

\* What the recursive function of UpTo is.
LEMMA UpToRecursion ==
  ASSUME NEW last \in Nat, NEW left, \A n \in 1..last : left[n] \in Int
  PROVE  /\ UpTo(left, last) \in [0..last -> Int]
         /\ UpTo(left, last)[0] = 0
         /\ \A n \in 1..last : UpTo(left, last)[n] = UpTo(left, last)[n-1] + left[n]
<1> DEFINE Good(g, m) == /\ g = [n \in 0..m |-> IF n = 0 THEN 0 ELSE g[n-1] + left[n]]
                         /\ g \in [0..m -> Int]
           S == {m \in Nat : m <= last => \E g : Good(g, m)}
<1>1. 0 \in S
  <2> DEFINE g == [n \in 0..0 |-> 0]
  <2>1. Good(g, 0)
    OBVIOUS
  <2> QED BY <2>1, Zenon
<1>2. ASSUME NEW m \in Nat, m \in S PROVE m + 1 \in S
  <2>1. SUFFICES ASSUME m + 1 <= last PROVE \E g : Good(g, m + 1)
    OBVIOUS
  <2>2. PICK g : Good(g, m)
    BY <1>2, <2>1
  <2> DEFINE h == [n \in 0..(m+1) |-> IF n = m + 1 THEN g[m] + left[m+1] ELSE g[n]]
  <2>3. left[m+1] \in Int /\ g[m] \in Int
    BY <2>1, <2>2
  <2>4. h \in [0..(m+1) -> Int]
    BY <2>2, <2>3
  <2>5. ASSUME NEW n \in 0..(m+1) PROVE h[n] = IF n = 0 THEN 0 ELSE h[n-1] + left[n]
    <3>1. CASE n = m + 1
      BY <3>1, <2>3
    <3>2. CASE n # m + 1
      <4>1. n \in 0..m /\ h[n] = g[n]
        BY <3>2
      <4>2. g[n] = IF n = 0 THEN 0 ELSE g[n-1] + left[n]
        BY <4>1, <2>2
      <4>3. n # 0 => n - 1 \in 0..m /\ h[n-1] = g[n-1]
        BY <4>1
      <4> QED BY <4>1, <4>2, <4>3
    <3> QED BY <3>1, <3>2
  <2>6. h = [n \in 0..(m+1) |-> IF n = 0 THEN 0 ELSE h[n-1] + left[n]]
    BY <2>4, <2>5, Zenon
  <2>7. Good(h, m + 1)
    BY <2>4, <2>6
  <2> QED BY <2>7, Zenon
<1>3. last \in S
  BY <1>1, <1>2, NatInductionOnSet, Zenon
<1>4. PICK g : Good(g, last)
  BY <1>3
<1> DEFINE sum == CHOOSE sum : sum = [n \in 0..last |-> IF n = 0 THEN 0 ELSE sum[n-1] + left[n]]
<1>5. sum = [n \in 0..last |-> IF n = 0 THEN 0 ELSE sum[n-1] + left[n]]
  BY <1>4, Zenon
<1>6. UpTo(left, last) = sum
  BY Zenon DEF UpTo
<1> HIDE DEF sum
<1>7. sum[0] = 0 /\ \A n \in 1..last : sum[n] = sum[n-1] + left[n]
  BY <1>5
<1> DEFINE R == {m \in Nat : m <= last => sum[m] \in Int}
<1>8. 0 \in R
  BY <1>7
<1>9. ASSUME NEW m \in Nat, m \in R PROVE m + 1 \in R
  <2>1. SUFFICES ASSUME m + 1 <= last PROVE sum[m+1] \in Int
    OBVIOUS
  <2>2. sum[m] \in Int /\ m + 1 \in 1..last /\ left[m+1] \in Int
    BY <2>1, <1>9
  <2> QED BY <2>2, <1>7
<1>10. Nat \subseteq R
  BY <1>8, <1>9, NatInductionOnSet, Zenon
<1>11. \A m \in 0..last : sum[m] \in Int
  BY <1>10
<1> QED BY <1>5, <1>6, <1>7, <1>11

THEOREM ParkedType ==
  ASSUME NEW last \in Nat, NEW left, \A n \in 1..last : left[n] \in Int
  PROVE  Parked(left, last) \in Int
BY UpToRecursion DEF Parked

\* The layers of h hold what those of f and those of g hold together.
THEOREM ParkedOfSums ==
  ASSUME NEW last \in Nat, NEW f, NEW g, NEW h,
         \A n \in 1..last : f[n] \in Int /\ g[n] \in Int /\ h[n] = f[n] + g[n]
  PROVE  Parked(h, last) = Parked(f, last) + Parked(g, last)
<1> DEFINE F == UpTo(f, last)
           G == UpTo(g, last)
           H == UpTo(h, last)
           S == {m \in Nat : m <= last => H[m] = F[m] + G[m]}
<1>1. /\ F \in [0..last -> Int] /\ F[0] = 0
      /\ \A n \in 1..last : F[n] = F[n-1] + f[n]
  BY UpToRecursion
<1>2. /\ G \in [0..last -> Int] /\ G[0] = 0
      /\ \A n \in 1..last : G[n] = G[n-1] + g[n]
  BY UpToRecursion
<1>3. /\ H \in [0..last -> Int] /\ H[0] = 0
      /\ \A n \in 1..last : H[n] = H[n-1] + h[n]
  BY UpToRecursion
<1> HIDE DEF F, G, H
<1>4. 0 \in S
  BY <1>1, <1>2, <1>3
<1>5. ASSUME NEW m \in Nat, m \in S PROVE m + 1 \in S
  <2>1. SUFFICES ASSUME m + 1 <= last PROVE H[m + 1] = F[m + 1] + G[m + 1]
    OBVIOUS
  <2>2. m + 1 \in 1..last /\ m \in 0..last /\ (m + 1) - 1 = m
    BY <2>1
  <2>3. F[m + 1] = F[m] + f[m + 1] /\ G[m + 1] = G[m] + g[m + 1] /\ H[m + 1] = H[m] + h[m + 1]
    BY <1>1, <1>2, <1>3, <2>2
  <2>4. H[m] = F[m] + G[m] /\ h[m + 1] = f[m + 1] + g[m + 1]
    BY <1>5, <2>1, <2>2
  <2>5. F[m] \in Int /\ G[m] \in Int /\ f[m + 1] \in Int /\ g[m + 1] \in Int
    BY <1>1, <1>2, <2>2
  <2> QED BY <2>3, <2>4, <2>5
<1>6. last \in S
  <2> HIDE DEF S
  <2> QED BY <1>4, <1>5, NatInductionOnSet, Zenon
<1> QED BY <1>6 DEF Parked, F, G, H

THEOREM ParkedOfZeros ==
  ASSUME NEW last \in Nat, NEW f, \A n \in 1..last : f[n] = 0
  PROVE  Parked(f, last) = 0
<1>1. Parked(f, last) = Parked(f, last) + Parked(f, last)
  BY ParkedOfSums
<1>2. Parked(f, last) \in Int
  BY ParkedType
<1>3. \A a \in Int : a = a + a => a = 0
  OBVIOUS
<1> QED BY <1>1, <1>2, <1>3

\* The same layers hold the same.
THEOREM ParkedSame ==
  ASSUME NEW last \in Nat, NEW f, NEW g, \A n \in 1..last : f[n] \in Int /\ g[n] = f[n]
  PROVE  Parked(g, last) = Parked(f, last)
<1> DEFINE z == [n \in 1..last |-> 0]
<1>1. \A n \in 1..last : z[n] \in Int /\ z[n] = 0 /\ g[n] = f[n] + z[n]
  OBVIOUS
<1> HIDE DEF z
<1>2. Parked(g, last) = Parked(f, last) + Parked(z, last)
  BY <1>1, ParkedOfSums
<1>3. Parked(z, last) = 0
  BY <1>1, ParkedOfZeros
<1> QED BY <1>2, <1>3, ParkedType

\* One layer holds d more.
THEOREM ParkedChanged ==
  ASSUME NEW last \in Nat, NEW f, NEW g, NEW k \in 1..last, NEW d \in Int,
         \A n \in 1..last : f[n] \in Int,
         \A n \in (1..last) \ {k} : g[n] = f[n],
         g[k] = f[k] + d
  PROVE  Parked(g, last) = Parked(f, last) + d
<1> DEFINE z == [n \in 1..last |-> IF n = k THEN d ELSE 0]
           Z == UpTo(z, last)
           S == {m \in Nat : m <= last => Z[m] = IF m < k THEN 0 ELSE d}
<1>1. \A n \in 1..last : z[n] \in Int /\ z[n] = (IF n = k THEN d ELSE 0) /\ g[n] = f[n] + z[n]
  OBVIOUS
<1> HIDE DEF z
<1>2. Parked(g, last) = Parked(f, last) + Parked(z, last)
  BY <1>1, ParkedOfSums
<1>3. /\ Z \in [0..last -> Int] /\ Z[0] = 0
      /\ \A n \in 1..last : Z[n] = Z[n-1] + z[n]
  BY <1>1, UpToRecursion
<1> HIDE DEF Z
<1>4. 0 \in S
  BY <1>3
<1>5. ASSUME NEW m \in Nat, m \in S PROVE m + 1 \in S
  <2>1. SUFFICES ASSUME m + 1 <= last PROVE Z[m + 1] = IF m + 1 < k THEN 0 ELSE d
    OBVIOUS
  <2>2. m + 1 \in 1..last /\ (m + 1) - 1 = m
    BY <2>1
  <2>3. Z[m + 1] = Z[m] + (IF m + 1 = k THEN d ELSE 0) /\ Z[m] = IF m < k THEN 0 ELSE d
    BY <1>1, <1>3, <1>5, <2>1, <2>2
  <2> QED BY <2>3
<1>6. last \in S
  <2> HIDE DEF S
  <2> QED BY <1>4, <1>5, NatInductionOnSet, Zenon
<1>7. Parked(z, last) = d
  BY <1>6 DEF Parked, Z
<1> QED BY <1>2, <1>7

\* What lies up to a layer is a natural, and grows from layer to layer.
THEOREM UpToGrows ==
  ASSUME NEW last \in Nat, NEW left, \A n \in 1..last : left[n] \in Nat
  PROVE  \A n \in 0..last :
           /\ UpTo(left, last)[n] \in Nat
           /\ \A m \in 0..n : UpTo(left, last)[m] <= UpTo(left, last)[n]
<1> DEFINE U == UpTo(left, last)
           S == {n \in Nat : n <= last => U[n] \in Nat /\ \A m \in 0..n : U[m] <= U[n]}
<1>1. U \in [0..last -> Int] /\ U[0] = 0 /\ \A n \in 1..last : U[n] = U[n-1] + left[n]
  BY UpToRecursion
<1> HIDE DEF U
<1>2. 0 \in S
  BY <1>1
<1>3. ASSUME NEW n \in Nat, n \in S PROVE n + 1 \in S
  <2>1. SUFFICES ASSUME n + 1 <= last
                 PROVE  U[n + 1] \in Nat /\ \A m \in 0..(n + 1) : U[m] <= U[n + 1]
    OBVIOUS
  <2>2. n + 1 \in 1..last /\ (n + 1) - 1 = n
    BY <2>1
  <2>3. U[n + 1] = U[n] + left[n + 1] /\ left[n + 1] \in Nat
    BY <1>1, <2>2
  <2>4. U[n] \in Nat /\ \A m \in 0..n : U[m] <= U[n] /\ U[m] \in Int
    BY <1>1, <1>3, <2>1
  <2> QED BY <2>3, <2>4
<1>4. Nat \subseteq S
  <2> HIDE DEF S
  <2> QED BY <1>2, <1>3, NatInductionOnSet, Zenon
<1> QED BY <1>4 DEF U

\* What is left of a layer is between nothing and what was there; nothing leaves a layer while an
\* older one has anything left.
THEOREM LeftBounds ==
  ASSUME NEW last \in Nat, NEW left, \A n \in 1..last : left[n] \in Nat, NEW qty \in Nat
  PROVE  /\ Left(left, last, qty) \in [1..last -> Nat]
         /\ \A n \in 1..last : Left(left, last, qty)[n] <= left[n]
         /\ \A n \in 1..last : Left(left, last, qty)[n] < left[n] =>
              \A m \in 1..(n - 1) : Left(left, last, qty)[m] = 0
<1> DEFINE U == UpTo(left, last)
           L == Left(left, last, qty)
<1>1. \A n \in 0..last : U[n] \in Nat /\ \A m \in 0..n : U[m] <= U[n]
  BY UpToGrows
<1>2. \A n \in 1..last : U[n] = U[n-1] + left[n]
  BY UpToRecursion
<1>3. L = [n \in 1..last |-> IF U[n-1] >= qty THEN left[n]
                             ELSE left[n] - Least(left[n], qty - U[n-1])]
  BY DEF Left
<1> HIDE DEF U, L
<1>4. ASSUME NEW n \in 1..last
      PROVE  /\ L[n] \in Nat
             /\ L[n] <= left[n]
             /\ L[n] < left[n] => U[n-1] < qty
             /\ U[n] <= qty => L[n] = 0
  <2>1. n - 1 \in 0..last /\ U[n-1] \in Nat /\ U[n] = U[n-1] + left[n] /\ left[n] \in Nat
    BY <1>1, <1>2
  <2>2. CASE U[n-1] >= qty
    BY <1>3, <2>1, <2>2
  <2>3. CASE U[n-1] < qty
    <3>1. L[n] = left[n] - Least(left[n], qty - U[n-1])
      BY <1>3, <2>1, <2>3
    <3> QED BY <2>1, <2>3, <3>1 DEF Least
  <2> QED BY <2>1, <2>2, <2>3
<1>5. ASSUME NEW n \in 1..last, L[n] < left[n], NEW m \in 1..(n - 1) PROVE L[m] = 0
  <2>1. m \in 1..last /\ m \in 0..(n - 1) /\ n - 1 \in 0..last
    OBVIOUS
  <2>2. U[m] <= U[n-1] /\ U[n-1] < qty /\ U[m] \in Nat /\ U[n-1] \in Nat
    BY <1>1, <1>4, <1>5, <2>1
  <2> QED BY <1>4, <2>1, <2>2
<1>6. L \in [1..last -> Nat]
  BY <1>3, <1>4
<1> QED BY <1>4, <1>5, <1>6 DEF L

\* Taking qty from layers that hold as much leaves qty less.
THEOREM ParkedLeft ==
  ASSUME NEW last \in Nat, NEW left, \A n \in 1..last : left[n] \in Nat,
         NEW qty \in Nat, Parked(left, last) >= qty
  PROVE  Parked(Left(left, last, qty), last) = Parked(left, last) - qty
<1> DEFINE U == UpTo(left, last)
           L == Left(left, last, qty)
           V == UpTo(L, last)
           S == {n \in Nat : n <= last => V[n] = IF U[n] >= qty THEN U[n] - qty ELSE 0}
<1>1. \A n \in 0..last : U[n] \in Nat
  BY UpToGrows
<1>2. U[0] = 0 /\ \A n \in 1..last : U[n] = U[n-1] + left[n]
  BY UpToRecursion
<1>3. \A n \in 1..last : L[n] = IF U[n-1] >= qty THEN left[n]
                                ELSE left[n] - Least(left[n], qty - U[n-1])
  BY DEF Left
<1>4. \A n \in 1..last : L[n] \in Int
  <2>1. L \in [1..last -> Nat]
    BY LeftBounds
  <2> QED BY <2>1
<1> HIDE DEF U, L
<1>5. V[0] = 0 /\ \A n \in 1..last : V[n] = V[n-1] + L[n]
  BY <1>4, UpToRecursion
<1> HIDE DEF V
<1>6. 0 \in S
  BY <1>2, <1>5
<1>7. ASSUME NEW n \in Nat, n \in S PROVE n + 1 \in S
  <2>1. SUFFICES ASSUME n + 1 <= last
                 PROVE  V[n + 1] = IF U[n + 1] >= qty THEN U[n + 1] - qty ELSE 0
    OBVIOUS
  <2> DEFINE k == n + 1
             a == U[n]
             x == left[k]
  <2>2. k \in 1..last /\ k - 1 = n /\ n \in 0..last
    BY <2>1
  <2>3. U[k] = a + x /\ a \in Nat /\ x \in Nat
    BY <1>1, <1>2, <2>2
  <2>4. V[k] = V[n] + L[k] /\ V[n] = IF a >= qty THEN a - qty ELSE 0
    BY <1>5, <1>7, <2>1, <2>2
  <2>5. L[k] = IF a >= qty THEN x ELSE x - Least(x, qty - a)
    BY <1>3, <2>2
  <2> HIDE DEF k, a, x
  <2>6. V[k] = IF U[k] >= qty THEN U[k] - qty ELSE 0
    BY <2>3, <2>4, <2>5 DEF Least
  <2> QED BY <2>6 DEF k
<1>8. last \in S
  <2> HIDE DEF S
  <2> QED BY <1>6, <1>7, NatInductionOnSet, Zenon
<1>9. V[last] = IF U[last] >= qty THEN U[last] - qty ELSE 0
  BY <1>8
<1> QED BY <1>9 DEF Parked, U, V, L
=============================================================================
