-------------------------------- MODULE Sums --------------------------------
(***************************************************************************)
(* Sums over finite sets, as balances, holds and fills are added up in the *)
(* ledger and the offer book: what SumFunctionOnSet of the community       *)
(* modules gives for an empty set, one more element, or a changed summand. *)
(*                                                                         *)
(* The provers cannot use an induction theorem with an operator parameter, *)
(* so each induction here takes the least counterexample instead.          *)
(***************************************************************************)
EXTENDS Integers, FiniteSets, FiniteSetsExt, FiniteSetTheorems, WellFoundedInduction, TLAPS

-----------------------------------------------------------------------------
(* Least and greatest elements                                             *)

NatLess == {p \in Nat \X Nat : p[1] < p[2]}

\* The order of the naturals is well founded.
LEMMA NatLessWellFounded == IsWellFoundedOn(NatLess, Nat)
<1>1. NatLess = OpToRel(<, Nat)
  BY DEF NatLess, OpToRel
<1> QED
  BY <1>1, NatLessThanWellFounded

\* A set of naturals has a least element.
LEMMA LeastNatural ==
    ASSUME NEW S \in SUBSET Nat, S # {}
    PROVE  \E x \in S : \A y \in S : x <= y
<1>1. PICK x \in S : \A y \in S : ~(<<y, x>> \in NatLess)
  BY NatLessWellFounded, WFMin
<1>2. x \in Nat
  BY <1>1
<1>3. ASSUME NEW y \in S PROVE x <= y
  <2>1. <<y, x>> \notin NatLess
    BY <1>1
  <2>2. <<y, x>> \in Nat \X Nat
    BY <1>2
  <2> QED
    BY <2>1, <2>2, <1>2 DEF NatLess
<1> QED
  BY <1>1, <1>3

-----------------------------------------------------------------------------
(* The recursive function behind SumFunctionOnSet                          *)

Chosen(T) == CHOOSE x \in T : TRUE

\* sum gives every subset of S the sum of f over it, one chosen element at a time.
SumsUp(f, S, sum) ==
    sum = [T \in SUBSET S |-> IF T = {} THEN 0 ELSE f[Chosen(T)] + sum[T \ {Chosen(T)}]]

\* The library's definition, its LET written out.
LEMMA SumUnfolds ==
    ASSUME NEW f, NEW S
    PROVE  SumFunctionOnSet(f, S) = (CHOOSE sum : SumsUp(f, S, sum))[S]
BY DEF SumFunctionOnSet, FoldFunctionOnSet, MapThenFoldSet, SumsUp, Chosen

\* The chosen element of a set is in it.
LEMMA ChosenIn ==
    ASSUME NEW T, T # {}
    PROVE  Chosen(T) \in T
BY DEF Chosen

\* Taking the chosen element out of a subset.
LEMMA WithoutChosen ==
    ASSUME NEW S, IsFiniteSet(S), NEW T \in SUBSET S, T # {}
    PROVE  /\ T \ {Chosen(T)} \in SUBSET S
           /\ Cardinality(T) \in Nat /\ Cardinality(T) > 0
           /\ Cardinality(T \ {Chosen(T)}) = Cardinality(T) - 1
<1>1. IsFiniteSet(T) /\ Cardinality(T) \in Nat
  BY FS_Subset, FS_CardinalityType
<1>2. IsFiniteSet(T \ {Chosen(T)}) /\ Cardinality(T \ {Chosen(T)}) = Cardinality(T) - 1
  BY <1>1, FS_RemoveElement, ChosenIn
<1>3. Cardinality(T \ {Chosen(T)}) \in Nat
  BY <1>2, FS_CardinalityType
<1> QED
  BY <1>1, <1>2, <1>3

\* Over a finite set the recursion has a solution.
LEMMA SumExists ==
    ASSUME NEW S, IsFiniteSet(S), NEW f
    PROVE  \E sum : SumsUp(f, S, sum)
<1> DEFINE Small(n) == {T \in SUBSET S : Cardinality(T) <= n}
           Upto(n, g) == g = [T \in Small(n) |->
                                IF T = {} THEN 0 ELSE f[Chosen(T)] + g[T \ {Chosen(T)}]]
           Bad == {n \in Nat : ~\E g : Upto(n, g)}
<1>0. \A T \in SUBSET S : Cardinality(T) \in Nat
  BY FS_Subset, FS_CardinalityType
<1>1. Bad = {}
  <2> SUFFICES ASSUME Bad # {} PROVE FALSE
    OBVIOUS
  <2>1. PICK b \in Bad : \A n \in Bad : b <= n
    BY LeastNatural
  <2>2. b \in Nat /\ ~\E g : Upto(b, g)
    BY <2>1
  <2>3. CASE b = 0
    <3> DEFINE g == [T \in Small(b) |-> 0]
    <3>1. ASSUME NEW T \in Small(b), T # {} PROVE FALSE
      <4>1. Cardinality(T) > 0 /\ Cardinality(T) \in Nat
        BY <3>1, WithoutChosen
      <4>2. Cardinality(T) <= 0
        BY <2>3
      <4> QED
        BY <4>1, <4>2
    <3>2. Upto(b, g)
      BY <3>1
    <3> QED
      BY <2>2, <3>2
  <2>4. CASE b > 0
    <3>0. b - 1 \in Nat /\ ~(b <= b - 1)
      BY <2>2, <2>4
    <3>1. b - 1 \notin Bad
      BY <2>1, <3>0
    <3>2. PICK g : Upto(b - 1, g)
      BY <3>0, <3>1
    <3> DEFINE h == [T \in Small(b) |->
                       IF T = {} THEN 0 ELSE f[Chosen(T)] + g[T \ {Chosen(T)}]]
    <3>3. ASSUME NEW T \in Small(b), T # {}
          PROVE  h[T \ {Chosen(T)}] = g[T \ {Chosen(T)}]
      <4>1. T \ {Chosen(T)} \in Small(b - 1)
        BY <3>3, <1>0, <2>2, WithoutChosen
      <4>2. T \ {Chosen(T)} \in Small(b)
        BY <4>1, <1>0, <2>2
      <4> QED
        BY <4>1, <4>2, <3>2
    <3>4. \A T \in Small(b) :
             (IF T = {} THEN 0 ELSE f[Chosen(T)] + g[T \ {Chosen(T)}])
             = (IF T = {} THEN 0 ELSE f[Chosen(T)] + h[T \ {Chosen(T)}])
      BY <3>3
    <3>5. h = [T \in Small(b) |-> IF T = {} THEN 0 ELSE f[Chosen(T)] + h[T \ {Chosen(T)}]]
      BY <3>4
    <3> QED
      BY <2>2, <3>5
  <2> QED
    BY <2>2, <2>3, <2>4
<1>2. Cardinality(S) \in Nat
  BY FS_CardinalityType
<1>3. PICK g : Upto(Cardinality(S), g)
  BY <1>1, <1>2
<1>4. Small(Cardinality(S)) = SUBSET S
  BY FS_Subset
<1>5. SumsUp(f, S, g)
  BY <1>3, <1>4 DEF SumsUp
<1> QED
  BY <1>5

\* Two sums agree wherever their summands do.
LEMMA SumsAgree ==
    ASSUME NEW S, IsFiniteSet(S), NEW R \in SUBSET S, NEW f, NEW g, NEW s, NEW r,
           SumsUp(f, S, s), SumsUp(g, R, r), \A x \in R : f[x] = g[x]
    PROVE  \A T \in SUBSET R : s[T] = r[T]
<1> DEFINE Odd == {T \in SUBSET R : s[T] # r[T]}
           Sizes == {Cardinality(T) : T \in Odd}
<1>1. IsFiniteSet(R) /\ \A T \in SUBSET R : Cardinality(T) \in Nat
  BY FS_Subset, FS_CardinalityType
<1> SUFFICES ASSUME Odd # {} PROVE FALSE
  OBVIOUS
<1>2. Sizes \in SUBSET Nat /\ Sizes # {}
  BY <1>1
<1>3. PICK n \in Sizes : \A k \in Sizes : n <= k
  BY <1>2, LeastNatural
<1>4. PICK T \in Odd : n = Cardinality(T)
  BY <1>3
<1>5. T \in SUBSET R /\ T \in SUBSET S /\ s[T] # r[T]
  BY <1>4
<1>6. CASE T = {}
  BY <1>5, <1>6 DEF SumsUp
<1>7. CASE T # {}
  <2>1. /\ T \ {Chosen(T)} \in SUBSET R
        /\ Cardinality(T) \in Nat /\ Cardinality(T \ {Chosen(T)}) = Cardinality(T) - 1
    BY <1>1, <1>5, <1>7, WithoutChosen
  <2>2. T \ {Chosen(T)} \notin Odd
    <3> SUFFICES ASSUME T \ {Chosen(T)} \in Odd PROVE FALSE
      OBVIOUS
    <3>1. Cardinality(T \ {Chosen(T)}) \in Sizes
      OBVIOUS
    <3>2. n <= Cardinality(T) - 1
      BY <3>1, <2>1, <1>3
    <3> QED
      BY <3>2, <2>1, <1>4
  <2>3. s[T \ {Chosen(T)}] = r[T \ {Chosen(T)}]
    BY <2>1, <2>2
  <2>4. f[Chosen(T)] = g[Chosen(T)]
    BY <1>5, <1>7, ChosenIn
  <2>5. s[T] = f[Chosen(T)] + s[T \ {Chosen(T)}]
    BY <1>5, <1>7 DEF SumsUp
  <2>6. r[T] = g[Chosen(T)] + r[T \ {Chosen(T)}]
    BY <1>5, <1>7 DEF SumsUp
  <2> QED
    BY <1>5, <2>3, <2>4, <2>5, <2>6
<1> QED
  BY <1>6, <1>7

\* A sum over part of a set is the value of the whole's recursion there.
LEMMA SumIs ==
    ASSUME NEW S, IsFiniteSet(S), NEW f, NEW sum, SumsUp(f, S, sum), NEW T \in SUBSET S
    PROVE  SumFunctionOnSet(f, T) = sum[T]
<1> DEFINE own == CHOOSE r : SumsUp(f, T, r)
<1>1. IsFiniteSet(T)
  BY FS_Subset
<1>2. SumsUp(f, T, own)
  BY <1>1, SumExists
<1>3. sum[T] = own[T]
  <2> HIDE DEF own
  <2> QED
    BY <1>2, SumsAgree
<1> QED
  BY <1>3, SumUnfolds

-----------------------------------------------------------------------------
(* What sums are                                                           *)

\* Nothing sums to zero.
LEMMA SumEmpty ==
    ASSUME NEW f
    PROVE  SumFunctionOnSet(f, {}) = 0
<1>1. IsFiniteSet({})
  BY FS_EmptySet
<1>2. PICK sum : SumsUp(f, {}, sum)
  BY <1>1, SumExists
<1>3. SumFunctionOnSet(f, {}) = sum[{}]
  BY <1>1, <1>2, SumIs
<1> QED
  BY <1>2, <1>3 DEF SumsUp

\* The same summands give the same sum.
LEMMA SumSame ==
    ASSUME NEW S, IsFiniteSet(S), NEW f, NEW g, \A x \in S : f[x] = g[x]
    PROVE  SumFunctionOnSet(f, S) = SumFunctionOnSet(g, S)
<1>1. PICK s : SumsUp(f, S, s)
  BY SumExists
<1>2. PICK r : SumsUp(g, S, r)
  BY SumExists
<1>3. s[S] = r[S]
  <2>1. S \in SUBSET S
    OBVIOUS
  <2>2. \A T \in SUBSET S : s[T] = r[T]
    BY <1>1, <1>2, <2>1, SumsAgree
  <2> QED
    BY <2>1, <2>2
<1> QED
  BY <1>1, <1>2, <1>3, SumIs

\* The recursion's first step, for the chosen element.
LEMMA SumChosen ==
    ASSUME NEW S, IsFiniteSet(S), S # {}, NEW f
    PROVE  SumFunctionOnSet(f, S) = f[Chosen(S)] + SumFunctionOnSet(f, S \ {Chosen(S)})
<1>1. PICK sum : SumsUp(f, S, sum)
  BY SumExists
<1>2. sum[S] = f[Chosen(S)] + sum[S \ {Chosen(S)}]
  BY <1>1 DEF SumsUp
<1>3. SumFunctionOnSet(f, S) = sum[S]
  BY <1>1, SumIs
<1>4. SumFunctionOnSet(f, S \ {Chosen(S)}) = sum[S \ {Chosen(S)}]
  BY <1>1, SumIs
<1> QED
  BY <1>2, <1>3, <1>4

\* A sum of integers is an integer.
LEMMA SumInt ==
    ASSUME NEW S, IsFiniteSet(S), NEW f, \A x \in S : f[x] \in Int
    PROVE  SumFunctionOnSet(f, S) \in Int
<1> DEFINE Odd == {T \in SUBSET S : SumFunctionOnSet(f, T) \notin Int}
           Sizes == {Cardinality(T) : T \in Odd}
<1>1. \A T \in SUBSET S : IsFiniteSet(T) /\ Cardinality(T) \in Nat
  BY FS_Subset, FS_CardinalityType
<1> SUFFICES ASSUME Odd # {} PROVE FALSE
  OBVIOUS
<1>2. Sizes \in SUBSET Nat /\ Sizes # {}
  BY <1>1
<1>3. PICK n \in Sizes : \A k \in Sizes : n <= k
  BY <1>2, LeastNatural
<1>4. PICK T \in Odd : n = Cardinality(T)
  BY <1>3
<1>5. T \in SUBSET S /\ SumFunctionOnSet(f, T) \notin Int /\ IsFiniteSet(T)
  BY <1>1, <1>4
<1>6. T # {}
  BY <1>5, SumEmpty
<1>7. /\ T \ {Chosen(T)} \in SUBSET S
      /\ Cardinality(T) \in Nat /\ Cardinality(T \ {Chosen(T)}) = Cardinality(T) - 1
  BY <1>5, <1>6, WithoutChosen
<1>8. T \ {Chosen(T)} \notin Odd
  <2> SUFFICES ASSUME T \ {Chosen(T)} \in Odd PROVE FALSE
    OBVIOUS
  <2>1. n <= Cardinality(T) - 1
    BY <1>7, <1>3
  <2> QED
    BY <2>1, <1>7, <1>4
<1>9. SumFunctionOnSet(f, T \ {Chosen(T)}) \in Int /\ f[Chosen(T)] \in Int
  BY <1>5, <1>6, <1>7, <1>8, ChosenIn
<1>10. SumFunctionOnSet(f, T) = f[Chosen(T)] + SumFunctionOnSet(f, T \ {Chosen(T)})
  BY <1>5, <1>6, SumChosen
<1> QED
  BY <1>5, <1>9, <1>10

\* Any element may be taken out first.
LEMMA SumRemove ==
    ASSUME NEW S, IsFiniteSet(S), NEW f, \A y \in S : f[y] \in Int, NEW x \in S
    PROVE  SumFunctionOnSet(f, S) = f[x] + SumFunctionOnSet(f, S \ {x})
<1> DEFINE Odd == {T \in SUBSET S :
                     \E y \in T : SumFunctionOnSet(f, T) # f[y] + SumFunctionOnSet(f, T \ {y})}
           Sizes == {Cardinality(T) : T \in Odd}
<1>1. \A T \in SUBSET S : IsFiniteSet(T) /\ Cardinality(T) \in Nat
  BY FS_Subset, FS_CardinalityType
<1>2. \A T \in SUBSET S : SumFunctionOnSet(f, T) \in Int
  BY <1>1, SumInt
<1> SUFFICES ASSUME Odd # {} PROVE FALSE
  OBVIOUS
<1>3. Sizes \in SUBSET Nat /\ Sizes # {}
  BY <1>1
<1>4. PICK n \in Sizes : \A k \in Sizes : n <= k
  BY <1>3, LeastNatural
<1>5. PICK T \in Odd : n = Cardinality(T)
  BY <1>4
<1>6. PICK y \in T : SumFunctionOnSet(f, T) # f[y] + SumFunctionOnSet(f, T \ {y})
  BY <1>5
<1> DEFINE c == Chosen(T)
<1>7. T \in SUBSET S /\ T # {} /\ IsFiniteSet(T) /\ c \in T
  BY <1>1, <1>5, <1>6, ChosenIn
<1> HIDE DEF c
<1>8. SumFunctionOnSet(f, T) = f[c] + SumFunctionOnSet(f, T \ {c})
  BY <1>7, SumChosen DEF c
<1>9. y # c
  BY <1>6, <1>8
<1>10. ASSUME NEW z \in T, NEW w \in T, z # w
       PROVE  SumFunctionOnSet(f, T \ {z}) = f[w] + SumFunctionOnSet(f, (T \ {z}) \ {w})
  <2>1. Cardinality(T \ {z}) = Cardinality(T) - 1 /\ Cardinality(T) \in Nat
    BY <1>1, <1>7, FS_RemoveElement
  <2>2. T \ {z} \in SUBSET S /\ w \in T \ {z}
    BY <1>7, <1>10
  <2>3. T \ {z} \notin Odd
    <3> SUFFICES ASSUME T \ {z} \in Odd PROVE FALSE
      OBVIOUS
    <3>1. Cardinality(T \ {z}) \in Sizes
      OBVIOUS
    <3>2. n <= Cardinality(T) - 1
      BY <2>1, <3>1, <1>4
    <3> QED
      BY <3>2, <2>1, <1>5
  <2> QED
    BY <2>2, <2>3
<1>11. SumFunctionOnSet(f, T \ {c}) = f[y] + SumFunctionOnSet(f, (T \ {c}) \ {y})
  BY <1>7, <1>9, <1>10
<1>12. SumFunctionOnSet(f, T \ {y}) = f[c] + SumFunctionOnSet(f, (T \ {y}) \ {c})
  BY <1>7, <1>9, <1>10
<1>13. (T \ {c}) \ {y} = (T \ {y}) \ {c}
  OBVIOUS
<1>14. f[c] \in Int /\ f[y] \in Int /\ SumFunctionOnSet(f, (T \ {y}) \ {c}) \in Int
  BY <1>2, <1>6, <1>7
<1>15. SumFunctionOnSet(f, T \ {c}) = f[y] + SumFunctionOnSet(f, (T \ {y}) \ {c})
  BY <1>11, <1>13, Zenon
<1>16. f[c] + SumFunctionOnSet(f, T \ {c}) = f[y] + SumFunctionOnSet(f, T \ {y})
  BY <1>12, <1>14, <1>15
<1> QED
  BY <1>6, <1>8, <1>16

\* One more summand.
LEMMA SumAdd ==
    ASSUME NEW S, IsFiniteSet(S), NEW x, x \notin S, NEW f, \A y \in S \cup {x} : f[y] \in Int
    PROVE  SumFunctionOnSet(f, S \cup {x}) = SumFunctionOnSet(f, S) + f[x]
<1>1. IsFiniteSet(S \cup {x})
  BY FS_AddElement
<1>2. SumFunctionOnSet(f, S \cup {x}) = f[x] + SumFunctionOnSet(f, (S \cup {x}) \ {x})
  BY <1>1, SumRemove
<1>3. (S \cup {x}) \ {x} = S
  OBVIOUS
<1>4. SumFunctionOnSet(f, S) \in Int /\ f[x] \in Int
  BY SumInt
<1>5. SumFunctionOnSet(f, S \cup {x}) = f[x] + SumFunctionOnSet(f, S)
  BY <1>2, <1>3, Zenon
<1> QED
  BY <1>4, <1>5

\* One summand is changed.
LEMMA SumChange ==
    ASSUME NEW S, IsFiniteSet(S), NEW x \in S, NEW f, NEW g,
           \A y \in S : f[y] \in Int /\ g[y] \in Int, \A y \in S \ {x} : g[y] = f[y]
    PROVE  SumFunctionOnSet(g, S) = SumFunctionOnSet(f, S) - f[x] + g[x]
<1>1. IsFiniteSet(S \ {x})
  BY FS_RemoveElement
<1>2. SumFunctionOnSet(g, S \ {x}) = SumFunctionOnSet(f, S \ {x})
  BY <1>1, SumSame
<1>3. SumFunctionOnSet(f, S) = f[x] + SumFunctionOnSet(f, S \ {x})
  BY SumRemove
<1>4. SumFunctionOnSet(g, S) = g[x] + SumFunctionOnSet(g, S \ {x})
  BY SumRemove
<1>5. SumFunctionOnSet(f, S \ {x}) \in Int
  BY <1>1, SumInt
<1> QED
  BY <1>2, <1>3, <1>4, <1>5

\* A sum of naturals is a natural.
LEMMA SumNat ==
    ASSUME NEW S, IsFiniteSet(S), NEW f, \A x \in S : f[x] \in Nat
    PROVE  SumFunctionOnSet(f, S) \in Nat
<1> DEFINE Odd == {T \in SUBSET S : SumFunctionOnSet(f, T) \notin Nat}
           Sizes == {Cardinality(T) : T \in Odd}
<1>1. \A T \in SUBSET S : IsFiniteSet(T) /\ Cardinality(T) \in Nat
  BY FS_Subset, FS_CardinalityType
<1> SUFFICES ASSUME Odd # {} PROVE FALSE
  OBVIOUS
<1>2. Sizes \in SUBSET Nat /\ Sizes # {}
  BY <1>1
<1>3. PICK n \in Sizes : \A k \in Sizes : n <= k
  BY <1>2, LeastNatural
<1>4. PICK T \in Odd : n = Cardinality(T)
  BY <1>3
<1>5. T \in SUBSET S /\ SumFunctionOnSet(f, T) \notin Nat /\ IsFiniteSet(T)
  BY <1>1, <1>4
<1>6. T # {}
  BY <1>5, SumEmpty
<1>7. /\ T \ {Chosen(T)} \in SUBSET S
      /\ Cardinality(T) \in Nat /\ Cardinality(T \ {Chosen(T)}) = Cardinality(T) - 1
  BY <1>5, <1>6, WithoutChosen
<1>8. T \ {Chosen(T)} \notin Odd
  <2> SUFFICES ASSUME T \ {Chosen(T)} \in Odd PROVE FALSE
    OBVIOUS
  <2>1. n <= Cardinality(T) - 1
    BY <1>7, <1>3
  <2> QED
    BY <2>1, <1>7, <1>4
<1>9. SumFunctionOnSet(f, T \ {Chosen(T)}) \in Nat /\ f[Chosen(T)] \in Nat
  BY <1>5, <1>6, <1>7, <1>8, ChosenIn
<1>10. SumFunctionOnSet(f, T) = f[Chosen(T)] + SumFunctionOnSet(f, T \ {Chosen(T)})
  BY <1>5, <1>6, SumChosen
<1> QED
  BY <1>5, <1>9, <1>10

\* A sum grows with its summands.
LEMMA SumMonotone ==
    ASSUME NEW S, IsFiniteSet(S), NEW f, NEW g, \A x \in S : f[x] \in Int /\ g[x] \in Int /\ f[x] <= g[x]
    PROVE  SumFunctionOnSet(f, S) <= SumFunctionOnSet(g, S)
<1> DEFINE Odd == {T \in SUBSET S : ~(SumFunctionOnSet(f, T) <= SumFunctionOnSet(g, T))}
           Sizes == {Cardinality(T) : T \in Odd}
<1>1. \A T \in SUBSET S : IsFiniteSet(T) /\ Cardinality(T) \in Nat
  BY FS_Subset, FS_CardinalityType
<1> SUFFICES ASSUME Odd # {} PROVE FALSE
  OBVIOUS
<1>2. Sizes \in SUBSET Nat /\ Sizes # {}
  BY <1>1
<1>3. PICK n \in Sizes : \A k \in Sizes : n <= k
  BY <1>2, LeastNatural
<1>4. PICK T \in Odd : n = Cardinality(T)
  BY <1>3
<1>5. T \in SUBSET S /\ ~(SumFunctionOnSet(f, T) <= SumFunctionOnSet(g, T)) /\ IsFiniteSet(T)
  BY <1>1, <1>4
<1>6. T # {}
  <2>1. SumFunctionOnSet(f, {}) = 0 /\ SumFunctionOnSet(g, {}) = 0
    BY SumEmpty
  <2> QED
    BY <1>5, <2>1
<1>7. /\ T \ {Chosen(T)} \in SUBSET S
      /\ Cardinality(T) \in Nat /\ Cardinality(T \ {Chosen(T)}) = Cardinality(T) - 1
  BY <1>5, <1>6, WithoutChosen
<1>8. T \ {Chosen(T)} \notin Odd
  <2> SUFFICES ASSUME T \ {Chosen(T)} \in Odd PROVE FALSE
    OBVIOUS
  <2>1. n <= Cardinality(T) - 1
    BY <1>7, <1>3
  <2> QED
    BY <2>1, <1>7, <1>4
<1>9. Chosen(T) \in S /\ IsFiniteSet(T \ {Chosen(T)})
  BY <1>1, <1>5, <1>6, <1>7, ChosenIn
<1>10. /\ SumFunctionOnSet(f, T \ {Chosen(T)}) <= SumFunctionOnSet(g, T \ {Chosen(T)})
       /\ f[Chosen(T)] <= g[Chosen(T)] /\ f[Chosen(T)] \in Int /\ g[Chosen(T)] \in Int
  BY <1>7, <1>8, <1>9
<1>11. /\ SumFunctionOnSet(f, T \ {Chosen(T)}) \in Int
       /\ SumFunctionOnSet(g, T \ {Chosen(T)}) \in Int
  BY <1>7, <1>9, SumInt
<1>12. /\ SumFunctionOnSet(f, T) = f[Chosen(T)] + SumFunctionOnSet(f, T \ {Chosen(T)})
       /\ SumFunctionOnSet(g, T) = g[Chosen(T)] + SumFunctionOnSet(g, T \ {Chosen(T)})
  BY <1>5, <1>6, SumChosen
<1> QED
  BY <1>5, <1>10, <1>11, <1>12

\* A sum of zeros is zero.
LEMMA SumZero ==
    ASSUME NEW S, IsFiniteSet(S), NEW f, \A x \in S : f[x] = 0
    PROVE  SumFunctionOnSet(f, S) = 0
<1> DEFINE Odd == {T \in SUBSET S : SumFunctionOnSet(f, T) # 0}
           Sizes == {Cardinality(T) : T \in Odd}
<1>1. \A T \in SUBSET S : IsFiniteSet(T) /\ Cardinality(T) \in Nat
  BY FS_Subset, FS_CardinalityType
<1> SUFFICES ASSUME Odd # {} PROVE FALSE
  OBVIOUS
<1>2. Sizes \in SUBSET Nat /\ Sizes # {}
  BY <1>1
<1>3. PICK n \in Sizes : \A k \in Sizes : n <= k
  BY <1>2, LeastNatural
<1>4. PICK T \in Odd : n = Cardinality(T)
  BY <1>3
<1>5. T \in SUBSET S /\ SumFunctionOnSet(f, T) # 0 /\ IsFiniteSet(T)
  BY <1>1, <1>4
<1>6. T # {}
  BY <1>5, SumEmpty
<1>7. /\ T \ {Chosen(T)} \in SUBSET S
      /\ Cardinality(T) \in Nat /\ Cardinality(T \ {Chosen(T)}) = Cardinality(T) - 1
  BY <1>5, <1>6, WithoutChosen
<1>8. T \ {Chosen(T)} \notin Odd
  <2> SUFFICES ASSUME T \ {Chosen(T)} \in Odd PROVE FALSE
    OBVIOUS
  <2>1. n <= Cardinality(T) - 1
    BY <1>7, <1>3
  <2> QED
    BY <2>1, <1>7, <1>4
<1>9. SumFunctionOnSet(f, T \ {Chosen(T)}) = 0 /\ f[Chosen(T)] = 0
  BY <1>5, <1>6, <1>7, <1>8, ChosenIn
<1>10. SumFunctionOnSet(f, T) = f[Chosen(T)] + SumFunctionOnSet(f, T \ {Chosen(T)})
  BY <1>5, <1>6, SumChosen
<1> QED
  BY <1>5, <1>9, <1>10

\* A finite set of naturals has a greatest element.
LEMMA GreatestNatural ==
    ASSUME NEW S \in SUBSET Nat, IsFiniteSet(S), S # {}
    PROVE  \E x \in S : \A y \in S : y <= x
<1> DEFINE f == [x \in S |-> x]
           Above == {n \in Nat : \A y \in S : y <= n}
           top == SumFunctionOnSet(f, S)
<1>1. \A x \in S : top >= x /\ top \in Nat
  <2> SUFFICES ASSUME NEW x \in S PROVE top >= x /\ top \in Nat
    OBVIOUS
  <2>1. \A y \in S : f[y] \in Nat /\ f[y] \in Int
    OBVIOUS
  <2>2. IsFiniteSet(S \ {x})
    BY FS_RemoveElement
  <2>3. SumFunctionOnSet(f, S \ {x}) \in Nat
    BY <2>1, <2>2, SumNat
  <2>4. top = f[x] + SumFunctionOnSet(f, S \ {x})
    BY <2>1, SumRemove
  <2> HIDE DEF top
  <2> QED
    BY <2>3, <2>4
<1> HIDE DEF top
<1>2. top \in Nat /\ top \in Above
  BY <1>1
<1>3. PICK b \in Above : \A n \in Above : b <= n
  BY <1>2, LeastNatural
<1>4. b \in S
  <2> SUFFICES ASSUME b \notin S PROVE FALSE
    OBVIOUS
  <2>1. \A y \in S : y \in Nat /\ y < b
    BY <1>3
  <2>2. b > 0 /\ b \in Nat
    <3>1. PICK y \in S : TRUE
      OBVIOUS
    <3>2. b \in Nat
      BY <1>3
    <3> QED
      BY <2>1, <3>1, <3>2
  <2>3. b - 1 \in Above
    BY <2>1, <2>2
  <2> QED
    BY <2>2, <2>3, <1>3
<1> QED
  BY <1>3, <1>4
=============================================================================
