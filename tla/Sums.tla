-------------------------------- MODULE Sums --------------------------------
(***************************************************************************)
(* Facts about least and greatest numbers and about sums, SumFunction and  *)
(* SumFunctionOnSet of Functions, for the proofs about the modules that    *)
(* count readings.                                                         *)
(*                                                                         *)
(* Whatever is defined by recursion over a finite set is reasoned about    *)
(* with the least counterexample: a set of natural numbers that is not     *)
(* empty has a least element, and of a set that is a counterexample with   *)
(* the least number of elements the smaller sets are none.                 *)
(***************************************************************************)
EXTENDS Integers, Sequences, FiniteSetsExt, Functions, FiniteSetTheorems, SequenceTheorems,
        WellFoundedInduction, TLAPS

-----------------------------------------------------------------------------
(* Least and greatest numbers *)

\* A set of natural numbers has a least one.
LEMMA LeastNatural ==
  ASSUME NEW S \in SUBSET Nat, S # {}
  PROVE  Min(S) \in S /\ \A n \in S : Min(S) <= n
<1> DEFINE R == {p \in Nat \X Nat : p[1] < p[2]}
<1>1. IsWellFoundedOn(R, Nat)
  BY NatLessThanWellFounded, Zenon DEF OpToRel
<1>2. \E n \in S : \A k \in S : <<k, n>> \notin R
  <2> HIDE DEF R
  <2> QED
    BY <1>1, WFMin
<1>3. \A k, n \in Nat : k < n => <<k, n>> \in R
  OBVIOUS
<1>4. \E n \in S : \A k \in S : n <= k
  <2>1. PICK n \in S : \A k \in S : <<k, n>> \notin R
    BY <1>2
  <2>2. ASSUME NEW k \in S PROVE n <= k
    <3>1. ~ (k < n)
      BY <1>3, <2>1
    <3>2. QED
      BY <3>1
  <2>3. QED
    BY <2>2
<1>5. QED
  BY <1>4 DEF Min

\* A set of natural numbers that has a bound has a greatest one.
LEMMA GreatestNatural ==
  ASSUME NEW b \in Nat, NEW S \in SUBSET (0 .. b), S # {}
  PROVE  Max(S) \in S /\ \A n \in S : n <= Max(S)
<1> DEFINE T == {n \in 0 .. b : b - n \in S}
<1>1. T \in SUBSET Nat /\ T # {}
  <2>1. PICK n \in S : TRUE
    OBVIOUS
  <2>2. b - n \in 0 .. b /\ b - (b - n) = n
    BY <2>1
  <2>3. b - n \in T
    BY <2>1, <2>2, Zenon
  <2>4. QED
    BY <2>3
<1>2. Min(T) \in T /\ \A n \in T : Min(T) <= n
  BY <1>1, LeastNatural
<1>3. \A n \in S : b - n \in T
  OBVIOUS
<1>4. b - Min(T) \in S /\ \A n \in S : n <= b - Min(T)
  BY <1>2, <1>3
<1>5. \E m \in S : \A n \in S : m >= n
  BY <1>4
<1>6. QED
  BY <1>5 DEF Max

\* A finite set of integers has a least and a greatest one.
LEMMA FiniteBounds ==
  ASSUME NEW S \in SUBSET Int, IsFiniteSet(S), S # {}
  PROVE  /\ Min(S) \in S /\ \A n \in S : Min(S) <= n
         /\ Max(S) \in S /\ \A n \in S : n <= Max(S)
<1> DEFINE Bounded(T) == \E l, g \in T : \A n \in T : l <= n /\ n <= g
           Bad == {c \in Nat : \E T \in SUBSET S : T # {} /\ Cardinality(T) = c /\ ~Bounded(T)}
<1>1. Bad = {}
  <2> SUFFICES ASSUME Bad # {} PROVE FALSE
    OBVIOUS
  <2>1. PICK c \in Nat : c \in Bad /\ \A k \in Bad : c <= k
    BY LeastNatural
  <2>2. PICK T \in SUBSET S : T # {} /\ Cardinality(T) = c /\ ~Bounded(T)
    BY <2>1
  <2>3. PICK x \in T : TRUE
    BY <2>2
  <2>4. Cardinality(T \ {x}) = c - 1 /\ c - 1 \in Nat
    <3>1. IsFiniteSet(T)
      BY FS_Subset
    <3>2. IsFiniteSet(T \ {x}) /\ Cardinality(T \ {x}) = Cardinality(T) - 1
      BY <2>3, <3>1, FS_RemoveElement
    <3>3. Cardinality(T \ {x}) \in Nat
      BY <3>2, FS_CardinalityType
    <3> QED BY <2>2, <3>2, <3>3
  <2>5. T \ {x} = {} \/ Bounded(T \ {x})
    <3>1. c - 1 \notin Bad
      <4> HIDE DEF Bad
      <4> QED BY <2>1
    <3> QED BY <2>4, <3>1
  <2>6. CASE T \ {x} = {}
    <3>1. T = {x}
      BY <2>3, <2>6
    <3>2. x \in Int
      BY <2>3
    <3>3. x <= x
      BY <3>2
    <3> QED BY <2>2, <3>1, <3>3
  <2>7. CASE Bounded(T \ {x})
    <3>1. PICK l, g \in T \ {x} : \A n \in T \ {x} : l <= n /\ n <= g
      BY <2>7
    <3>2. l \in Int /\ g \in Int /\ x \in Int /\ T \subseteq Int
      BY <2>3
    <3>3. PICK m \in T : m = IF l <= x THEN l ELSE x
      BY <2>3
    <3>4. PICK h \in T : h = IF x <= g THEN g ELSE x
      BY <2>3
    <3>5. \A n \in T : m <= n /\ n <= h
      BY <3>1, <3>2, <3>3, <3>4
    <3> QED BY <2>2, <3>5
  <2> QED BY <2>5, <2>6, <2>7
<1>2. Bounded(S)
  <2>1. Cardinality(S) \in Nat
    BY FS_CardinalityType
  <2> QED BY <1>1, <2>1
<1>3. PICK l, g \in S : \A n \in S : l <= n /\ n <= g
  BY <1>2
<1>4. Min(S) \in S /\ \A n \in S : Min(S) <= n
  BY <1>3 DEF Min
<1>5. \A n \in S : g >= n
  BY <1>3
<1>6. Max(S) \in S /\ \A n \in S : Max(S) >= n
  BY <1>5 DEF Max
<1> QED BY <1>4, <1>6

-----------------------------------------------------------------------------
(***************************************************************************)
(* Sums.  SumFunctionOnSet takes the elements of a set one by one, in the  *)
(* order CHOOSE gives them; a table of the sums of all the subsets exists. *)
(***************************************************************************)
Pick(s) == CHOOSE x \in s : TRUE

IsSums(f, S, g) ==
  g = [s \in SUBSET S |-> IF s = {} THEN 0 ELSE f[Pick(s)] + g[s \ {Pick(s)}]]

\* Two tables agree where both say something.
LEMMA SumsAgree ==
  ASSUME NEW f, NEW S, NEW T \in SUBSET S, IsFiniteSet(T), NEW g, NEW h,
         IsSums(f, S, g), IsSums(f, T, h)
  PROVE  \A s \in SUBSET T : g[s] = h[s]
<1> DEFINE Bad == {c \in Nat : \E s \in SUBSET T : Cardinality(s) = c /\ g[s] # h[s]}
<1>1. Bad = {}
  <2> SUFFICES ASSUME Bad # {} PROVE FALSE
    OBVIOUS
  <2>1. PICK c \in Nat : c \in Bad /\ \A k \in Bad : c <= k
    BY LeastNatural
  <2>2. PICK s \in SUBSET T : Cardinality(s) = c /\ g[s] # h[s]
    BY <2>1
  <2>3. /\ g[s] = IF s = {} THEN 0 ELSE f[Pick(s)] + g[s \ {Pick(s)}]
        /\ h[s] = IF s = {} THEN 0 ELSE f[Pick(s)] + h[s \ {Pick(s)}]
    BY DEF IsSums
  <2>4. s # {} /\ Pick(s) \in s
    BY <2>2, <2>3 DEF Pick
  <2>5. Cardinality(s \ {Pick(s)}) = c - 1 /\ c - 1 \in Nat
    <3>1. IsFiniteSet(s)
      BY FS_Subset
    <3>2. IsFiniteSet(s \ {Pick(s)}) /\ Cardinality(s \ {Pick(s)}) = Cardinality(s) - 1
      BY <2>4, <3>1, FS_RemoveElement
    <3>3. Cardinality(s \ {Pick(s)}) \in Nat
      BY <3>2, FS_CardinalityType
    <3> QED BY <2>2, <3>2, <3>3
  <2>6. c - 1 \notin Bad
    <3> HIDE DEF Bad
    <3> QED BY <2>1
  <2>7. g[s \ {Pick(s)}] = h[s \ {Pick(s)}]
    BY <2>5, <2>6
  <2> QED BY <2>2, <2>3, <2>7
<1> QED
  <2>1. \A s \in SUBSET T : Cardinality(s) \in Nat
    BY FS_Subset, FS_CardinalityType
  <2> QED BY <1>1, <2>1

\* A finite set has a table.
LEMMA SumsExist ==
  ASSUME NEW f, NEW S, IsFiniteSet(S)
  PROVE  \E g : IsSums(f, S, g)
<1> DEFINE Has(T) == \E g : IsSums(f, T, g)
           Bad == {c \in Nat : \E T \in SUBSET S : Cardinality(T) = c /\ ~Has(T)}
<1>1. Bad = {}
  <2> SUFFICES ASSUME Bad # {} PROVE FALSE
    OBVIOUS
  <2>1. PICK c \in Nat : c \in Bad /\ \A k \in Bad : c <= k
    BY LeastNatural
  <2>2. PICK T \in SUBSET S : Cardinality(T) = c /\ ~Has(T)
    BY <2>1
  <2>3. ASSUME NEW U \in SUBSET T, U # T PROVE Has(U)
    <3>1. IsFiniteSet(T) /\ IsFiniteSet(U)
      BY FS_Subset
    <3>2. Cardinality(U) \in Nat /\ Cardinality(U) < c
      BY <2>2, <2>3, <3>1, FS_CardinalityType, FS_Subset
    <3>3. Cardinality(U) \notin Bad
      <4> HIDE DEF Bad
      <4> QED BY <2>1, <3>2
    <3> QED BY <3>2, <3>3
  <2> DEFINE G(U) == CHOOSE g : IsSums(f, U, g)
             Rest(s) == s \ {Pick(s)}
             h == [s \in SUBSET T |-> IF s = {} THEN 0 ELSE f[Pick(s)] + G(Rest(s))[Rest(s)]]
  <2>4. \A U \in SUBSET T : U # T => IsSums(f, U, G(U))
    BY <2>3
  <2>5. ASSUME NEW s \in SUBSET T, s # {} PROVE Rest(s) \in SUBSET T /\ Rest(s) # T
    BY <2>5 DEF Pick
  <2>6. ASSUME NEW U \in SUBSET T, U # T PROVE G(U)[U] = h[U]
    <3>1. IsSums(f, U, G(U))
      BY <2>4, <2>6
    <3>2. G(U)[U] = IF U = {} THEN 0 ELSE f[Pick(U)] + G(U)[Rest(U)]
      <4> HIDE DEF G
      <4> QED BY <3>1 DEF IsSums
    <3>3. h[U] = IF U = {} THEN 0 ELSE f[Pick(U)] + G(Rest(U))[Rest(U)]
      <4> HIDE DEF G
      <4> QED OBVIOUS
    <3>4. U # {} => G(U)[Rest(U)] = G(Rest(U))[Rest(U)]
      <4> SUFFICES ASSUME U # {} PROVE G(U)[Rest(U)] = G(Rest(U))[Rest(U)]
        OBVIOUS
      <4>1. Rest(U) \in SUBSET U /\ IsSums(f, Rest(U), G(Rest(U))) /\ IsFiniteSet(Rest(U))
        BY <2>4, <2>5, FS_Subset
      <4> HIDE DEF G, Rest
      <4> QED BY <3>1, <4>1, SumsAgree
    <3> HIDE DEF G, Rest, h
    <3> QED BY <3>2, <3>3, <3>4
  <2>7. \A s \in SUBSET T : s # {} => G(Rest(s))[Rest(s)] = h[Rest(s)]
    <3> HIDE DEF G, Rest, h
    <3> QED BY <2>5, <2>6
  <2>8. h = [s \in SUBSET T |-> IF s = {} THEN 0 ELSE f[Pick(s)] + h[Rest(s)]]
    <3>1. \A s \in SUBSET T : (IF s = {} THEN 0 ELSE f[Pick(s)] + G(Rest(s))[Rest(s)])
                              = (IF s = {} THEN 0 ELSE f[Pick(s)] + h[Rest(s)])
      <4> HIDE DEF G, Rest, h
      <4> QED BY <2>7
    <3>2. h = [s \in SUBSET T |-> IF s = {} THEN 0 ELSE f[Pick(s)] + G(Rest(s))[Rest(s)]]
      OBVIOUS
    <3> HIDE DEF G, Rest, h
    <3> QED BY <3>1, <3>2
  <2>9. IsSums(f, T, h)
    <3> HIDE DEF h
    <3> QED BY <2>8 DEF IsSums
  <2> HIDE DEF h
  <2> QED BY <2>2, <2>9
<1>2. Cardinality(S) \in Nat
  BY FS_CardinalityType
<1> QED BY <1>1, <1>2

\* The sum over a finite set is that of its first element and of the others.
LEMMA SumUnfold ==
  ASSUME NEW f, NEW S, IsFiniteSet(S)
  PROVE  /\ SumFunctionOnSet(f, {}) = 0
         /\ S # {} => SumFunctionOnSet(f, S) = f[Pick(S)] + SumFunctionOnSet(f, S \ {Pick(S)})
<1> DEFINE G(T) == CHOOSE g : IsSums(f, T, g)
<1>1. \A T : SumFunctionOnSet(f, T) = G(T)[T]
  BY DEF SumFunctionOnSet, FoldFunctionOnSet, MapThenFoldSet, IsSums, Pick
<1>2. \A T : IsFiniteSet(T) => IsSums(f, T, G(T))
  BY SumsExist
<1> HIDE DEF G
<1>3. \A T : IsFiniteSet(T) => G(T)[T] = IF T = {} THEN 0 ELSE f[Pick(T)] + G(T)[T \ {Pick(T)}]
  BY <1>2 DEF IsSums
<1>4. SumFunctionOnSet(f, {}) = 0
  BY <1>1, <1>3, FS_EmptySet
<1>5. ASSUME S # {} PROVE G(S)[S \ {Pick(S)}] = G(S \ {Pick(S)})[S \ {Pick(S)}]
  <2> DEFINE R == S \ {Pick(S)}
  <2>1. R \in SUBSET S /\ IsFiniteSet(R)
    BY FS_Subset
  <2>2. IsSums(f, S, G(S)) /\ IsSums(f, R, G(R))
    BY <1>2, <2>1
  <2> HIDE DEF R
  <2>3. G(S)[R] = G(R)[R]
    BY <2>1, <2>2, SumsAgree
  <2> QED BY <2>3 DEF R
<1> QED BY <1>1, <1>3, <1>4, <1>5

\* The rest of a finite set has one element less.
LEMMA OneLess ==
  ASSUME NEW S, IsFiniteSet(S), NEW x \in S
  PROVE  /\ IsFiniteSet(S \ {x}) /\ Cardinality(S) \in Nat
         /\ Cardinality(S \ {x}) = Cardinality(S) - 1 /\ Cardinality(S) - 1 \in Nat
<1>1. IsFiniteSet(S \ {x}) /\ Cardinality(S \ {x}) = Cardinality(S) - 1
  BY FS_RemoveElement
<1>2. Cardinality(S \ {x}) \in Nat /\ Cardinality(S) \in Nat
  BY <1>1, FS_CardinalityType
<1> QED BY <1>1, <1>2

\* A sum of integers is one, and it does not matter which element is taken first.
LEMMA SumTakes ==
  ASSUME NEW S, IsFiniteSet(S), NEW f, \A x \in S : f[x] \in Int
  PROVE  /\ SumFunctionOnSet(f, S) \in Int
         /\ \A x \in S : SumFunctionOnSet(f, S) = f[x] + SumFunctionOnSet(f, S \ {x})
<1> DEFINE Sum(T) == SumFunctionOnSet(f, T)
           Good(T) == Sum(T) \in Int /\ \A x \in T : Sum(T) = f[x] + Sum(T \ {x})
           Bad == {c \in Nat : \E T \in SUBSET S : Cardinality(T) = c /\ ~Good(T)}
<1>1. Bad = {}
  <2> SUFFICES ASSUME Bad # {} PROVE FALSE
    OBVIOUS
  <2>1. PICK c \in Nat : c \in Bad /\ \A k \in Bad : c <= k
    BY LeastNatural
  <2>2. PICK T \in SUBSET S : Cardinality(T) = c /\ ~Good(T)
    BY <2>1
  <2>3. IsFiniteSet(T)
    BY FS_Subset
  <2>4. ASSUME NEW U \in SUBSET S, Cardinality(U) \in Nat, Cardinality(U) < c PROVE Good(U)
    <3>1. Cardinality(U) \notin Bad
      <4> HIDE DEF Bad
      <4> QED BY <2>1, <2>4
    <3> QED BY <2>4, <3>1
  <2>5. /\ Sum({}) = 0
        /\ T # {} => Sum(T) = f[Pick(T)] + Sum(T \ {Pick(T)})
    BY <2>3, SumUnfold
  <2>6. \A x \in T : Good(T \ {x}) /\ f[x] \in Int
    <3> SUFFICES ASSUME NEW x \in T PROVE Good(T \ {x}) /\ f[x] \in Int
      OBVIOUS
    <3>1. Cardinality(T \ {x}) \in Nat /\ Cardinality(T \ {x}) < c
      BY <2>2, <2>3, OneLess
    <3>2. T \ {x} \in SUBSET S
      OBVIOUS
    <3> HIDE DEF Good
    <3> QED BY <2>4, <3>1, <3>2
  <2>7. T # {} => Pick(T) \in T
    BY DEF Pick
  <2> HIDE DEF Sum
  <2>8. Sum(T) \in Int
    BY <2>5, <2>6, <2>7
  <2>9. ASSUME NEW x \in T PROVE Sum(T) = f[x] + Sum(T \ {x})
    <3> DEFINE y == Pick(T)
    <3>1. y \in T /\ Sum(T) = f[y] + Sum(T \ {y})
      BY <2>5, <2>7
    <3> HIDE DEF y
    <3>2. CASE x = y
      BY <3>1, <3>2
    <3>3. CASE x # y
      <4>1. x \in T \ {y} /\ y \in T \ {x} /\ (T \ {y}) \ {x} = (T \ {x}) \ {y}
        BY <3>1, <3>3
      <4>2. /\ Sum(T \ {y}) = f[x] + Sum((T \ {y}) \ {x})
            /\ Sum(T \ {x}) = f[y] + Sum((T \ {x}) \ {y})
        BY <2>6, <3>1, <4>1
      <4>3. Sum(T \ {x}) \in Int /\ f[x] \in Int /\ f[y] \in Int
        BY <2>6, <3>1
      <4>4. Sum((T \ {x}) \ {y}) \in Int
        <5> DEFINE U == (T \ {x}) \ {y}
        <5>1. U \in SUBSET S /\ Cardinality(U) \in Nat /\ Cardinality(U) < c
          <6>1. IsFiniteSet(T \ {x}) /\ Cardinality(T \ {x}) = c - 1 /\ c - 1 \in Nat
            BY <2>2, <2>3, OneLess
          <6>2. Cardinality(U) = c - 1 - 1 /\ c - 1 - 1 \in Nat
            BY <4>1, <6>1, OneLess
          <6> QED BY <6>2
        <5> QED BY <2>4, <5>1
      <4>5. PICK n \in Int : Sum((T \ {x}) \ {y}) = n
        BY <4>4
      <4>6. Sum((T \ {y}) \ {x}) = n
        BY <4>1, <4>5
      <4>7. Sum(T \ {y}) = f[x] + n /\ Sum(T \ {x}) = f[y] + n
        BY <4>2, <4>5, <4>6
      <4> QED BY <3>1, <4>3, <4>7
    <3> QED BY <3>2, <3>3
  <2> QED BY <2>2, <2>8, <2>9
<1>2. Cardinality(S) \in Nat
  BY FS_CardinalityType
<1> QED BY <1>1, <1>2

\* Equal summands have equal sums.
LEMMA SumSame ==
  ASSUME NEW S, IsFiniteSet(S), NEW f, NEW g,
         \A x \in S : f[x] \in Int /\ f[x] = g[x]
  PROVE  SumFunctionOnSet(f, S) = SumFunctionOnSet(g, S)
<1> DEFINE Good(T) == SumFunctionOnSet(f, T) = SumFunctionOnSet(g, T)
           Bad == {c \in Nat : \E T \in SUBSET S : Cardinality(T) = c /\ ~Good(T)}
<1>1. Bad = {}
  <2> SUFFICES ASSUME Bad # {} PROVE FALSE
    OBVIOUS
  <2>1. PICK c \in Nat : c \in Bad /\ \A k \in Bad : c <= k
    BY LeastNatural
  <2>2. PICK T \in SUBSET S : Cardinality(T) = c /\ ~Good(T)
    BY <2>1
  <2>3. IsFiniteSet(T)
    BY FS_Subset
  <2>4. T # {}
    BY <2>2, <2>3, SumUnfold
  <2>5. PICK x \in T : TRUE
    BY <2>4
  <2>6. Good(T \ {x})
    <3>1. Cardinality(T \ {x}) \in Nat /\ Cardinality(T \ {x}) < c
      BY <2>2, <2>3, OneLess
    <3>2. Cardinality(T \ {x}) \notin Bad
      <4> HIDE DEF Bad
      <4> QED BY <2>1, <3>1
    <3> QED BY <3>1, <3>2
  <2>7. /\ SumFunctionOnSet(f, T) = f[x] + SumFunctionOnSet(f, T \ {x})
        /\ SumFunctionOnSet(g, T) = g[x] + SumFunctionOnSet(g, T \ {x})
    <3>1. \A y \in T : f[y] \in Int /\ g[y] \in Int
      OBVIOUS
    <3> QED BY <2>3, <3>1, SumTakes
  <2> QED BY <2>2, <2>6, <2>7
<1>2. Cardinality(S) \in Nat
  BY FS_CardinalityType
<1> QED BY <1>1, <1>2

\* A sum of zeros and ones counts the ones.
LEMMA SumCounts ==
  ASSUME NEW S, IsFiniteSet(S), NEW f, \A x \in S : f[x] \in {0, 1}
  PROVE  SumFunctionOnSet(f, S) = Cardinality({x \in S : f[x] = 1})
<1> DEFINE Ones(T) == {x \in T : f[x] = 1}
           Good(T) == SumFunctionOnSet(f, T) = Cardinality(Ones(T))
           Bad == {c \in Nat : \E T \in SUBSET S : Cardinality(T) = c /\ ~Good(T)}
<1>1. Bad = {}
  <2> SUFFICES ASSUME Bad # {} PROVE FALSE
    OBVIOUS
  <2>1. PICK c \in Nat : c \in Bad /\ \A k \in Bad : c <= k
    BY LeastNatural
  <2>2. PICK T \in SUBSET S : Cardinality(T) = c /\ ~Good(T)
    BY <2>1
  <2>3. IsFiniteSet(T) /\ IsFiniteSet(Ones(T))
    BY FS_Subset
  <2>4. T # {}
    <3>1. T = {} => Ones(T) = {}
      OBVIOUS
    <3> HIDE DEF Ones
    <3> QED BY <2>2, <2>3, <3>1, SumUnfold, FS_EmptySet
  <2>5. PICK x \in T : TRUE
    BY <2>4
  <2>6. Good(T \ {x})
    <3>1. Cardinality(T \ {x}) \in Nat /\ Cardinality(T \ {x}) < c
      BY <2>2, <2>3, OneLess
    <3>2. Cardinality(T \ {x}) \notin Bad
      <4> HIDE DEF Bad
      <4> QED BY <2>1, <3>1
    <3> HIDE DEF Good
    <3> QED BY <3>1, <3>2
  <2>7. SumFunctionOnSet(f, T) = f[x] + SumFunctionOnSet(f, T \ {x})
    <3>1. \A y \in T : f[y] \in Int
      OBVIOUS
    <3> QED BY <2>3, <3>1, SumTakes
  <2>8. CASE f[x] = 0
    <3>1. Ones(T \ {x}) = Ones(T)
      BY <2>8
    <3>2. Cardinality(Ones(T)) \in Nat
      BY <2>3, FS_CardinalityType
    <3> HIDE DEF Ones
    <3> QED BY <2>2, <2>6, <2>7, <2>8, <3>1, <3>2
  <2>9. CASE f[x] = 1
    <3>1. Ones(T \ {x}) = Ones(T) \ {x} /\ x \in Ones(T)
      BY <2>9
    <3> HIDE DEF Ones
    <3>2. /\ Cardinality(Ones(T)) \in Nat
          /\ Cardinality(Ones(T) \ {x}) = Cardinality(Ones(T)) - 1
      BY <2>3, <3>1, OneLess
    <3>3. Cardinality(Ones(T \ {x})) = Cardinality(Ones(T)) - 1
      BY <3>1, <3>2
    <3>4. SumFunctionOnSet(f, T) = 1 + (Cardinality(Ones(T)) - 1)
      BY <2>6, <2>7, <2>9, <3>3
    <3>5. SumFunctionOnSet(f, T) = Cardinality(Ones(T))
      BY <3>2, <3>4
    <3> QED BY <2>2, <3>5
  <2>10. f[x] \in {0, 1}
    OBVIOUS
  <2> QED BY <2>8, <2>9, <2>10
<1>2. Cardinality(S) \in Nat
  BY FS_CardinalityType
<1> QED BY <1>1, <1>2

\* A sum of naturals is one.
LEMMA SumNatural ==
  ASSUME NEW S, IsFiniteSet(S), NEW f, \A x \in S : f[x] \in Nat
  PROVE  SumFunctionOnSet(f, S) \in Nat
<1> DEFINE Good(T) == SumFunctionOnSet(f, T) \in Nat
           Bad == {c \in Nat : \E T \in SUBSET S : Cardinality(T) = c /\ ~Good(T)}
<1>1. Bad = {}
  <2> SUFFICES ASSUME Bad # {} PROVE FALSE
    OBVIOUS
  <2>1. PICK c \in Nat : c \in Bad /\ \A k \in Bad : c <= k
    BY LeastNatural
  <2>2. PICK T \in SUBSET S : Cardinality(T) = c /\ ~Good(T)
    BY <2>1
  <2>3. IsFiniteSet(T)
    BY FS_Subset
  <2>4. T # {}
    <3>1. SumFunctionOnSet(f, {}) = 0
      BY FS_EmptySet, SumUnfold
    <3> QED BY <2>2, <3>1
  <2>5. PICK x \in T : TRUE
    BY <2>4
  <2>6. Good(T \ {x})
    <3>1. Cardinality(T \ {x}) \in Nat /\ Cardinality(T \ {x}) < c
      BY <2>2, <2>3, OneLess
    <3>2. Cardinality(T \ {x}) \notin Bad
      <4> HIDE DEF Bad
      <4> QED BY <2>1, <3>1
    <3> QED BY <3>1, <3>2
  <2>7. SumFunctionOnSet(f, T) = f[x] + SumFunctionOnSet(f, T \ {x})
    <3>1. \A y \in T : f[y] \in Int
      OBVIOUS
    <3> QED BY <2>3, <3>1, SumTakes
  <2> QED BY <2>2, <2>6, <2>7
<1>2. Cardinality(S) \in Nat
  BY FS_CardinalityType
<1> QED BY <1>1, <1>2

\* Summands at most doubled at most double the sum.
LEMMA SumAtMostTwice ==
  ASSUME NEW S, IsFiniteSet(S), NEW f, NEW g,
         \A x \in S : f[x] \in Int /\ g[x] \in Int /\ f[x] <= 2 * g[x]
  PROVE  SumFunctionOnSet(f, S) <= 2 * SumFunctionOnSet(g, S)
<1> DEFINE Good(T) == SumFunctionOnSet(f, T) <= 2 * SumFunctionOnSet(g, T)
           Bad == {c \in Nat : \E T \in SUBSET S : Cardinality(T) = c /\ ~Good(T)}
<1>1. Bad = {}
  <2> SUFFICES ASSUME Bad # {} PROVE FALSE
    OBVIOUS
  <2>1. PICK c \in Nat : c \in Bad /\ \A k \in Bad : c <= k
    BY LeastNatural
  <2>2. PICK T \in SUBSET S : Cardinality(T) = c /\ ~Good(T)
    BY <2>1
  <2>3. IsFiniteSet(T)
    BY FS_Subset
  <2>4. T # {}
    <3>1. SumFunctionOnSet(f, {}) = 0 /\ SumFunctionOnSet(g, {}) = 0
      BY FS_EmptySet, SumUnfold
    <3> QED BY <2>2, <3>1
  <2>5. PICK x \in T : TRUE
    BY <2>4
  <2>6. Good(T \ {x}) /\ IsFiniteSet(T \ {x})
    <3>1. IsFiniteSet(T \ {x}) /\ Cardinality(T \ {x}) \in Nat /\ Cardinality(T \ {x}) < c
      <4>1. /\ IsFiniteSet(T \ {x})
            /\ Cardinality(T \ {x}) = Cardinality(T) - 1 /\ Cardinality(T) - 1 \in Nat
        BY <2>3, OneLess
      <4> QED BY <2>2, <4>1
    <3>2. Cardinality(T \ {x}) \notin Bad
      <4> HIDE DEF Bad
      <4> QED BY <2>1, <3>1
    <3> QED BY <3>1, <3>2
  <2>7. /\ SumFunctionOnSet(f, T) = f[x] + SumFunctionOnSet(f, T \ {x})
        /\ SumFunctionOnSet(g, T) = g[x] + SumFunctionOnSet(g, T \ {x})
    <3>1. \A y \in T : f[y] \in Int /\ g[y] \in Int
      OBVIOUS
    <3> QED BY <2>3, <3>1, SumTakes
  <2>8. SumFunctionOnSet(f, T \ {x}) \in Int /\ SumFunctionOnSet(g, T \ {x}) \in Int
    <3>1. \A y \in T \ {x} : f[y] \in Int /\ g[y] \in Int
      OBVIOUS
    <3> QED BY <2>6, <3>1, SumTakes
  <2>9. f[x] \in Int /\ g[x] \in Int /\ f[x] <= 2 * g[x]
    OBVIOUS
  <2> QED BY <2>2, <2>6, <2>7, <2>8, <2>9
<1>2. Cardinality(S) \in Nat
  BY FS_CardinalityType
<1> QED BY <1>1, <1>2

-----------------------------------------------------------------------------
(* Sums over sequences *)

LEMMA SumNone == SumFunctionOnSet(<<>>, {}) = 0
BY FS_EmptySet, SumUnfold

\* One more summand at the end.
LEMMA SumLonger ==
  ASSUME NEW n \in Nat, NEW f, NEW g,
         \A i \in 1 .. n + 1 : f[i] \in Int, \A i \in 1 .. n : g[i] = f[i]
  PROVE  SumFunctionOnSet(f, 1 .. n + 1) = SumFunctionOnSet(g, 1 .. n) + f[n + 1]
<1>1. IsFiniteSet(1 .. n + 1) /\ IsFiniteSet(1 .. n)
  BY FS_Interval
<1>2. n + 1 \in 1 .. n + 1 /\ (1 .. n + 1) \ {n + 1} = 1 .. n
  OBVIOUS
<1>3. SumFunctionOnSet(f, 1 .. n + 1) = f[n + 1] + SumFunctionOnSet(f, 1 .. n)
  BY <1>1, <1>2, SumTakes
<1>4. SumFunctionOnSet(f, 1 .. n) = SumFunctionOnSet(g, 1 .. n) /\ SumFunctionOnSet(f, 1 .. n) \in Int
  <2>1. \A i \in 1 .. n : f[i] \in Int /\ f[i] = g[i]
    OBVIOUS
  <2> QED BY <1>1, <2>1, SumSame, SumTakes
<1>5. f[n + 1] \in Int
  BY <1>2
<1> QED BY <1>3, <1>4, <1>5

\* One summand less at the front, the others move up.
LEMMA SumShorter ==
  ASSUME NEW n \in Nat, NEW f, NEW g,
         \A i \in 1 .. n + 1 : f[i] \in Int, \A i \in 1 .. n : g[i] = f[i + 1]
  PROVE  SumFunctionOnSet(f, 1 .. n + 1) = f[1] + SumFunctionOnSet(g, 1 .. n)
<1>1. \A i \in 1 .. n : g[i] \in Int
  <2> SUFFICES ASSUME NEW i \in 1 .. n PROVE g[i] \in Int
    OBVIOUS
  <2>1. i + 1 \in 1 .. n + 1 /\ g[i] = f[i + 1]
    OBVIOUS
  <2> QED BY <2>1
<1> DEFINE Good(k) == SumFunctionOnSet(f, 1 .. k + 1) = f[1] + SumFunctionOnSet(g, 1 .. k)
           Bad == {k \in Nat : k <= n /\ ~Good(k)}
<1>2. Bad = {}
  <2> SUFFICES ASSUME Bad # {} PROVE FALSE
    OBVIOUS
  <2>1. PICK k \in Nat : k \in Bad /\ \A m \in Bad : k <= m
    BY LeastNatural
  <2>2. k <= n /\ ~Good(k)
    BY <2>1
  <2>3. CASE k = 0
    <3>1. SumFunctionOnSet(f, 1 .. k + 1) = SumFunctionOnSet(f, 1 .. k) + f[k + 1]
      BY <2>2, SumLonger
    <3>2. 1 .. k = {} /\ k + 1 = 1
      BY <2>3
    <3>3. SumFunctionOnSet(f, {}) = 0 /\ SumFunctionOnSet(g, {}) = 0
      BY FS_EmptySet, SumUnfold
    <3>4. f[1] \in Int
      OBVIOUS
    <3>5. SumFunctionOnSet(f, 1 .. k + 1) = 0 + f[1] /\ SumFunctionOnSet(g, 1 .. k) = 0
      BY <3>1, <3>2, <3>3
    <3> QED BY <2>2, <3>4, <3>5
  <2>4. CASE k # 0
    <3>1. PICK m \in Nat : m + 1 = k
      <4>1. k - 1 \in Nat /\ (k - 1) + 1 = k
        BY <2>4
      <4> QED BY <4>1
    <3>2. Good(m)
      <4>1. m \notin Bad /\ m <= n
        <5> HIDE DEF Bad
        <5> QED BY <2>1, <2>2, <3>1
      <4> QED BY <4>1
    <3>3. SumFunctionOnSet(f, 1 .. k + 1) = SumFunctionOnSet(f, 1 .. k) + f[k + 1]
      <4>1. \A i \in 1 .. k + 1 : f[i] \in Int
        BY <2>2
      <4> QED BY <4>1, SumLonger
    <3>4. SumFunctionOnSet(g, 1 .. m + 1) = SumFunctionOnSet(g, 1 .. m) + g[m + 1]
      <4>1. \A i \in 1 .. m + 1 : g[i] \in Int
        BY <1>1, <2>2, <3>1
      <4> QED BY <4>1, SumLonger
    <3>5. g[m + 1] = f[k + 1] /\ f[k + 1] \in Int /\ f[1] \in Int
      BY <2>2, <3>1
    <3>6. SumFunctionOnSet(g, 1 .. m) \in Int
      <4>1. \A i \in 1 .. m : g[i] \in Int
        BY <1>1, <2>2, <3>1
      <4>2. IsFiniteSet(1 .. m)
        BY FS_Interval
      <4> QED BY <4>1, <4>2, SumTakes
    <3>7. SumFunctionOnSet(f, 1 .. m + 1) = f[1] + SumFunctionOnSet(g, 1 .. m)
      BY <3>2
    <3> HIDE DEF Good
    <3>8. SumFunctionOnSet(f, 1 .. k + 1) = f[1] + SumFunctionOnSet(g, 1 .. k)
      BY <3>1, <3>3, <3>4, <3>5, <3>6, <3>7
    <3> QED BY <2>2, <3>8 DEF Good
  <2> QED BY <2>3, <2>4
<1> QED BY <1>2
=============================================================================
