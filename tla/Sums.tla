-------------------------------- MODULE Sums ---------------------------------
(***************************************************************************)
(* What SumFunction, the community modules' sum of a function's values,    *)
(* returns over any finite set, one element at a time, and that functions  *)
(* defined by recursion on the numbers exist. The installed provers cannot *)
(* use an induction theorem that takes an operator, so the induction here  *)
(* is over sets: of numbers, and of subsets of a set.                      *)
(***************************************************************************)
EXTENDS Integers, FiniteSets, Functions, FiniteSetTheorems, WellFoundedInduction, TLAPS

LEMMA NatSetInduction ==
    ASSUME NEW B \in SUBSET Nat, 0 \in B, \A n \in B : n + 1 \in B
    PROVE  B = Nat
<1> DEFINE R == OpToRel(<, Nat)
<1>1. IsWellFoundedOn(R, Nat)
  BY NatLessThanWellFounded
<1>2. \A m, n \in Nat : m < n => <<m, n>> \in R
  BY DEF OpToRel
<1> HIDE DEF R
<1>3. SUFFICES ASSUME Nat \ B # {} PROVE FALSE
  OBVIOUS
<1>4. PICK n \in Nat \ B : \A m \in Nat \ B : <<m, n>> \notin R
  BY <1>1, <1>3, WFMin
<1>5. n # 0 /\ n - 1 \in Nat /\ n - 1 < n /\ (n - 1) + 1 = n
  OBVIOUS
<1>6. n - 1 \in B
  BY <1>2, <1>4, <1>5
<1> QED
  BY <1>5, <1>6

UpTo(S, n) == {U \in SUBSET S : Cardinality(U) <= n}

LEMMA SubsetsCounted ==
    ASSUME NEW S, IsFiniteSet(S)
    PROVE  /\ \A U \in SUBSET S : IsFiniteSet(U) /\ Cardinality(U) \in Nat
           /\ UpTo(S, Cardinality(S)) = SUBSET S
           /\ Cardinality(S) \in Nat
           /\ UpTo(S, 0) = {{}}
           /\ \A n \in Nat : \A U \in UpTo(S, n + 1) : \A x \in U : U \ {x} \in UpTo(S, n)
<1>1. \A U \in SUBSET S : IsFiniteSet(U) /\ Cardinality(U) \in Nat /\ Cardinality(U) <= Cardinality(S)
  BY FS_Subset, FS_CardinalityType
<1>2. ASSUME NEW n \in Nat, NEW U \in UpTo(S, n + 1), NEW x \in U
      PROVE  U \ {x} \in UpTo(S, n)
  <2>1. Cardinality(U \ {x}) = Cardinality(U) - 1
    BY <1>1, FS_RemoveElement DEF UpTo
  <2> QED
    BY <1>1, <2>1 DEF UpTo
<1>3. UpTo(S, 0) = {{}}
  BY <1>1, FS_EmptySet DEF UpTo
<1> QED
  BY <1>1, <1>2, <1>3 DEF UpTo

\* What holds of a set whenever it holds of it less any one element holds of
\* every subset of a finite set.
LEMMA SubsetInduction ==
    ASSUME NEW S, IsFiniteSet(S), NEW C,
           \A U \in SUBSET S : (\A x \in U : U \ {x} \in C) => U \in C
    PROVE  SUBSET S \subseteq C
<1> DEFINE B == {n \in Nat : UpTo(S, n) \subseteq C}
<1>1. 0 \in B
  BY SubsetsCounted
<1>2. ASSUME NEW n \in B PROVE n + 1 \in B
  <2>1. \A U \in UpTo(S, n + 1) : \A x \in U : U \ {x} \in C
    BY SubsetsCounted
  <2> QED
    BY <2>1 DEF UpTo
<1>3. B = Nat
  BY <1>1, <1>2, NatSetInduction
<1>4. Cardinality(S) \in B
  BY <1>3, SubsetsCounted
<1> QED
  BY <1>4, SubsetsCounted

-----------------------------------------------------------------------------
(* The partial sums of f, which the community modules choose.              *)

Chosen(U) == CHOOSE x \in U : TRUE
Partial(f, T, g) == g = [U \in T |-> IF U = {} THEN 0 ELSE f[Chosen(U)] + g[U \ {Chosen(U)}]]

LEMMA PartialExist ==
    ASSUME NEW S, IsFiniteSet(S), NEW f
    PROVE  \E g : Partial(f, SUBSET S, g)
<1> DEFINE B == {n \in Nat : \E g : Partial(f, UpTo(S, n), g)}
<1>1. 0 \in B
  <2>1. Partial(f, {{}}, [U \in {{}} |-> 0])
    BY DEF Partial
  <2>2. UpTo(S, 0) = {{}}
    BY SubsetsCounted
  <2> QED
    BY <2>1, <2>2
<1>2. ASSUME NEW n \in B PROVE n + 1 \in B
  <2>1. PICK g : Partial(f, UpTo(S, n), g)
    OBVIOUS
  <2> DEFINE h == [U \in UpTo(S, n + 1) |->
                      IF U = {} THEN 0 ELSE f[Chosen(U)] + g[U \ {Chosen(U)}]]
  <2>2. ASSUME NEW U \in UpTo(S, n + 1), U # {}
        PROVE  U \ {Chosen(U)} \in UpTo(S, n) \cap UpTo(S, n + 1)
    <3>1. Chosen(U) \in U
      BY <2>2 DEF Chosen
    <3>2. U \ {Chosen(U)} \in UpTo(S, n)
      BY <3>1, SubsetsCounted
    <3> QED
      BY <3>2, SubsetsCounted DEF UpTo
  <2>3. ASSUME NEW U \in UpTo(S, n) \cap UpTo(S, n + 1) PROVE g[U] = h[U]
    BY <2>1 DEF Partial
  <2>4. h = [U \in UpTo(S, n + 1) |-> IF U = {} THEN 0 ELSE f[Chosen(U)] + h[U \ {Chosen(U)}]]
    BY <2>2, <2>3
  <2>5. Partial(f, UpTo(S, n + 1), h)
    BY <2>4 DEF Partial
  <2> QED
    BY <2>5
<1>3. B = Nat
  BY <1>1, <1>2, NatSetInduction
<1>4. Cardinality(S) \in B
  BY <1>3, SubsetsCounted
<1>5. PICK g : Partial(f, UpTo(S, Cardinality(S)), g)
  BY <1>4
<1>6. UpTo(S, Cardinality(S)) = SUBSET S
  BY SubsetsCounted
<1> QED
  BY <1>5, <1>6

LEMMA SumIsPartial ==
    ASSUME NEW S, IsFiniteSet(S), NEW f, DOMAIN f = S
    PROVE  \E g : Partial(f, SUBSET S, g) /\ SumFunction(f) = g[S]
<1> DEFINE g == CHOOSE g : Partial(f, SUBSET S, g)
<1>1. Partial(f, SUBSET S, g)
  BY PartialExist
<1>2. SumFunction(f) = g[S]
  BY DEF SumFunction, SumFunctionOnSet, FoldFunctionOnSet, MapThenFoldSet, Partial, Chosen
<1> QED
  BY <1>1, <1>2

LEMMA PartialType ==
    ASSUME NEW S, IsFiniteSet(S), NEW f \in [S -> Int], NEW g, Partial(f, SUBSET S, g)
    PROVE  \A U \in SUBSET S : g[U] \in Int
<1> DEFINE C == {U \in SUBSET S : g[U] \in Int}
<1>1. ASSUME NEW U \in SUBSET S, \A x \in U : U \ {x} \in C PROVE U \in C
  <2>1. CASE U = {}
    BY <2>1 DEF Partial
  <2>2. CASE U # {}
    <3>1. Chosen(U) \in U
      BY <2>2 DEF Chosen
    <3>2. g[U] = f[Chosen(U)] + g[U \ {Chosen(U)}]
      BY <2>2 DEF Partial
    <3>3. g[U \ {Chosen(U)}] \in Int
      BY <1>1, <3>1
    <3> QED
      BY <3>1, <3>2, <3>3
  <2> QED
    BY <2>1, <2>2
<1> HIDE DEF C
<1>2. SUBSET S \subseteq C
  BY <1>1, SubsetInduction
<1> QED
  BY <1>2 DEF C

Taken(f, S, g) ==
    \A U \in SUBSET S : \A x \in U :
        g[U] = f[x] + g[U \ {x}] /\ g[U] \in Int /\ g[U \ {x}] \in Int

\* Any element may be taken out first.
LEMMA PartialTakes ==
    ASSUME NEW S, IsFiniteSet(S), NEW f \in [S -> Int], NEW g, Partial(f, SUBSET S, g)
    PROVE  Taken(f, S, g)
<1> DEFINE C == {U \in SUBSET S : \A x \in U : g[U] = f[x] + g[U \ {x}]}
<1>0. \A U \in SUBSET S : g[U] \in Int
  BY PartialType
<1>1. ASSUME NEW U \in SUBSET S, \A x \in U : U \ {x} \in C PROVE U \in C
  <2> SUFFICES ASSUME NEW x \in U PROVE g[U] = f[x] + g[U \ {x}]
    OBVIOUS
  <2> DEFINE c == Chosen(U)
  <2>1. c \in U
    BY DEF Chosen
  <2>2. g[U] = f[c] + g[U \ {c}]
    BY DEF Partial
  <2> HIDE DEF c
  <2>3. ASSUME x # c PROVE g[U] = f[x] + g[U \ {x}]
    <3>1. g[U \ {c}] = f[x] + g[(U \ {c}) \ {x}]
      BY <1>1, <2>1, <2>3
    <3>2. g[U \ {x}] = f[c] + g[(U \ {x}) \ {c}]
      BY <1>1, <2>1, <2>3
    <3>3. (U \ {c}) \ {x} = (U \ {x}) \ {c}
      OBVIOUS
    <3>4. f[x] \in Int /\ f[c] \in Int
      BY <2>1
    <3>5. g[(U \ {x}) \ {c}] \in Int
      BY <1>0
    <3>6. f[c] + (f[x] + g[(U \ {x}) \ {c}]) = f[x] + (f[c] + g[(U \ {x}) \ {c}])
      BY <3>4, <3>5
    <3> QED
      BY <2>2, <3>1, <3>2, <3>3, <3>6
  <2> QED
    BY <2>2, <2>3
<1> HIDE DEF C
<1>2. SUBSET S \subseteq C
  BY <1>1, SubsetInduction
<1>3. \A U \in SUBSET S : \A x \in U : U \ {x} \in SUBSET S
  OBVIOUS
<1> QED
  BY <1>0, <1>2, <1>3 DEF C, Taken
-----------------------------------------------------------------------------
(* What the proofs about the model's sums need of them.                    *)

On(f, T) == [y \in T |-> f[y]]
AllBut(f, x) == On(f, DOMAIN f \ {x})

\* A partial sum is the sum of what is summed so far.
LEMMA PartialIsSum ==
    ASSUME NEW S, IsFiniteSet(S), NEW f \in [S -> Int], NEW g, Partial(f, SUBSET S, g),
           NEW T \in SUBSET S
    PROVE  SumFunction(On(f, T)) = g[T]
<1> DEFINE e == [y \in T |-> f[y]]
<1>0. IsFiniteSet(T)
  BY FS_Subset
<1>1. PICK h : Partial(e, SUBSET T, h) /\ SumFunction(e) = h[T]
  BY <1>0, SumIsPartial
<1> DEFINE C == {U \in SUBSET T : h[U] = g[U]}
<1>2. ASSUME NEW U \in SUBSET T, \A x \in U : U \ {x} \in C PROVE h[U] = g[U]
  <2>1. CASE U = {}
    BY <1>1, <2>1 DEF Partial
  <2>2. CASE U # {}
    <3>1. Chosen(U) \in U
      BY <2>2 DEF Chosen
    <3>2. h[U] = e[Chosen(U)] + h[U \ {Chosen(U)}]
      BY <1>1, <2>2 DEF Partial
    <3>3. g[U] = f[Chosen(U)] + g[U \ {Chosen(U)}]
      BY <2>2 DEF Partial
    <3>4. h[U \ {Chosen(U)}] = g[U \ {Chosen(U)}]
      BY <1>2, <3>1
    <3>5. e[Chosen(U)] = f[Chosen(U)]
      BY <3>1
    <3> QED
      BY <3>2, <3>3, <3>4, <3>5
  <2> QED
    BY <2>1, <2>2
<1>3. SUBSET T \subseteq C
  <2>1. \A U \in SUBSET T : (\A x \in U : U \ {x} \in C) => U \in C
    BY <1>2
  <2> HIDE DEF C
  <2> QED
    BY <1>0, <2>1, SubsetInduction
<1>4. T \in C
  BY <1>3
<1> QED
  BY <1>1, <1>4 DEF On

LEMMA SumEmpty == ASSUME NEW f, DOMAIN f = {} PROVE SumFunction(f) = 0
<1>1. PICK g : Partial(f, SUBSET {}, g) /\ SumFunction(f) = g[{}]
  BY SumIsPartial, FS_EmptySet
<1> QED
  BY <1>1 DEF Partial

LEMMA SumType ==
    ASSUME NEW S, IsFiniteSet(S), NEW f \in [S -> Int]
    PROVE  SumFunction(f) \in Int
<1>1. PICK g : Partial(f, SUBSET S, g) /\ SumFunction(f) = g[S]
  BY SumIsPartial
<1> QED
  BY <1>1, PartialType

LEMMA SumTakes ==
    ASSUME NEW S, IsFiniteSet(S), NEW f \in [S -> Int], NEW x \in S
    PROVE  /\ SumFunction(f) = f[x] + SumFunction(AllBut(f, x))
           /\ SumFunction(AllBut(f, x)) \in Int
<1>1. PICK g : Partial(f, SUBSET S, g) /\ SumFunction(f) = g[S]
  BY SumIsPartial
<1>g. Taken(f, S, g)
  BY <1>1, PartialTakes
<1>2. g[S] = f[x] + g[S \ {x}] /\ g[S \ {x}] \in Int
  BY <1>g DEF Taken
<1>3. SumFunction(On(f, S \ {x})) = g[S \ {x}]
  BY <1>1, PartialIsSum
<1>4. AllBut(f, x) = On(f, S \ {x})
  BY DEF AllBut
<1> QED
  BY <1>1, <1>2, <1>3, <1>4

LEMMA SumNat ==
    ASSUME NEW S, IsFiniteSet(S), NEW f \in [S -> Nat]
    PROVE  SumFunction(f) \in Nat
<1>0. f \in [S -> Int]
  OBVIOUS
<1>1. PICK g : Partial(f, SUBSET S, g) /\ SumFunction(f) = g[S]
  BY SumIsPartial
<1>g. Taken(f, S, g)
  BY <1>0, <1>1, PartialTakes
<1> DEFINE C == {U \in SUBSET S : g[U] \in Nat}
<1>2. ASSUME NEW U \in SUBSET S, \A x \in U : U \ {x} \in C PROVE g[U] \in Nat
  <2>1. CASE U = {}
    BY <1>1, <2>1 DEF Partial
  <2>2. ASSUME NEW x \in U PROVE g[U] \in Nat
    <3>1. g[U] = f[x] + g[U \ {x}]
      BY <1>g DEF Taken
    <3> QED
      BY <1>2, <3>1
  <2> QED
    BY <2>1, <2>2
<1>3. SUBSET S \subseteq C
  <2>1. \A U \in SUBSET S : (\A x \in U : U \ {x} \in C) => U \in C
    BY <1>2
  <2> HIDE DEF C
  <2> QED
    BY <2>1, SubsetInduction
<1> QED
  BY <1>1, <1>3

LEMMA SumAdd ==
    ASSUME NEW S, IsFiniteSet(S), NEW f \in [S -> Int], NEW h \in [S -> Int]
    PROVE  SumFunction([x \in S |-> f[x] + h[x]]) = SumFunction(f) + SumFunction(h)
<1> DEFINE k == [x \in S |-> f[x] + h[x]]
<1>0. k \in [S -> Int] /\ \A x \in S : k[x] = f[x] + h[x]
  OBVIOUS
<1> HIDE DEF k
<1>1. PICK pf : Partial(f, SUBSET S, pf) /\ SumFunction(f) = pf[S]
  BY SumIsPartial
<1>f. Taken(f, S, pf)
  BY <1>1, PartialTakes
<1>2. PICK ph : Partial(h, SUBSET S, ph) /\ SumFunction(h) = ph[S]
  BY SumIsPartial
<1>h. Taken(h, S, ph)
  BY <1>2, PartialTakes
<1>3. PICK pk : Partial(k, SUBSET S, pk) /\ SumFunction(k) = pk[S]
  BY <1>0, SumIsPartial
<1>k. Taken(k, S, pk)
  BY <1>0, <1>3, PartialTakes
<1> DEFINE C == {U \in SUBSET S : pk[U] = pf[U] + ph[U]}
<1>4. ASSUME NEW U \in SUBSET S, \A x \in U : U \ {x} \in C PROVE pk[U] = pf[U] + ph[U]
  <2>1. CASE U = {}
    BY <1>1, <1>2, <1>3, <2>1 DEF Partial
  <2>2. ASSUME NEW x \in U PROVE pk[U] = pf[U] + ph[U]
    <3>1. pf[U] = f[x] + pf[U \ {x}] /\ pf[U \ {x}] \in Int
      BY <1>f DEF Taken
    <3>2. ph[U] = h[x] + ph[U \ {x}] /\ ph[U \ {x}] \in Int
      BY <1>h DEF Taken
    <3>3. pk[U] = k[x] + pk[U \ {x}] /\ pk[U \ {x}] \in Int
      BY <1>0, <1>k DEF Taken
    <3>4. pk[U \ {x}] = pf[U \ {x}] + ph[U \ {x}]
      BY <1>4
    <3>5. k[x] = f[x] + h[x] /\ f[x] \in Int /\ h[x] \in Int
      BY <1>0
    <3> QED
      BY <3>1, <3>2, <3>3, <3>4, <3>5
  <2> QED
    BY <2>1, <2>2
<1>5. SUBSET S \subseteq C
  <2>1. \A U \in SUBSET S : (\A x \in U : U \ {x} \in C) => U \in C
    BY <1>4
  <2> HIDE DEF C
  <2> QED
    BY <2>1, SubsetInduction
<1>6. SumFunction(k) = SumFunction(f) + SumFunction(h)
  BY <1>1, <1>2, <1>3, <1>5
<1> QED
  BY <1>6 DEF k

LEMMA SumTimes ==
    ASSUME NEW S, IsFiniteSet(S), NEW f \in [S -> Int], NEW n \in Int
    PROVE  SumFunction([x \in S |-> n * f[x]]) = n * SumFunction(f)
<1> DEFINE k == [x \in S |-> n * f[x]]
<1>0. k \in [S -> Int] /\ \A x \in S : k[x] = n * f[x]
  OBVIOUS
<1> HIDE DEF k
<1>1. PICK pf : Partial(f, SUBSET S, pf) /\ SumFunction(f) = pf[S]
  BY SumIsPartial
<1>f. Taken(f, S, pf)
  BY <1>1, PartialTakes
<1>2. \A U \in SUBSET S : \A x \in U : pf[U] = f[x] + pf[U \ {x}] /\ pf[U \ {x}] \in Int
  BY <1>f DEF Taken
<1>3. PICK pk : Partial(k, SUBSET S, pk) /\ SumFunction(k) = pk[S]
  BY <1>0, SumIsPartial
<1>k. Taken(k, S, pk)
  BY <1>0, <1>3, PartialTakes
<1> DEFINE C == {U \in SUBSET S : pk[U] = n * pf[U]}
<1>4. ASSUME NEW U \in SUBSET S, \A x \in U : U \ {x} \in C PROVE pk[U] = n * pf[U]
  <2>1. CASE U = {}
    BY <1>1, <1>3, <2>1 DEF Partial
  <2>2. ASSUME NEW x \in U PROVE pk[U] = n * pf[U]
    <3>1. pf[U] = f[x] + pf[U \ {x}] /\ pf[U \ {x}] \in Int
      BY <1>2
    <3>3. pk[U] = k[x] + pk[U \ {x}] /\ pk[U \ {x}] \in Int
      BY <1>0, <1>k DEF Taken
    <3>4. pk[U \ {x}] = n * pf[U \ {x}]
      BY <1>4
    <3>5. k[x] = n * f[x] /\ f[x] \in Int
      BY <1>0
    <3>6. \A a, b \in Int : n * (a + b) = n * a + n * b
      OBVIOUS
    <3> QED
      BY <3>1, <3>3, <3>4, <3>5, <3>6
  <2> QED
    BY <2>1, <2>2
<1>5. SUBSET S \subseteq C
  <2>1. \A U \in SUBSET S : (\A x \in U : U \ {x} \in C) => U \in C
    BY <1>4
  <2> HIDE DEF C
  <2> QED
    BY <2>1, SubsetInduction
<1>6. SumFunction(k) = n * SumFunction(f)
  BY <1>1, <1>3, <1>5
<1> QED
  BY <1>6 DEF k

\* A bigger value somewhere and a smaller one nowhere.
LEMMA SumGrows ==
    ASSUME NEW S, IsFiniteSet(S), NEW f \in [S -> Int], NEW h \in [S -> Int],
           \A x \in S : f[x] <= h[x]
    PROVE  SumFunction(f) <= SumFunction(h)
<1> DEFINE d == [x \in S |-> h[x] - f[x]]
<1>1. d \in [S -> Nat] /\ d \in [S -> Int]
  OBVIOUS
<1>2. h = [x \in S |-> f[x] + d[x]]
  OBVIOUS
<1> HIDE DEF d
<1>3. SumFunction(h) = SumFunction(f) + SumFunction(d)
  BY <1>1, <1>2, SumAdd
<1>4. SumFunction(f) \in Int /\ SumFunction(d) \in Nat
  BY <1>1, SumType, SumNat
<1> QED
  BY <1>3, <1>4

LEMMA SumZero ==
    ASSUME NEW S, IsFiniteSet(S), NEW f \in [S -> Int], \A x \in S : f[x] = 0
    PROVE  SumFunction(f) = 0
<1>1. f = [x \in S |-> f[x] + f[x]]
  OBVIOUS
<1>2. SumFunction(f) = SumFunction(f) + SumFunction(f)
  BY <1>1, SumAdd
<1> QED
  BY <1>2, SumType

\* Only x's value is another.
LEMMA SumChanges ==
    ASSUME NEW S, IsFiniteSet(S), NEW f \in [S -> Int], NEW h \in [S -> Int], NEW x \in S,
           \A y \in S \ {x} : f[y] = h[y]
    PROVE  SumFunction(h) = SumFunction(f) - f[x] + h[x]
<1>1. AllBut(f, x) = AllBut(h, x)
  BY DEF AllBut, On
<1>2. /\ SumFunction(f) = f[x] + SumFunction(AllBut(f, x))
      /\ SumFunction(AllBut(f, x)) \in Int
  BY SumTakes
<1>3. SumFunction(h) = h[x] + SumFunction(AllBut(h, x))
  BY SumTakes
<1> QED
  BY <1>1, <1>2, <1>3

\* What is nothing outside T counts for nothing.
LEMMA SumWithin ==
    ASSUME NEW S, IsFiniteSet(S), NEW f \in [S -> Int], NEW T \in SUBSET S,
           \A x \in S \ T : f[x] = 0
    PROVE  SumFunction(f) = SumFunction(On(f, T))
<1>1. PICK g : Partial(f, SUBSET S, g) /\ SumFunction(f) = g[S]
  BY SumIsPartial
<1>g. Taken(f, S, g)
  BY <1>1, PartialTakes
<1> DEFINE C == {U \in SUBSET S : g[U] = g[U \cap T]}
<1>2. ASSUME NEW U \in SUBSET S, \A x \in U : U \ {x} \in C PROVE g[U] = g[U \cap T]
  <2>1. CASE U \subseteq T
    <3>1. U \cap T = U
      BY <2>1
    <3> QED
      BY <3>1
  <2>2. ASSUME NEW x \in U, x \notin T PROVE g[U] = g[U \cap T]
    <3>1. g[U] = f[x] + g[U \ {x}] /\ g[U \ {x}] \in Int
      BY <1>g DEF Taken
    <3>2. f[x] = 0
      BY <2>2
    <3>3. g[U \ {x}] = g[(U \ {x}) \cap T]
      BY <1>2
    <3>4. (U \ {x}) \cap T = U \cap T
      BY <2>2
    <3> QED
      BY <3>1, <3>2, <3>3, <3>4
  <2> QED
    BY <2>1, <2>2
<1>3. SUBSET S \subseteq C
  <2>1. \A U \in SUBSET S : (\A x \in U : U \ {x} \in C) => U \in C
    BY <1>2
  <2> HIDE DEF C
  <2> QED
    BY <2>1, SubsetInduction
<1>4. S \in C
  BY <1>3
<1>5. g[S] = g[T]
  <2>1. S \cap T = T
    OBVIOUS
  <2> QED
    BY <1>4, <2>1
<1>6. SumFunction(On(f, T)) = g[T]
  BY <1>1, PartialIsSum
<1> QED
  BY <1>1, <1>5, <1>6

\* Renaming what is summed, one to one, changes nothing.
LEMMA SumRenamed ==
    ASSUME NEW S, IsFiniteSet(S), NEW T, IsFiniteSet(T),
           NEW f \in [S -> Int], NEW h \in [T -> Int], NEW b \in [S -> T],
           \A x, y \in S : b[x] = b[y] => x = y,
           \A z \in T : \E x \in S : b[x] = z,
           \A x \in S : f[x] = h[b[x]]
    PROVE  SumFunction(f) = SumFunction(h)
<1>1. PICK pf : Partial(f, SUBSET S, pf) /\ SumFunction(f) = pf[S]
  BY SumIsPartial
<1>f. Taken(f, S, pf)
  BY <1>1, PartialTakes
<1>2. PICK ph : Partial(h, SUBSET T, ph) /\ SumFunction(h) = ph[T]
  BY SumIsPartial
<1>h. Taken(h, T, ph)
  BY <1>2, PartialTakes
<1>a. \A U \in SUBSET S : \A x \in U : pf[U] = f[x] + pf[U \ {x}]
  BY <1>f DEF Taken
<1>b. \A U \in SUBSET T : \A x \in U : ph[U] = h[x] + ph[U \ {x}]
  BY <1>h DEF Taken
<1> DEFINE To(U) == {b[x] : x \in U}
           C == {U \in SUBSET S : pf[U] = ph[To(U)]}
<1>3. ASSUME NEW U \in SUBSET S, \A x \in U : U \ {x} \in C PROVE pf[U] = ph[To(U)]
  <2>1. CASE U = {}
    <3>1. To(U) = {}
      BY <2>1
    <3> QED
      BY <1>1, <1>2, <2>1, <3>1 DEF Partial
  <2>2. ASSUME NEW x \in U PROVE pf[U] = ph[To(U)]
    <3>1. pf[U] = f[x] + pf[U \ {x}]
      BY <1>a
    <3>2. To(U) \in SUBSET T /\ b[x] \in To(U)
      OBVIOUS
    <3>3. To(U \ {x}) = To(U) \ {b[x]}
      OBVIOUS
    <3>4. ph[To(U)] = h[b[x]] + ph[To(U) \ {b[x]}]
      BY <1>b, <3>2
    <3>5. pf[U \ {x}] = ph[To(U \ {x})]
      BY <1>3
    <3>6. f[x] = h[b[x]]
      OBVIOUS
    <3> QED
      BY <3>1, <3>3, <3>4, <3>5, <3>6
  <2> QED
    BY <2>1, <2>2
<1>4. SUBSET S \subseteq C
  <2>1. \A U \in SUBSET S : (\A x \in U : U \ {x} \in C) => U \in C
    BY <1>3
  <2> HIDE DEF C
  <2> QED
    BY <2>1, SubsetInduction
<1>5. S \in C
  BY <1>4
<1>6. To(S) = T
  OBVIOUS
<1> QED
  BY <1>1, <1>2, <1>5, <1>6

-----------------------------------------------------------------------------
(* Functions defined by recursion on the natural numbers.                  *)

Begun(V, a, h, n, f) == f \in [0..n -> V] /\ f[0] = a /\ \A k \in 1..n : f[k] = h[k][f[k - 1]]

LEMMA BegunAlike ==
    ASSUME NEW V, NEW a, NEW h, NEW n \in Nat, NEW f, Begun(V, a, h, n, f),
           NEW m \in Nat, n <= m, NEW g, Begun(V, a, h, m, g)
    PROVE  \A k \in 0..n : f[k] = g[k]
<1> DEFINE B == {k \in Nat : k <= n => f[k] = g[k]}
<1>1. 0 \in B
  BY DEF Begun
<1>2. ASSUME NEW k \in B PROVE k + 1 \in B
  <2> SUFFICES ASSUME k + 1 <= n PROVE f[k + 1] = g[k + 1]
    OBVIOUS
  <2>1. k + 1 \in 1..n /\ k + 1 \in 1..m /\ (k + 1) - 1 = k /\ k <= n
    OBVIOUS
  <2>2. f[k + 1] = h[k + 1][f[k]] /\ g[k + 1] = h[k + 1][g[k]]
    BY <2>1 DEF Begun
  <2> QED
    BY <2>1, <2>2
<1>3. B \in SUBSET Nat
  OBVIOUS
<1> HIDE DEF B
<1>4. B = Nat
  BY <1>1, <1>2, <1>3, NatSetInduction
<1> QED
  BY <1>4 DEF B

LEMMA BegunExists ==
    ASSUME NEW V, NEW a \in V, NEW h \in [Nat -> [V -> V]], NEW n \in Nat
    PROVE  \E f : Begun(V, a, h, n, f)
<1> DEFINE B == {k \in Nat : \E f : Begun(V, a, h, k, f)}
<1>1. 0 \in B
  <2>1. Begun(V, a, h, 0, [k \in 0..0 |-> a])
    BY DEF Begun
  <2> QED
    BY <2>1
<1>2. ASSUME NEW k \in B PROVE k + 1 \in B
  <2>1. PICK f : Begun(V, a, h, k, f)
    OBVIOUS
  <2> DEFINE g == [i \in 0..(k + 1) |-> IF i = k + 1 THEN h[k + 1][f[k]] ELSE f[i]]
  <2>2. f \in [0..k -> V] /\ f[0] = a /\ \A i \in 1..k : f[i] = h[i][f[i - 1]]
    BY <2>1 DEF Begun
  <2>3. h[k + 1][f[k]] \in V
    <3>1. k \in 0..k /\ k + 1 \in Nat
      OBVIOUS
    <3>2. f[k] \in V /\ h[k + 1] \in [V -> V]
      BY <2>2, <3>1
    <3> QED
      BY <3>2
  <2>4. g \in [0..(k + 1) -> V]
    <3>1. ASSUME NEW i \in 0..(k + 1), i # k + 1 PROVE f[i] \in V
      <4>1. i \in 0..k
        BY <3>1
      <4> QED
        BY <2>2, <4>1
    <3> QED
      BY <2>3, <3>1
  <2>5. g[0] = a /\ g[k + 1] = h[k + 1][f[k]] /\ \A i \in 0..k : g[i] = f[i]
    BY <2>2
  <2> HIDE DEF g
  <2>6. ASSUME NEW i \in 1..(k + 1) PROVE g[i] = h[i][g[i - 1]]
    <3>1. i - 1 \in 0..k
      OBVIOUS
    <3>2. CASE i = k + 1
      <4>1. i - 1 = k
        BY <3>2
      <4> QED
        BY <2>5, <3>1, <3>2, <4>1
    <3>3. CASE i # k + 1
      <4>1. i \in 1..k /\ i \in 0..k
        BY <3>3
      <4> QED
        BY <2>2, <2>5, <3>1, <4>1
    <3> QED
      BY <3>2, <3>3
  <2>7. Begun(V, a, h, k + 1, g)
    BY <2>4, <2>5, <2>6 DEF Begun
  <2> QED
    BY <2>7
<1>3. B \in SUBSET Nat
  OBVIOUS
<1> HIDE DEF B
<1>4. B = Nat
  BY <1>1, <1>2, <1>3, NatSetInduction
<1> QED
  BY <1>4 DEF B

LEMMA RecursionExists ==
    ASSUME NEW V, NEW a \in V, NEW h \in [Nat -> [V -> V]]
    PROVE  \E f \in [Nat -> V] : f[0] = a /\ \A n \in Nat : f[n + 1] = h[n + 1][f[n]]
<1> DEFINE G(n) == CHOOSE f : Begun(V, a, h, n, f)
           F == [n \in Nat |-> G(n)[n]]
<1>1. ASSUME NEW n \in Nat PROVE Begun(V, a, h, n, G(n))
  BY BegunExists
<1>2. F \in [Nat -> V] /\ F[0] = a
  <2>1. ASSUME NEW n \in Nat PROVE G(n)[n] \in V
    <3> DEFINE f == G(n)
    <3>1. f \in [0..n -> V]
      BY <1>1 DEF Begun
    <3>2. n \in 0..n
      OBVIOUS
    <3> HIDE DEF f
    <3>3. f[n] \in V
      BY <3>1, <3>2
    <3> QED
      BY <3>3 DEF f
  <2>2. G(0)[0] = a
    BY <1>1 DEF Begun
  <2> HIDE DEF G
  <2> QED
    BY <2>1, <2>2
<1>3. ASSUME NEW n \in Nat PROVE F[n + 1] = h[n + 1][F[n]]
  <2> DEFINE f == G(n)
             g == G(n + 1)
  <2>1. Begun(V, a, h, n, f) /\ Begun(V, a, h, n + 1, g)
    BY <1>1
  <2>2. F[n] = f[n] /\ F[n + 1] = g[n + 1]
    OBVIOUS
  <2> HIDE DEF f, g, F
  <2>3. n \in 0..n /\ n <= n + 1 /\ n + 1 \in Nat /\ n + 1 \in 1..(n + 1) /\ (n + 1) - 1 = n
    OBVIOUS
  <2>4. f[n] = g[n]
    BY <2>1, <2>3, BegunAlike
  <2>5. g[n + 1] = h[n + 1][g[n]]
    BY <2>1, <2>3 DEF Begun
  <2> QED
    BY <2>2, <2>4, <2>5
<1> HIDE DEF F
<1> QED
  BY <1>2, <1>3
=============================================================================
