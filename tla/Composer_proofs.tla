------------------------------ MODULE Composer_proofs -------------------------
(***************************************************************************)
(* That every split the composer takes for valid shares out the whole      *)
(* total, in every mode, that the debts every screen shows add up to the   *)
(* nets it shows, that the plan it offers settles every one of them, and   *)
(* that a debt paid in another currency is paid to the last unit: for any  *)
(* people, amounts, receipts, rates and bounds.                            *)
(***************************************************************************)
EXTENDS Composer, Sums

-----------------------------------------------------------------------------
(* Counting.                                                               *)

Marks(S, R) == [x \in S |-> IF x \in R THEN 1 ELSE 0]

\* A sum of ones counts them.
LEMMA SumOnes ==
    ASSUME NEW S, IsFiniteSet(S), NEW R \in SUBSET S
    PROVE  /\ SumFunction(Marks(S, R)) = Cardinality(R)
           /\ Marks(S, R) \in [S -> Int]
           /\ Cardinality(R) \in Nat
<1> DEFINE C == {U \in SUBSET S : SumFunction(Marks(S, U)) = Cardinality(U)}
<1>0. \A U \in SUBSET S : /\ Marks(S, U) \in [S -> Int]
                          /\ IsFiniteSet(U) /\ Cardinality(U) \in Nat
  BY FS_Subset, FS_CardinalityType DEF Marks
<1>1. ASSUME NEW U \in SUBSET S, \A x \in U : U \ {x} \in C PROVE U \in C
  <2>1. CASE U = {}
    <3>1. \A x \in S : Marks(S, U)[x] = 0
      BY <2>1 DEF Marks
    <3>2. SumFunction(Marks(S, U)) = 0
      BY <1>0, <3>1, SumZero
    <3> QED BY <2>1, <3>2, FS_EmptySet
  <2>2. CASE U # {}
    <3>1. PICK x \in U : TRUE
      BY <2>2
    <3>2. SumFunction(Marks(S, U \ {x})) = Cardinality(U \ {x})
      BY <1>1, <3>1
    <3>3. \A y \in S \ {x} : Marks(S, U \ {x})[y] = Marks(S, U)[y]
      BY DEF Marks
    <3>4. Marks(S, U \ {x})[x] = 0 /\ Marks(S, U)[x] = 1
      BY <3>1 DEF Marks
    <3>5. SumFunction(Marks(S, U)) = SumFunction(Marks(S, U \ {x})) - 0 + 1
      <4>1. x \in S /\ U \ {x} \in SUBSET S
        BY <3>1
      <4> DEFINE f == Marks(S, U \ {x})
                 h == Marks(S, U)
      <4>2. f \in [S -> Int] /\ h \in [S -> Int]
        BY <1>0, <4>1
      <4>3. \A y \in S \ {x} : f[y] = h[y]
        BY <3>3
      <4>4. f[x] = 0 /\ h[x] = 1
        BY <3>4
      <4> HIDE DEF f, h
      <4>5. SumFunction(h) = SumFunction(f) - f[x] + h[x]
        BY <4>1, <4>2, <4>3, SumChanges
      <4> QED BY <4>4, <4>5 DEF f, h
    <3>6. Cardinality(U \ {x}) = Cardinality(U) - 1
      BY <1>0, <3>1, FS_RemoveElement
    <3>7. Cardinality(U) \in Nat
      BY <1>0
    <3> QED BY <3>2, <3>5, <3>6, <3>7
  <2> QED BY <2>1, <2>2
<1> HIDE DEF C
<1>2. SUBSET S \subseteq C
  BY <1>1, SubsetInduction
<1> QED BY <1>0, <1>2 DEF C

\* B tells of any two in S which comes first.
Orders(B, S) ==
    /\ \A x \in S : <<x, x>> \notin B
    /\ \A x, y, z \in S : <<x, y>> \in B /\ <<y, z>> \in B => <<x, z>> \in B
    /\ \A x, y \in S : x = y \/ <<x, y>> \in B \/ <<y, x>> \in B
Ahead(B, S, x) == {y \in S : <<y, x>> \in B}
Firsts(B, S, n) == {x \in S : Cardinality(Ahead(B, S, x)) < n}

LEMMA OneComesFirst ==
    ASSUME NEW S, IsFiniteSet(S), NEW B, Orders(B, S), NEW T \in SUBSET S, T # {}
    PROVE  \E x \in T : \A y \in T \ {x} : <<x, y>> \in B
<1> DEFINE C == {U \in SUBSET S : U = {} \/ \E x \in U : \A y \in U \ {x} : <<x, y>> \in B}
<1>1. ASSUME NEW U \in SUBSET S, \A x \in U : U \ {x} \in C PROVE U \in C
  <2>1. CASE U = {}
    BY <2>1
  <2>2. CASE U # {}
    <3>1. PICK z \in U : TRUE
      BY <2>2
    <3>2. CASE U \ {z} = {}
      BY <3>1, <3>2
    <3>3. CASE U \ {z} # {}
      <4>1. PICK x \in U \ {z} : \A y \in (U \ {z}) \ {x} : <<x, y>> \in B
        BY <1>1, <3>3
      <4>2. <<x, z>> \in B \/ <<z, x>> \in B
        BY <4>1 DEF Orders
      <4>3. CASE <<x, z>> \in B
        BY <4>1, <4>3
      <4>4. CASE <<z, x>> \in B
        <5>1. \A y \in U \ {z} : <<z, y>> \in B
          BY <3>1, <4>1, <4>4 DEF Orders
        <5> QED BY <3>1, <5>1
      <4> QED BY <4>2, <4>3, <4>4
    <3> QED BY <3>2, <3>3
  <2> QED BY <2>1, <2>2
<1> HIDE DEF C
<1>2. SUBSET S \subseteq C
  BY <1>1, SubsetInduction
<1> QED BY <1>2 DEF C

LEMMA AheadCounted ==
    ASSUME NEW S, IsFiniteSet(S), NEW B, Orders(B, S), NEW x \in S
    PROVE  /\ Cardinality(Ahead(B, S, x)) \in Nat /\ IsFiniteSet(Ahead(B, S, x))
           /\ \A y \in S : <<x, y>> \in B =>
                 Cardinality(Ahead(B, S, x)) < Cardinality(Ahead(B, S, y))
<1>1. \A y \in S : IsFiniteSet(Ahead(B, S, y)) /\ Cardinality(Ahead(B, S, y)) \in Nat
  BY FS_Subset, FS_CardinalityType DEF Ahead
<1>2. ASSUME NEW y \in S, <<x, y>> \in B
      PROVE  Cardinality(Ahead(B, S, x)) < Cardinality(Ahead(B, S, y))
  <2>1. Ahead(B, S, x) \subseteq Ahead(B, S, y) /\ x \in Ahead(B, S, y) /\ x \notin Ahead(B, S, x)
    BY <1>2 DEF Orders, Ahead
  <2>2. /\ Cardinality(Ahead(B, S, x)) <= Cardinality(Ahead(B, S, y))
        /\ Cardinality(Ahead(B, S, x)) = Cardinality(Ahead(B, S, y)) =>
              Ahead(B, S, x) = Ahead(B, S, y)
    BY <1>1, <2>1, FS_Subset
  <2> QED BY <1>1, <2>1, <2>2
<1> QED BY <1>1, <1>2

\* As many come first as are let.
LEMMA FirstsCounted ==
    ASSUME NEW S, IsFiniteSet(S), NEW B, Orders(B, S), NEW n \in Nat, n <= Cardinality(S)
    PROVE  Cardinality(Firsts(B, S, n)) = n
<1> DEFINE D == {k \in Nat : k <= Cardinality(S) => Cardinality(Firsts(B, S, k)) = k}
<1>0. \A x \in S : Cardinality(Ahead(B, S, x)) \in Nat
  BY AheadCounted
<1>1. 0 \in D
  <2>1. Firsts(B, S, 0) = {}
    BY <1>0 DEF Firsts
  <2> QED BY <2>1, FS_EmptySet
<1>2. ASSUME NEW k \in D PROVE k + 1 \in D
  <2> SUFFICES ASSUME k + 1 <= Cardinality(S)
               PROVE  Cardinality(Firsts(B, S, k + 1)) = k + 1
    OBVIOUS
  <2> DEFINE F == Firsts(B, S, k)
  <2>1. F \subseteq S /\ IsFiniteSet(F) /\ Cardinality(F) = k /\ Cardinality(S) \in Nat
    BY FS_Subset, FS_CardinalityType DEF Firsts
  <2>2. S \ F # {}
    <3>1. F # S
      BY <2>1
    <3> QED BY <2>1, <3>1
  <2>3. PICK x \in S \ F : \A y \in (S \ F) \ {x} : <<x, y>> \in B
    <3> DEFINE T == S \ F
    <3>1. T \in SUBSET S /\ T # {}
      BY <2>2
    <3> HIDE DEF F, T
    <3>2. \E x \in T : \A y \in T \ {x} : <<x, y>> \in B
      BY <3>1, OneComesFirst
    <3> QED BY <3>2 DEF T
  <2>4. Ahead(B, S, x) = F
    <3>1. ASSUME NEW y \in S, <<y, x>> \in B PROVE y \in F
      BY <2>3, <3>1 DEF Orders
    <3>2. ASSUME NEW y \in F PROVE <<y, x>> \in B
      <4>1. y \in S /\ y # x /\ Cardinality(Ahead(B, S, y)) < k /\ ~(Cardinality(Ahead(B, S, x)) < k)
        BY <2>3, <3>2 DEF Firsts
      <4>2. ~(<<x, y>> \in B)
        BY <1>0, <2>3, <4>1, AheadCounted
      <4> QED BY <2>3, <4>1, <4>2 DEF Orders
    <3> QED BY <2>1, <3>1, <3>2 DEF Ahead
  <2>5. Firsts(B, S, k + 1) = F \cup {x}
    <3>1. ASSUME NEW y \in S, Cardinality(Ahead(B, S, y)) < k + 1, y # x PROVE y \in F
      <4>1. <<x, y>> \in B => k < Cardinality(Ahead(B, S, y))
        BY <2>1, <2>3, <2>4, AheadCounted
      <4>2. Cardinality(Ahead(B, S, y)) \in Nat
        BY <1>0
      <4> QED BY <2>3, <3>1, <4>1, <4>2
    <3>2. x \in Firsts(B, S, k + 1)
      <4>1. Cardinality(Ahead(B, S, x)) = k
        BY <2>1, <2>4
      <4>2. x \in S /\ k < k + 1
        BY <2>3
      <4> HIDE DEF F
      <4> QED BY <4>1, <4>2 DEF Firsts
    <3>3. F \subseteq Firsts(B, S, k + 1)
      BY <1>0 DEF Firsts
    <3> HIDE DEF F
    <3> QED BY <2>1, <3>1, <3>2, <3>3 DEF Firsts
  <2>6. Cardinality(F \cup {x}) = Cardinality(F) + 1
    BY <2>1, <2>3, FS_AddElement
  <2> QED BY <2>1, <2>5, <2>6
<1>3. D = Nat
  <2> HIDE DEF D
  <2>1. D \in SUBSET Nat
    BY DEF D
  <2> QED BY <1>1, <1>2, <2>1, NatSetInduction
<1> QED BY <1>3

\* What apportion() works out, part by part: n cents by w, of w's sum.
Base(n, w) == [p \in DOMAIN w |-> (n * w[p]) \div SumFunction(w)]
Cut(n, w) == [p \in DOMAIN w |-> (n * w[p]) % SumFunction(w)]
Comes(cut, payers) ==
    {qp \in (DOMAIN cut) \X (DOMAIN cut) :
        \/ cut[qp[1]] > cut[qp[2]]
        \/ cut[qp[1]] = cut[qp[2]] /\ qp[1] \in payers /\ qp[2] \notin payers
        \/ cut[qp[1]] = cut[qp[2]] /\ (qp[1] \in payers <=> qp[2] \in payers) /\ qp[1] < qp[2]}
Over(n, w) == n - SumFunction(Base(n, w))
Cents(n, w, payers) == Firsts(Comes(Cut(n, w), payers), DOMAIN w, Over(n, w))
Sign(n) == IF n < 0 THEN -1 ELSE 1
Parts(total, w, payers) ==
    [p \in DOMAIN w |-> Sign(total) * (Base(Size(total), w)[p]
                                       + IF p \in Cents(Size(total), w, payers) THEN 1 ELSE 0)]

LEMMA ApportionIs ==
    ASSUME NEW total, NEW weights, NEW payers
    PROVE  Apportion(total, weights, payers) = Parts(total, Weighed(weights), payers)
<1> DEFINE w == Weighed(weights)
           n == Size(total)
           R(v) == LET base == [p \in DOMAIN v |-> (n * v[p]) \div SumFunction(v)]
                       cut  == [p \in DOMAIN v |-> (n * v[p]) % SumFunction(v)]
                       Before(p, q) ==
                         \/ cut[p] > cut[q]
                         \/ cut[p] = cut[q] /\ p \in payers /\ q \notin payers
                         \/ cut[p] = cut[q] /\ (p \in payers <=> q \in payers) /\ p < q
                       over == n - SumFunction(base)
                       Part(p) == base[p] + IF Cardinality({q \in DOMAIN v : Before(q, p)}) < over
                                            THEN 1 ELSE 0
                   IN  [p \in DOMAIN v |-> (IF total < 0 THEN -1 ELSE 1) * Part(p)]
<1> DEFINE X == {R(z) : z \in {w}}
           Y == CHOOSE y \in X : y = y
<1>1. Apportion(total, weights, payers) = Y
  BY DEF Apportion, Given, LeftOver
<1>2. Y = R(w)
  <2> HIDE DEF R, w
  <2>1. X = {R(w)}
    OBVIOUS
  <2> HIDE DEF X
  <2> QED BY <2>1
<1>3. R(w) = Parts(total, w, payers)
  <2> DEFINE base == Base(n, w)
             cut  == Cut(n, w)
             B    == Comes(cut, payers)
             Rank(p) == {q \in DOMAIN w :
                            \/ cut[q] > cut[p]
                            \/ cut[q] = cut[p] /\ q \in payers /\ p \notin payers
                            \/ cut[q] = cut[p] /\ (q \in payers <=> p \in payers) /\ q < p}
             over == Over(n, w)
  <2>1. R(w) = [p \in DOMAIN w |-> (IF total < 0 THEN -1 ELSE 1) *
                   (base[p] + IF Cardinality(Rank(p)) < over THEN 1 ELSE 0)]
    BY DEF Base, Cut, Over
  <2> HIDE DEF w, n
  <2>2. ASSUME NEW p \in DOMAIN w PROVE Rank(p) = Ahead(B, DOMAIN w, p)
    <3>1. DOMAIN cut = DOMAIN w
      BY DEF Cut
    <3> HIDE DEF cut
    <3>2. ASSUME NEW q \in DOMAIN w PROVE q \in Rank(p) <=> <<q, p>> \in B
      <4> DEFINE qp == <<q, p>>
      <4>1. qp[1] = q /\ qp[2] = p /\ qp \in (DOMAIN cut) \X (DOMAIN cut)
        BY <3>1
      <4> HIDE DEF qp
      <4>2. qp \in B <=> q \in Rank(p)
        BY <4>1 DEF Comes
      <4> QED BY <4>2 DEF qp
    <3> HIDE DEF B, Rank
    <3>3. \A q \in DOMAIN w : q \in Rank(p) <=> <<q, p>> \in B
      BY <3>2
    <3>4. Rank(p) \subseteq DOMAIN w
      BY DEF Rank
    <3> QED BY <3>3, <3>4 DEF Ahead
  <2>3. ASSUME NEW p \in DOMAIN w
        PROVE  Cardinality(Rank(p)) < over <=> p \in Cents(n, w, payers)
    <3> HIDE DEF Rank, B
    <3>1. Cents(n, w, payers) = Firsts(B, DOMAIN w, over)
      BY DEF Cents, B
    <3> HIDE DEF over
    <3> QED BY <2>2, <3>1 DEF Firsts
  <2> HIDE DEF R, Rank, over, base
  <2>4. Parts(total, w, payers) =
           [p \in DOMAIN w |-> (IF total < 0 THEN -1 ELSE 1) *
              (base[p] + IF p \in Cents(n, w, payers) THEN 1 ELSE 0)]
    BY DEF Parts, Sign, base, n
  <2> QED BY <2>1, <2>3, <2>4
<1> HIDE DEF R, X, Y
<1> QED BY <1>1, <1>2, <1>3

LEMMA Divided ==
    ASSUME NEW a \in Nat, NEW b \in Nat \ {0}
    PROVE  a \div b \in Nat /\ a % b \in 0..(b - 1) /\ a = b * (a \div b) + (a % b)
<1>1. a \div b \in Int /\ a \div b >= 0
  OBVIOUS
<1>2. a % b \in 0..(b - 1)
  OBVIOUS
<1> DEFINE m == b * (a \div b)
<1>3. a - m = a % b
  OBVIOUS
<1>4. m \in Int
  <2> DEFINE d == a \div b
  <2>1. d \in Int
    BY <1>1
  <2> HIDE DEF d
  <2> QED BY <2>1 DEF d
<1>5. a = m + (a % b)
  <2> DEFINE r == a % b
  <2>1. r \in Int /\ a - m = r
    BY <1>2, <1>3
  <2> HIDE DEF m, r
  <2>2. a = m + r
    BY <1>4, <2>1
  <2> QED BY <2>2 DEF r
<1> HIDE DEF m
<1> QED BY <1>1, <1>2, <1>5 DEF m

LEMMA Multiplied == ASSUME NEW a \in Nat, NEW b \in Nat PROVE a * b \in Nat
OBVIOUS

LEMMA Between ==
    ASSUME NEW over \in Int, NEW whole \in Nat \ {0}, NEW many \in Nat,
           0 <= whole * over, whole * over <= (whole - 1) * many
    PROVE  over \in 0..many
<1>1. over >= 0
  <2>1. over < 0 => whole * over < 0
    OBVIOUS
  <2> QED BY <2>1
<1>2. over <= many
  <2> SUFFICES ASSUME over >= many + 1 PROVE FALSE
    OBVIOUS
  <2>1. whole * over >= whole * (many + 1)
    OBVIOUS
  <2>2. whole * (many + 1) = (whole - 1) * many + many + whole
    OBVIOUS
  <2>3. (whole - 1) * many \in Int /\ whole * over \in Int /\ whole * (many + 1) \in Int
    OBVIOUS
  <2> QED BY <2>1, <2>2, <2>3
<1> QED BY <1>1, <1>2

LEMMA WeighedType ==
    ASSUME NEW D, IsFiniteSet(D), D # {}, NEW weights \in [D -> Int]
    PROVE  Weighed(weights) \in [D -> Nat] /\ SumFunction(Weighed(weights)) \in Nat \ {0}
<1>0. SumFunction(weights) \in Int
  BY SumType
<1>1. CASE SumFunction(weights) <= 0
  <2>1. Weighed(weights) = Marks(D, D)
    BY <1>1 DEF Weighed, One, Marks
  <2>2. SumFunction(Marks(D, D)) = Cardinality(D) /\ Cardinality(D) \in Nat
    BY SumOnes
  <2>3. Cardinality(D) # 0
    BY FS_EmptySet
  <2> QED BY <2>1, <2>2, <2>3 DEF Marks
<1>2. CASE SumFunction(weights) > 0
  <2> DEFINE w == Weighed(weights)
  <2>1. w = [p \in D |-> AtLeastZero(weights[p])]
    BY <1>0, <1>2 DEF Weighed
  <2>2. w \in [D -> Nat] /\ w \in [D -> Int] /\ \A p \in D : weights[p] <= w[p]
    BY <2>1 DEF AtLeastZero
  <2> HIDE DEF w
  <2>3. SumFunction(w) \in Nat
    BY <2>2, SumNat
  <2>4. SumFunction(weights) <= SumFunction(w)
    BY <2>2, SumGrows
  <2>5. SumFunction(w) \in Nat \ {0}
    BY <1>0, <1>2, <2>3, <2>4
  <2> QED BY <2>2, <2>5 DEF w
<1> QED BY <1>0, <1>1, <1>2

\* The cents that rounding down leaves over are no more than there are people.
LEMMA LittleOver ==
    ASSUME NEW D, IsFiniteSet(D), NEW w \in [D -> Nat], SumFunction(w) \in Nat \ {0},
           NEW n \in Nat
    PROVE  /\ Base(n, w) \in [D -> Nat] /\ Cut(n, w) \in [D -> Nat]
           /\ SumFunction(Base(n, w)) \in Nat
           /\ Over(n, w) \in 0..Cardinality(D)
           /\ SumFunction(w) * Over(n, w) = SumFunction(Cut(n, w))
           /\ \A p \in D : /\ Cut(n, w)[p] \in 0..(SumFunction(w) - 1)
                           /\ n * w[p] = SumFunction(w) * Base(n, w)[p] + Cut(n, w)[p]
<1> DEFINE W == SumFunction(w)
           many == Cardinality(D)
           base == Base(n, w)
           cut == Cut(n, w)
<1>0. many \in Nat /\ w \in [D -> Int] /\ W \in Nat \ {0}
  BY FS_CardinalityType
<1>1. DOMAIN base = D /\ DOMAIN cut = D /\ \A p \in D : base[p] = (n * w[p]) \div W /\ cut[p] = (n * w[p]) % W
  BY DEF Base, Cut
<1> HIDE DEF base, cut, W
<1>2. \A p \in D : /\ base[p] \in Nat /\ cut[p] \in 0..(W - 1)
                   /\ n * w[p] = W * base[p] + cut[p] /\ n * w[p] \in Nat /\ W * base[p] \in Nat
  <2> TAKE p \in D
  <2>1. n * w[p] \in Nat
    BY Multiplied
  <2> DEFINE a == n * w[p]
  <2>2. a \in Nat /\ base[p] = a \div W /\ cut[p] = a % W
    BY <1>1, <2>1
  <2> HIDE DEF a
  <2>3. base[p] \in Nat /\ cut[p] \in 0..(W - 1) /\ a = W * base[p] + cut[p]
    BY <1>0, <2>2, Divided
  <2>4. W * base[p] \in Nat
    BY <1>0, <2>3, Multiplied
  <2> QED BY <2>1, <2>3, <2>4 DEF a
<1>3. base = [p \in D |-> base[p]] /\ cut = [p \in D |-> cut[p]]
  BY <1>1 DEF base, cut, Base, Cut
<1>4. /\ base \in [D -> Nat] /\ cut \in [D -> Nat]
      /\ base \in [D -> Int] /\ cut \in [D -> Int]
  BY <1>0, <1>2, <1>3
<1>5. SumFunction(base) \in Nat /\ SumFunction(cut) \in Nat
  BY <1>4, SumNat
<1> DEFINE wb == [p \in D |-> W * base[p]]
           nw == [p \in D |-> n * w[p]]
<1>6. wb \in [D -> Int]
  BY <1>2
<1>7. nw = [p \in D |-> wb[p] + cut[p]]
  BY <1>2
<1>8. SumFunction(nw) = SumFunction(wb) + SumFunction(cut)
  <2> HIDE DEF wb, nw
  <2> QED BY <1>4, <1>6, <1>7, SumAdd
<1>9. SumFunction(nw) = n * W /\ SumFunction(wb) = W * SumFunction(base)
  BY <1>0, <1>4, SumTimes DEF W
<1>10. W * (n - SumFunction(base)) = SumFunction(cut)
  <2> HIDE DEF wb, nw
  <2> DEFINE b == SumFunction(base)
  <2>1. b \in Nat /\ n * W = W * b + SumFunction(cut)
    BY <1>5, <1>8, <1>9
  <2> HIDE DEF b
  <2>2. W * (n - b) = n * W - W * b
    BY <1>0, <2>1
  <2>3. n * W \in Int /\ W * b \in Int
    BY <1>0, <2>1
  <2> QED BY <1>5, <2>1, <2>2, <2>3 DEF b
<1>11. SumFunction(cut) <= (W - 1) * many
  <2> DEFINE ones == Marks(D, D)
             top == [p \in D |-> (W - 1) * ones[p]]
  <2>1. SumFunction(ones) = many /\ ones \in [D -> Int] /\ \A p \in D : ones[p] = 1
    BY SumOnes DEF Marks
  <2> HIDE DEF ones
  <2>2. \A p \in D : top[p] = W - 1
    BY <1>0, <2>1
  <2>3. SumFunction(top) = (W - 1) * many
    BY <1>0, <2>1, SumTimes
  <2>4. top \in [D -> Int] /\ \A p \in D : cut[p] <= top[p]
    BY <1>0, <1>2, <2>2
  <2> HIDE DEF top
  <2> QED BY <1>4, <2>3, <2>4, SumGrows
<1>12. n - SumFunction(base) \in 0..many
  <2> DEFINE over == n - SumFunction(base)
  <2>1. over \in Int /\ 0 <= W * over /\ W * over <= (W - 1) * many
    BY <1>5, <1>10, <1>11
  <2> HIDE DEF over
  <2>2. over \in 0..many
    BY <1>0, <2>1, Between
  <2> QED BY <2>2 DEF over
<1> QED BY <1>2, <1>4, <1>5, <1>10, <1>12 DEF Over, base, cut, W

\* Of two people one comes before the other.
LEMMA CutsOrder ==
    ASSUME NEW D \in SUBSET Nat, NEW cut \in [D -> Nat], NEW payers
    PROVE  Orders(Comes(cut, payers), D)
<1> DEFINE B == Comes(cut, payers)
<1>1. ASSUME NEW q \in D, NEW p \in D
      PROVE  <<q, p>> \in B <=>
                \/ cut[q] > cut[p]
                \/ cut[q] = cut[p] /\ q \in payers /\ p \notin payers
                \/ cut[q] = cut[p] /\ (q \in payers <=> p \in payers) /\ q < p
  <2> DEFINE qp == <<q, p>>
  <2>1. qp[1] = q /\ qp[2] = p /\ qp \in (DOMAIN cut) \X (DOMAIN cut)
    OBVIOUS
  <2> HIDE DEF qp
  <2>2. qp \in B <=>
                \/ cut[q] > cut[p]
                \/ cut[q] = cut[p] /\ q \in payers /\ p \notin payers
                \/ cut[q] = cut[p] /\ (q \in payers <=> p \in payers) /\ q < p
    BY <2>1 DEF Comes
  <2> QED BY <2>2 DEF qp
<1> HIDE DEF B
<1>2. \A x \in D : x \in Nat /\ cut[x] \in Nat
  OBVIOUS
<1>3. \A x \in D : <<x, x>> \notin B
  BY <1>1, <1>2
<1>4. ASSUME NEW x \in D, NEW y \in D, NEW z \in D, <<x, y>> \in B, <<y, z>> \in B
      PROVE  <<x, z>> \in B
  BY <1>1, <1>2, <1>4
<1>5. ASSUME NEW x \in D, NEW y \in D, x # y PROVE <<x, y>> \in B \/ <<y, x>> \in B
  <2>1. CASE cut[x] = cut[y]
    BY <1>1, <1>2, <1>5, <2>1
  <2>2. CASE cut[x] # cut[y]
    BY <1>1, <1>2, <2>2
  <2> QED BY <2>1, <2>2
<1> QED BY <1>3, <1>4, <1>5 DEF Orders, B

\* apportion() gives out the total, whatever the weights.
LEMMA ApportionAdds ==
    ASSUME NEW D \in SUBSET Nat, IsFiniteSet(D), D # {}, NEW weights \in [D -> Int],
           NEW total \in Int, NEW payers
    PROVE  /\ Apportion(total, weights, payers) \in [D -> Int]
           /\ SumFunction(Apportion(total, weights, payers)) = total
           /\ total >= 0 => Apportion(total, weights, payers) \in [D -> Nat]
<1> DEFINE w == Weighed(weights)
           n == Size(total)
           base == Base(n, w)
           over == Over(n, w)
           cents == Cents(n, w, payers)
           ones == Marks(D, cents)
           s == Sign(total)
           all == [p \in D |-> base[p] + ones[p]]
           parts == [p \in D |-> s * all[p]]
<1>1. w \in [D -> Nat] /\ SumFunction(w) \in Nat \ {0}
  BY WeighedType
<1>2. n \in Nat /\ s \in {-1, 1} /\ s * n = total /\ (total >= 0 => s = 1)
  BY DEF Size, Sign
<1> HIDE DEF w, n, s
<1>3. /\ base \in [D -> Nat] /\ Cut(n, w) \in [D -> Nat]
      /\ SumFunction(base) \in Nat /\ over \in 0..Cardinality(D)
  BY <1>1, <1>2, LittleOver
<1>4. Cardinality(D) \in Nat
  BY FS_CardinalityType
<1>5. Orders(Comes(Cut(n, w), payers), D)
  BY <1>3, CutsOrder
<1>6. cents = Firsts(Comes(Cut(n, w), payers), D, over)
  BY <1>1 DEF Cents
<1>7. over \in Nat /\ over <= Cardinality(D)
  BY <1>3, <1>4
<1>8. over = n - SumFunction(base)
  BY DEF Over
<1> HIDE DEF base, over
<1>9. cents \in SUBSET D /\ Cardinality(cents) = over
  <2>1. Cardinality(Firsts(Comes(Cut(n, w), payers), D, over)) = over
    BY <1>5, <1>7, FirstsCounted
  <2> QED BY <1>6, <2>1 DEF Firsts
<1> HIDE DEF cents
<1>10. SumFunction(ones) = over /\ ones \in [D -> Int]
  BY <1>9, SumOnes
<1>11. \A p \in D : ones[p] = IF p \in cents THEN 1 ELSE 0
  BY DEF Marks
<1> HIDE DEF ones
<1>12. all \in [D -> Nat] /\ all \in [D -> Int]
  BY <1>3, <1>11
<1>13. SumFunction(all) = n
  <2>1. base \in [D -> Int]
    BY <1>3
  <2>2. SumFunction(all) = SumFunction(base) + SumFunction(ones)
    BY <1>10, <2>1, SumAdd
  <2> QED BY <1>2, <1>3, <1>8, <1>10, <2>2
<1>14. Apportion(total, weights, payers) = parts
  <2>1. Apportion(total, weights, payers) = Parts(total, w, payers)
    BY ApportionIs DEF w
  <2>2. Parts(total, w, payers) = [p \in D |-> s * (base[p] + IF p \in cents THEN 1 ELSE 0)]
    BY <1>1 DEF Parts, s, n, base, cents
  <2>3. \A p \in D : base[p] + (IF p \in cents THEN 1 ELSE 0) = all[p]
    BY <1>11
  <2> HIDE DEF all
  <2> QED BY <2>1, <2>2, <2>3
<1> HIDE DEF all
<1>15. SumFunction(parts) = s * SumFunction(all)
  <2>1. s \in Int /\ all \in [D -> Int]
    BY <1>2, <1>12
  <2>2. SumFunction([p \in D |-> s * all[p]]) = s * SumFunction(all)
    BY <2>1, SumTimes
  <2> QED BY <2>2
<1>16. parts \in [D -> Int] /\ (s = 1 => parts \in [D -> Nat])
  BY <1>2, <1>12
<1> HIDE DEF parts
<1> QED BY <1>2, <1>13, <1>14, <1>15, <1>16

\* By equal weights, nobody gets two cents more than another, nor somebody who paid
\* less than somebody who did not.
LEMMA ApportionIsFair ==
    ASSUME NEW D \in SUBSET Nat, IsFiniteSet(D), D # {}, NEW total \in Nat, NEW payers,
           NEW p \in D, NEW q \in D
    PROVE  LET a == Apportion(total, One(D), payers)
           IN  a[p] - a[q] \in -1..1 /\ (p \in payers /\ q \notin payers => a[p] >= a[q])
<1> DEFINE w == One(D)
           n == Size(total)
           base == Base(n, w)
           cut == Cut(n, w)
           B == Comes(cut, payers)
           over == Over(n, w)
           cents == Cents(n, w, payers)
<1>1. Weighed(w) = w
  <2>1. \A x \in D : AtLeastZero(w[x]) = 1
    BY DEF One, AtLeastZero
  <2>2. DOMAIN w = D /\ One(D) = [x \in D |-> 1]
    BY DEF One
  <2> QED BY <2>1, <2>2 DEF Weighed
<1>2. w \in [D -> Nat] /\ w \in [D -> Int] /\ \A x \in D : w[x] = 1
  BY DEF One
<1>3. SumFunction(w) \in Nat \ {0}
  BY <1>1, <1>2, WeighedType
<1>4. n \in Nat /\ n = total
  BY DEF Size
<1>5. base[p] = base[q] /\ cut[p] = cut[q]
  BY <1>2 DEF Base, Cut
<1> HIDE DEF w, n
<1>6. base \in [D -> Nat] /\ cut \in [D -> Nat] /\ over \in 0..Cardinality(D) /\ Cardinality(D) \in Nat
  BY <1>2, <1>3, <1>4, LittleOver, FS_CardinalityType
<1>7. Orders(B, D)
  BY <1>6, CutsOrder
<1>8. cents = Firsts(B, D, over)
  BY <1>2 DEF Cents
<1>9. ASSUME p \in payers, q \notin payers, q \in cents PROVE p \in cents
  <2>1. <<p, q>> \in B
    <3> DEFINE pq == <<p, q>>
    <3>1. pq[1] = p /\ pq[2] = q /\ pq \in (DOMAIN cut) \X (DOMAIN cut)
      BY <1>6
    <3> HIDE DEF pq, cut
    <3>2. pq \in B
      BY <1>5, <1>9, <3>1 DEF Comes
    <3> QED BY <3>2 DEF pq
  <2> HIDE DEF B, cents
  <2>2. /\ Cardinality(Ahead(B, D, p)) < Cardinality(Ahead(B, D, q))
        /\ Cardinality(Ahead(B, D, p)) \in Nat
    BY <1>7, <2>1, AheadCounted
  <2>3. Cardinality(Ahead(B, D, q)) < over /\ Cardinality(Ahead(B, D, q)) \in Nat
    BY <1>7, <1>8, <1>9, AheadCounted DEF Firsts
  <2>4. Cardinality(Ahead(B, D, p)) < over
    BY <1>6, <2>2, <2>3
  <2> HIDE DEF over
  <2> QED BY <1>8, <2>4 DEF Firsts
<1>10. Apportion(total, w, payers) = Parts(total, w, payers)
  BY <1>1, ApportionIs
<1>11. \A x \in D : Parts(total, w, payers)[x] = 1 * (base[x] + IF x \in cents THEN 1 ELSE 0)
  BY <1>2, <1>4 DEF Parts, Sign, n
<1> HIDE DEF base, cents
<1> DEFINE a == Apportion(total, w, payers)
<1>12. \A x \in D : a[x] = base[x] + IF x \in cents THEN 1 ELSE 0
  BY <1>6, <1>10, <1>11
<1> HIDE DEF a
<1>13. a[p] - a[q] \in -1..1 /\ (p \in payers /\ q \notin payers => a[p] >= a[q])
  BY <1>5, <1>6, <1>9, <1>12
<1> QED BY <1>13 DEF a, w

LEMMA AddedSums ==
    ASSUME NEW S, IsFiniteSet(S), NEW T \in SUBSET S,
           NEW f \in [S -> Int], NEW g \in [T -> Int]
    PROVE  /\ Added(f, g) \in [S -> Int]
           /\ SumFunction(Added(f, g)) = SumFunction(f) + SumFunction(g)
<1> DEFINE h == [p \in S |-> IF p \in T THEN g[p] ELSE 0]
<1>1. h \in [S -> Int] /\ (\A p \in S \ T : h[p] = 0) /\ On(h, T) = g
  BY DEF On
<1>2. Added(f, g) = [p \in S |-> f[p] + h[p]] /\ Added(f, g) \in [S -> Int]
  BY DEF Added
<1> HIDE DEF h
<1>3. SumFunction(h) = SumFunction(g)
  BY <1>1, SumWithin
<1>4. SumFunction(Added(f, g)) = SumFunction(f) + SumFunction(h)
  BY <1>1, <1>2, SumAdd
<1> QED BY <1>2, <1>3, <1>4

LEMMA NoneSums ==
    ASSUME NEW S, IsFiniteSet(S)
    PROVE  None(S) \in [S -> Int] /\ SumFunction(None(S)) = 0
<1>1. None(S) \in [S -> Int] /\ \A p \in S : None(S)[p] = 0
  BY DEF None
<1> QED BY <1>1, SumZero

\* A result of cents for everybody, of the total in all if it is valid.
Adds(total, result) ==
    result.shares \in [Party -> Int] /\ (result.ok => SumFunction(result.shares) = total)

LEMMA NothingAdds == ASSUME NEW total PROVE Adds(total, Nothing)
BY DEF Adds, Nothing, Result, None

LEMMA PartyFinite ==
    /\ IsFiniteSet(Party) /\ Party \in SUBSET Nat
    /\ \A included \in SUBSET Party : IsFiniteSet(included) /\ included \in SUBSET Nat
BY FiguresAssumption, FS_Subset

LEMMA OnesAreWeights == ASSUME NEW S PROVE One(S) \in [S -> Int]
BY DEF One

LEMMA EqualAdds ==
    ASSUME NEW total \in Nat, NEW payers, NEW included \in SUBSET Party
    PROVE  /\ Adds(total, EqualSplit(total, payers, included))
           /\ EqualSplit(total, payers, included).ok =>
                 \A p, q \in included :
                    LET shares == EqualSplit(total, payers, included).shares
                    IN  /\ shares[p] - shares[q] \in -1..1
                        /\ p \in payers /\ q \notin payers => shares[p] >= shares[q]
<1> DEFINE a == Apportion(total, One(included), payers)
           s == Added(None(Party), a)
           r == EqualSplit(total, payers, included)
<1>1. CASE included = {}
  BY <1>1, NothingAdds DEF EqualSplit, Nothing, Result
<1>2. CASE included # {}
  <2>1. a \in [included -> Int] /\ SumFunction(a) = total
    BY <1>2, PartyFinite, OnesAreWeights, ApportionAdds
  <2>2. \A p, q \in included : /\ a[p] - a[q] \in -1..1
                               /\ p \in payers /\ q \notin payers => a[p] >= a[q]
    BY <1>2, PartyFinite, ApportionIsFair
  <2>3. r.shares = s
    BY <1>2 DEF EqualSplit, Result
  <2> HIDE DEF a, r
  <2>4. SumFunction(s) = 0 + total /\ s \in [Party -> Int]
    <3>1. IsFiniteSet(Party)
      BY PartyFinite
    <3>2. None(Party) \in [Party -> Int] /\ SumFunction(None(Party)) = 0
      BY <3>1, NoneSums
    <3> DEFINE none == None(Party)
    <3> HIDE DEF none
    <3>3. none \in [Party -> Int] /\ SumFunction(none) = 0
      BY <3>2 DEF none
    <3>4. /\ SumFunction(Added(none, a)) = SumFunction(none) + SumFunction(a)
          /\ Added(none, a) \in [Party -> Int]
      BY <2>1, <3>1, <3>3, AddedSums
    <3> QED BY <2>1, <3>3, <3>4 DEF none
  <2>5. \A p \in included : s[p] = a[p]
    BY <2>1 DEF Added, None
  <2> HIDE DEF s
  <2>6. SumFunction(r.shares) = total /\ r.shares \in [Party -> Int]
    BY <2>3, <2>4
  <2>7. \A p, q \in included : /\ r.shares[p] - r.shares[q] \in -1..1
                               /\ p \in payers /\ q \notin payers => r.shares[p] >= r.shares[q]
    BY <2>2, <2>3, <2>5
  <2> QED BY <2>6, <2>7 DEF Adds, r
<1> QED BY <1>1, <1>2

LEMMA ExactAdds ==
    ASSUME NEW total, NEW amounts \in [Party -> Int] PROVE Adds(total, ExactSplit(total, amounts))
BY DEF Adds, ExactSplit, Result

LEMMA PercentAdds ==
    ASSUME NEW total \in Nat, NEW payers, NEW percents \in [Party -> Int], Party # {}
    PROVE  Adds(total, PercentSplit(total, payers, percents))
<1> DEFINE a == Apportion(total, percents, payers)
<1>1. a \in [Party -> Int] /\ SumFunction(a) = total
  BY PartyFinite, ApportionAdds
<1> QED BY <1>1 DEF Adds, PercentSplit, Result

LEMMA SharesAdd ==
    ASSUME NEW total \in Nat, NEW payers, NEW typed \in [Party -> Int]
    PROVE  Adds(total, SharesSplit(total, payers, typed))
<1> DEFINE weights == [p \in Party |-> AtLeastZero(typed[p])]
<1>1. weights \in [Party -> Int]
  BY DEF AtLeastZero
<1>2. CASE SumFunction(weights) = 0
  BY <1>2, NothingAdds DEF SharesSplit
<1>3. CASE SumFunction(weights) # 0
  <2>1. SharesSplit(total, payers, typed) = Result(TRUE, Apportion(total, weights, payers))
    BY <1>3 DEF SharesSplit
  <2> HIDE DEF weights
  <2>2. Party # {}
    BY <1>1, <1>3, SumEmpty
  <2>3. /\ SumFunction(Apportion(total, weights, payers)) = total
        /\ Apportion(total, weights, payers) \in [Party -> Int]
    BY <1>1, <2>2, PartyFinite, ApportionAdds
  <2> QED BY <2>1, <2>3 DEF Adds, Result
<1> QED BY <1>2, <1>3

LEMMA AdjustmentAdds ==
    ASSUME NEW total \in Nat, NEW payers, NEW included \in SUBSET Party,
           NEW adjustments \in [Party -> Int]
    PROVE  Adds(total, AdjustmentSplit(total, payers, included, adjustments))
<1> DEFINE rest == total - SumFunction(adjustments)
           a == Apportion(rest, One(included), payers)
           r == AdjustmentSplit(total, payers, included, adjustments)
<1>1. CASE included = {}
  BY <1>1, NothingAdds DEF AdjustmentSplit
<1>2. CASE included # {}
  <2>1. SumFunction(adjustments) \in Int
    BY PartyFinite, SumType
  <2>2. r.shares = Added(adjustments, a)
    BY <1>2 DEF AdjustmentSplit, Result
  <2>3. rest \in Int /\ SumFunction(adjustments) + rest = total
    BY <2>1
  <2> HIDE DEF rest, r
  <2>4. a \in [included -> Int] /\ SumFunction(a) = rest
    BY <1>2, <2>3, PartyFinite, OnesAreWeights, ApportionAdds
  <2> HIDE DEF a
  <2>5. /\ SumFunction(Added(adjustments, a)) = SumFunction(adjustments) + rest
        /\ Added(adjustments, a) \in [Party -> Int]
    <3>1. IsFiniteSet(Party)
      BY PartyFinite
    <3> QED BY <2>4, <3>1, AddedSums
  <2> QED BY <2>2, <2>3, <2>5 DEF Adds, r
<1> QED BY <1>1, <1>2

\* What a line of a receipt adds to what everybody had so far, and after which
\* lines, taken the last first.
Claimed(payers, included, running, l) ==
    Added(running, Apportion(l.amount,
                             One(IF l.by \cap included # {} THEN l.by \cap included ELSE included),
                             payers))
Running(payers, included, lines, T, g) ==
    g = [U \in T |-> IF U = {} THEN None(included)
                     ELSE Claimed(payers, included, g[U \ {Max(U)}], lines[Max(U)])]

LEMMA LastIsThere ==
    ASSUME NEW S \in SUBSET Nat, IsFiniteSet(S), NEW U \in SUBSET S, U # {}
    PROVE  Max(U) \in U
<1> DEFINE B == {xy \in S \X S : xy[1] > xy[2]}
<1>1. \A x, y \in S : <<x, y>> \in B <=> x > y
  OBVIOUS
<1> HIDE DEF B
<1>2. Orders(B, S)
  BY <1>1 DEF Orders
<1>3. PICK x \in U : \A y \in U \ {x} : <<x, y>> \in B
  BY <1>2, OneComesFirst
<1>4. ASSUME NEW y \in U PROVE x >= y
  <2>1. x \in S /\ y \in S /\ x \in Nat /\ y \in Nat
    BY <1>3
  <2>2. CASE y = x
    BY <2>1, <2>2
  <2>3. CASE y # x
    <3>1. <<x, y>> \in B
      BY <1>3, <2>3
    <3> QED BY <1>1, <2>1, <3>1
  <2> QED BY <2>2, <2>3
<1> QED BY <1>3, <1>4 DEF Max

LEMMA RunningExists ==
    ASSUME NEW S \in SUBSET Nat, IsFiniteSet(S), NEW payers, NEW included, NEW lines
    PROVE  \E g : Running(payers, included, lines, SUBSET S, g)
<1> DEFINE R(T, g) == Running(payers, included, lines, T, g)
           B == {n \in Nat : \E g : R(UpTo(S, n), g)}
           Next1(g, U) == Claimed(payers, included, g[U \ {Max(U)}], lines[Max(U)])
<1>1. 0 \in B
  <2>1. R({{}}, [U \in {{}} |-> None(included)])
    BY DEF Running
  <2>2. UpTo(S, 0) = {{}}
    BY SubsetsCounted
  <2> QED
    BY <2>1, <2>2
<1>2. ASSUME NEW n \in B PROVE n + 1 \in B
  <2>1. PICK g : R(UpTo(S, n), g)
    OBVIOUS
  <2> DEFINE h == [U \in UpTo(S, n + 1) |->
                      IF U = {} THEN None(included) ELSE Next1(g, U)]
  <2>2. ASSUME NEW U \in UpTo(S, n + 1), U # {}
        PROVE  U \ {Max(U)} \in UpTo(S, n) \cap UpTo(S, n + 1)
    <3>1. Max(U) \in U
      BY <2>2, LastIsThere DEF UpTo
    <3>2. U \ {Max(U)} \in UpTo(S, n)
      BY <3>1, SubsetsCounted
    <3> QED
      BY <3>2, SubsetsCounted DEF UpTo
  <2>3. ASSUME NEW U \in UpTo(S, n) \cap UpTo(S, n + 1) PROVE g[U] = h[U]
    BY <2>1 DEF Running
  <2>4. h = [U \in UpTo(S, n + 1) |-> IF U = {} THEN None(included) ELSE Next1(h, U)]
    BY <2>2, <2>3
  <2>5. R(UpTo(S, n + 1), h)
    BY <2>4 DEF Running
  <2> QED
    BY <2>5
<1>3. B = Nat
  BY <1>1, <1>2, NatSetInduction
<1>4. Cardinality(S) \in B
  BY <1>3, SubsetsCounted
<1>5. PICK g : R(UpTo(S, Cardinality(S)), g)
  BY <1>4
<1>6. UpTo(S, Cardinality(S)) = SUBSET S
  BY SubsetsCounted
<1> QED
  BY <1>5, <1>6

\* What everybody had, after any lines.
LEMMA RunningType ==
    ASSUME NEW S \in SUBSET Nat, IsFiniteSet(S), NEW payers,
           NEW included \in SUBSET Party, included # {},
           NEW lines \in [S -> [amount : Int, by : SUBSET Party]],
           NEW g, Running(payers, included, lines, SUBSET S, g)
    PROVE  \A U \in SUBSET S : g[U] \in [included -> Int]
<1> DEFINE C == {U \in SUBSET S : g[U] \in [included -> Int]}
<1>0. IsFiniteSet(included)
  BY PartyFinite
<1>1. ASSUME NEW U \in SUBSET S, \A x \in U : U \ {x} \in C PROVE U \in C
  <2>1. CASE U = {}
    <3>1. g[U] = None(included)
      BY <2>1 DEF Running
    <3> QED BY <1>0, <3>1, NoneSums
  <2>2. CASE U # {}
    <3> DEFINE x == Max(U)
               l == lines[x]
               by == IF l.by \cap included # {} THEN l.by \cap included ELSE included
               a == Apportion(l.amount, One(by), payers)
               before == g[U \ {x}]
    <3>1. x \in U /\ x \in S
      BY <2>2, LastIsThere
    <3>2. g[U] = Claimed(payers, included, before, l)
      BY <2>2 DEF Running
    <3> HIDE DEF x
    <3>3. before \in [included -> Int] /\ l \in [amount : Int, by : SUBSET Party]
      BY <1>1, <3>1
    <3> HIDE DEF before, l
    <3>4. by \in SUBSET included /\ by # {} /\ l.amount \in Int
      BY <3>3
    <3>5. g[U] = Added(before, a)
      BY <3>2 DEF Claimed
    <3> HIDE DEF by
    <3>6. a \in [by -> Int]
      <4>1. IsFiniteSet(by) /\ by \in SUBSET Nat /\ One(by) \in [by -> Int]
        BY <3>4, PartyFinite, OnesAreWeights
      <4> QED BY <3>4, <4>1, ApportionAdds
    <3> HIDE DEF a
    <3>7. Added(before, a) \in [included -> Int]
      BY <1>0, <3>3, <3>4, <3>6, AddedSums
    <3> QED BY <3>5, <3>7
  <2> QED BY <2>1, <2>2
<1> HIDE DEF C
<1>2. SUBSET S \subseteq C
  BY <1>1, SubsetInduction
<1> QED BY <1>2 DEF C

LEMMA LinesAre ==
    ASSUME NEW R, NEW lines \in Seq(R)
    PROVE  DOMAIN lines \in SUBSET Nat /\ IsFiniteSet(DOMAIN lines) /\ lines \in [DOMAIN lines -> R]
<1> DEFINE n == Len(lines)
<1>1. DOMAIN lines = 1..n /\ n \in Nat
  OBVIOUS
<1>2. lines \in [1..n -> R]
  OBVIOUS
<1> HIDE DEF n
<1>3. n \in Int /\ 1 \in Int
  BY <1>1
<1>4. IsFiniteSet(1..n)
  BY <1>3, FS_Interval
<1>5. 1..n \in SUBSET Nat
  BY <1>1
<1> QED BY <1>1, <1>2, <1>4, <1>5

LEMMA AddedAlike ==
    ASSUME NEW S, IsFiniteSet(S), NEW f \in [S -> Int], NEW g \in [S -> Int]
    PROVE  /\ Added(f, g) \in [S -> Int]
           /\ SumFunction(Added(f, g)) = SumFunction(f) + SumFunction(g)
<1>1. S \in SUBSET S
  OBVIOUS
<1> QED BY <1>1, AddedSums

LEMMA ItemizedAdds ==
    ASSUME NEW total \in Nat, NEW payers, NEW included \in SUBSET Party,
           NEW S \in SUBSET Nat, IsFiniteSet(S),
           NEW lines \in [S -> [amount : Int, by : SUBSET Party]]
    PROVE  Adds(total, ItemizedSplit(total, payers, included, lines))
<1> DEFINE Sharers(l) == IF l.by \cap included # {} THEN l.by \cap included ELSE included
           Claim(running, l) == Added(running, Apportion(l.amount, One(Sharers(l)), payers))
           run == FoldLeft(Claim, None(included), lines)
           extras == total - SumFunction(run)
           a == Apportion(extras, ByItems(run), payers)
           whole == IF extras = 0 THEN run ELSE Added(run, a)
           r == ItemizedSplit(total, payers, included, lines)
           s == Added(None(Party), whole)
<1>1. CASE included = {}
  BY <1>1, NothingAdds DEF ItemizedSplit
<1>2. CASE included # {}
  <2>0. /\ IsFiniteSet(included) /\ included \in SUBSET Nat /\ IsFiniteSet(Party)
        /\ None(Party) \in [Party -> Int] /\ SumFunction(None(Party)) = 0
    BY PartyFinite, NoneSums
  <2>9. IsFiniteSet(included)
    BY <2>0
  <2>10. IsFiniteSet(Party)
    BY <2>0
  <2>1. run \in [included -> Int]
    <3> DEFINE g == CHOOSE g : Running(payers, included, lines, SUBSET S, g)
    <3>4. Running(payers, included, lines, SUBSET S, g)
      BY RunningExists
    <3>2. Running(payers, included, lines, SUBSET S, g) /\ run = g[S]
      BY <3>4 DEF FoldLeft, MapThenFoldSet, Running, Claimed
    <3> HIDE DEF g
    <3>3. g[S] \in [included -> Int]
      BY <1>2, <3>2, RunningType
    <3> QED BY <3>2, <3>3
  <2>2. r = Result(extras >= 0, s)
    <3> DEFINE F(running) ==
                 Result(total - SumFunction(running) >= 0,
                        Added(None(Party),
                              IF total - SumFunction(running) = 0 THEN running
                              ELSE Added(running, Apportion(total - SumFunction(running),
                                                            ByItems(running), payers))))
               X == {F(z) : z \in {run}}
               Y == CHOOSE y \in X : y = y
    <3>1. r = Y
      BY <1>2 DEF ItemizedSplit, Given
    <3>2. Y = F(run)
      <4> HIDE DEF F, run
      <4>1. X = {F(run)}
        OBVIOUS
      <4> HIDE DEF X
      <4> QED BY <4>1
    <3> QED BY <3>1, <3>2
  <2> HIDE DEF run, r
  <2>3. SumFunction(run) \in Int
    BY <2>0, <2>1, SumType
  <2>4. extras \in Int /\ SumFunction(run) + extras = total
    BY <2>3
  <2> HIDE DEF extras
  <2>5. ByItems(run) \in [included -> Int]
    BY <2>1 DEF ByItems, One
  <2>6. a \in [included -> Int] /\ SumFunction(a) = extras
    BY <1>2, <2>0, <2>4, <2>5, ApportionAdds
  <2> HIDE DEF a
  <2>7. whole \in [included -> Int] /\ SumFunction(whole) = total
    <3>1. CASE extras = 0
      BY <2>1, <2>3, <2>4, <3>1
    <3>2. CASE extras # 0
      <4>2. Added(run, a) \in [included -> Int] /\ SumFunction(Added(run, a)) = SumFunction(run) + SumFunction(a)
        BY <2>9, <2>1, <2>6, AddedAlike
      <4> QED BY <2>4, <2>6, <3>2, <4>2
    <3> QED BY <3>1, <3>2
  <2> HIDE DEF whole
  <2>8. SumFunction(s) = total /\ s \in [Party -> Int]
    <3> DEFINE none == None(Party)
    <3>1. none \in [Party -> Int] /\ SumFunction(none) = 0
      BY <2>0
    <3> HIDE DEF none
    <3>2. /\ SumFunction(Added(none, whole)) = SumFunction(none) + SumFunction(whole)
          /\ Added(none, whole) \in [Party -> Int]
      BY <2>10, <2>7, <3>1, AddedSums
    <3> QED BY <2>7, <3>1, <3>2 DEF none
  <2> HIDE DEF s
  <2> QED BY <2>2, <2>8 DEF Adds, Result, r
<1> QED BY <1>1, <1>2

\* What is composed is cents of people of the party.
FormTyped ==
    /\ form.total \in Nat /\ form.payers \in SUBSET Party
    /\ form.shares \in [Party -> Int]

LEMMA ComposedAdds ==
    ASSUME NEW total \in Nat, NEW payers \in SUBSET Party, NEW even, NEW result,
           Composed(total, payers, even, result), Adds(total, result),
           result.ok => \A p, q \in even : /\ result.shares[p] - result.shares[q] \in -1..1
                                           /\ p \in payers /\ q \notin payers =>
                                                 result.shares[p] >= result.shares[q]
    PROVE  SharesAddUp' /\ FormTyped'
BY DEF Composed, Adds, SharesAddUp, FormTyped

LEMMA ComposeAdds == ASSUME Compose PROVE SharesAddUp' /\ FormTyped'
<1>1. PICK total \in Totals, payers \in (SUBSET Payers) \ {{}} :
          \/ \E included \in SUBSET Party :
                Composed(total, payers, included, EqualSplit(total, payers, included))
          \/ \E amounts \in [Party -> Entries] :
                Composed(total, payers, {}, ExactSplit(total, amounts))
          \/ \E percents \in [Party -> {0, 30, 50, 70, 100}] :
                Composed(total, payers, {}, PercentSplit(total, payers, percents))
          \/ \E weights \in [Party -> Entries] :
                Composed(total, payers, {}, SharesSplit(total, payers, weights))
          \/ \E included \in SUBSET Party, adjustments \in [Party -> Entries] :
                Composed(total, payers, {}, AdjustmentSplit(total, payers, included, adjustments))
          \/ \E included \in SUBSET Party, lines \in Receipts :
                Composed(total, payers, {}, ItemizedSplit(total, payers, included, lines))
  BY DEF Compose
<1>2. /\ total \in Nat /\ payers \in SUBSET Party /\ Party # {} /\ Entries \subseteq Int
      /\ Receipts \subseteq Seq([amount : Int, by : SUBSET Party])
  <2>1. total \in Nat /\ Payers \subseteq Party
    BY ComposerAssumption
  <2>2. payers \subseteq Payers
    OBVIOUS
  <2>3. payers # {}
    OBVIOUS
  <2>4. Entries \subseteq Int
    BY ComposerAssumption
  <2>5. Receipts \subseteq Seq([amount : Int, by : SUBSET Party])
    BY ComposerAssumption
  <2> QED BY <2>1, <2>2, <2>3, <2>4, <2>5
<1>3. ASSUME NEW included \in SUBSET Party,
             Composed(total, payers, included, EqualSplit(total, payers, included))
      PROVE  SharesAddUp' /\ FormTyped'
  BY <1>2, <1>3, EqualAdds, ComposedAdds
<1>4. ASSUME NEW amounts \in [Party -> Entries],
             Composed(total, payers, {}, ExactSplit(total, amounts))
      PROVE  SharesAddUp' /\ FormTyped'
  <2>1. amounts \in [Party -> Int]
    BY <1>2
  <2> QED BY <1>2, <1>4, <2>1, ExactAdds, ComposedAdds
<1>5. ASSUME NEW percents \in [Party -> {0, 30, 50, 70, 100}],
             Composed(total, payers, {}, PercentSplit(total, payers, percents))
      PROVE  SharesAddUp' /\ FormTyped'
  <2>1. percents \in [Party -> Int]
    OBVIOUS
  <2> QED BY <1>2, <1>5, <2>1, PercentAdds, ComposedAdds
<1>6. ASSUME NEW weights \in [Party -> Entries],
             Composed(total, payers, {}, SharesSplit(total, payers, weights))
      PROVE  SharesAddUp' /\ FormTyped'
  <2>1. weights \in [Party -> Int]
    BY <1>2
  <2> QED BY <1>2, <1>6, <2>1, SharesAdd, ComposedAdds
<1>7. ASSUME NEW included \in SUBSET Party, NEW adjustments \in [Party -> Entries],
             Composed(total, payers, {}, AdjustmentSplit(total, payers, included, adjustments))
      PROVE  SharesAddUp' /\ FormTyped'
  <2>1. adjustments \in [Party -> Int]
    BY <1>2
  <2> QED BY <1>2, <1>7, <2>1, AdjustmentAdds, ComposedAdds
<1>8. ASSUME NEW included \in SUBSET Party, NEW lines \in Receipts,
             Composed(total, payers, {}, ItemizedSplit(total, payers, included, lines))
      PROVE  SharesAddUp' /\ FormTyped'
  <2>1. /\ DOMAIN lines \in SUBSET Nat /\ IsFiniteSet(DOMAIN lines)
        /\ lines \in [DOMAIN lines -> [amount : Int, by : SUBSET Party]]
    BY <1>2, LinesAre
  <2>2. Adds(total, ItemizedSplit(total, payers, included, lines))
    BY <1>2, <2>1, ItemizedAdds
  <2> QED BY <1>2, <1>8, <2>2, ComposedAdds
<1> QED BY <1>1, <1>3, <1>4, <1>5, <1>6, <1>7, <1>8

\* Whatever is typed, in whatever mode, and whatever it comes to: a split the composer
\* takes for valid shares out the whole total, and an even one is fair to the cent, with
\* the cent over going to who paid.
THEOREM WholeTotalShared == ComposerSpec => []SharesAddUp
<1>1. ComposerInit => SharesAddUp
  BY DEF ComposerInit, NoForm, SharesAddUp
<1>2. SharesAddUp /\ [ComposerNext]_composerVars => SharesAddUp'
  <2> SUFFICES ASSUME SharesAddUp, [ComposerNext]_composerVars PROVE SharesAddUp'
    OBVIOUS
  <2>1. CASE Compose
    BY <2>1, ComposeAdds
  <2>2. CASE FileBill
    BY <2>2 DEF FileBill, NoForm, SharesAddUp
  <2>3. CASE PostPayment
    BY <2>3 DEF PostPayment, SharesAddUp
  <2>4. CASE QuoteRate
    BY <2>4 DEF QuoteRate, SharesAddUp
  <2>5. CASE UNCHANGED composerVars
    BY <2>5 DEF composerVars, SharesAddUp
  <2> QED BY <2>1, <2>2, <2>3, <2>4, <2>5 DEF ComposerNext
<1> QED BY <1>1, <1>2, PTL DEF ComposerSpec

LEMMA WeighedStays ==
    ASSUME NEW D, NEW w \in [D -> Nat], SumFunction(w) \in Nat \ {0}
    PROVE  Weighed(w) = w
<1>1. \A p \in D : AtLeastZero(w[p]) = w[p]
  BY DEF AtLeastZero
<1>2. ~(SumFunction(w) <= 0)
  OBVIOUS
<1>3. [p \in D |-> AtLeastZero(w[p])] = w
  BY <1>1
<1> QED BY <1>2, <1>3 DEF Weighed

LEMMA Fits ==
    ASSUME NEW n \in Nat, NEW whole \in Nat \ {0}, n <= whole, NEW x \in Nat,
           NEW b \in Nat, NEW cut \in Nat, n * x = whole * b + cut
    PROVE  b <= x /\ (cut > 0 => b + 1 <= x)
<1>1. n * x <= whole * x
  OBVIOUS
<1>2. b <= x
  <2> SUFFICES ASSUME b >= x + 1 PROVE FALSE
    OBVIOUS
  <2>1. whole * b >= whole * (x + 1)
    OBVIOUS
  <2>2. whole * (x + 1) = whole * x + whole
    OBVIOUS
  <2>3. whole * b \in Int /\ whole * x \in Int /\ n * x \in Int
    OBVIOUS
  <2> QED BY <1>1, <2>1, <2>2, <2>3
<1>3. ASSUME cut > 0 PROVE b # x
  <2> SUFFICES ASSUME b = x PROVE FALSE
    OBVIOUS
  <2>1. whole * b \in Int /\ n * x \in Int
    OBVIOUS
  <2> QED BY <1>1, <1>3, <2>1
<1> QED BY <1>2, <1>3

\* A cent more goes only to who lost part of one.
LEMMA CentsAreLost ==
    ASSUME NEW D \in SUBSET Nat, IsFiniteSet(D), NEW w \in [D -> Nat], SumFunction(w) \in Nat \ {0},
           NEW n \in Nat, NEW payers, NEW p \in Cents(n, w, payers)
    PROVE  p \in D /\ Cut(n, w)[p] > 0
<1> DEFINE W == SumFunction(w)
           cut == Cut(n, w)
           over == Over(n, w)
           B == Comes(cut, payers)
           F == {q \in D : cut[q] > 0}
<1>1. /\ cut \in [D -> Nat] /\ over \in 0..Cardinality(D) /\ W * over = SumFunction(cut)
      /\ \A q \in D : cut[q] \in 0..(W - 1)
  BY LittleOver
<1>2. W \in Nat \ {0} /\ Cardinality(D) \in Nat
  BY FS_CardinalityType
<1>3. p \in D /\ Cardinality(Ahead(B, D, p)) < over
  BY DEF Cents, Firsts
<1> HIDE DEF W, over
<1>4. F \in SUBSET D /\ IsFiniteSet(F) /\ Cardinality(F) \in Nat
  BY FS_Subset, FS_CardinalityType
<1>5. over <= Cardinality(F)
  <2> DEFINE many == Cardinality(F)
             ones == Marks(D, F)
             top == [q \in D |-> (W - 1) * ones[q]]
  <2>1. SumFunction(ones) = many /\ ones \in [D -> Int]
    BY <1>4, SumOnes
  <2>2. \A q \in D : ones[q] = IF q \in F THEN 1 ELSE 0
    BY DEF Marks
  <2> HIDE DEF ones, cut
  <2>3. \A q \in D : top[q] = IF q \in F THEN W - 1 ELSE 0
    BY <1>2, <2>2
  <2>4. SumFunction(top) = (W - 1) * many
    <3>1. W - 1 \in Int
      BY <1>2
    <3> HIDE DEF many
    <3>2. SumFunction([q \in D |-> (W - 1) * ones[q]]) = (W - 1) * SumFunction(ones)
      BY <2>1, <3>1, SumTimes
    <3> QED BY <2>1, <3>2
  <2>5. top \in [D -> Int] /\ cut \in [D -> Int] /\ \A q \in D : cut[q] <= top[q]
    <3>1. top \in [D -> Int]
      BY <1>2, <2>2
    <3>2. \A q \in D : cut[q] \in Nat /\ cut[q] <= W - 1
      BY <1>1, <1>2
    <3>3. \A q \in D : q \notin F => cut[q] <= 0
      BY <3>2
    <3> HIDE DEF top, F
    <3> QED BY <1>1, <2>3, <3>1, <3>2, <3>3
  <2> HIDE DEF top, many, F
  <2>6. SumFunction(cut) <= (W - 1) * many
    BY <2>4, <2>5, SumGrows
  <2>7. SumFunction(cut) \in Nat
    BY <1>1, SumNat
  <2>8. over \in 0..many
    <3>1. over \in Int /\ 0 <= W * over /\ W * over <= (W - 1) * many /\ many \in Nat
      BY <1>1, <1>2, <1>4, <2>6, <2>7 DEF many
    <3> QED BY <1>2, <3>1, Between
  <2> QED BY <1>4, <2>8 DEF many
<1> SUFFICES ASSUME ~(cut[p] > 0) PROVE FALSE
  BY <1>3
<1>6. F \subseteq Ahead(B, D, p)
  <2> SUFFICES ASSUME NEW q \in F PROVE <<q, p>> \in B
    BY DEF Ahead
  <2> DEFINE qp == <<q, p>>
  <2>1. qp[1] = q /\ qp[2] = p /\ qp \in (DOMAIN cut) \X (DOMAIN cut)
    BY <1>1, <1>3
  <2>2. cut[q] > cut[p]
    <3>1. cut[q] \in Nat /\ cut[p] \in Nat /\ cut[q] > 0
      BY <1>1, <1>3
    <3> QED BY <3>1
  <2> HIDE DEF qp, cut
  <2>3. qp \in B
    BY <2>1, <2>2 DEF Comes
  <2> QED BY <2>3 DEF qp
<1> HIDE DEF B, F, cut
<1>7. IsFiniteSet(Ahead(B, D, p))
  BY FS_Subset DEF Ahead
<1>8. Cardinality(F) <= Cardinality(Ahead(B, D, p)) /\ Cardinality(Ahead(B, D, p)) \in Nat
  BY <1>6, <1>7, FS_Subset, FS_CardinalityType
<1>9. over \in Int
  BY <1>1, <1>2
<1> QED BY <1>3, <1>4, <1>5, <1>8, <1>9

\* No more of a total than there is gives nobody more than their weight.
LEMMA ApportionWithin ==
    ASSUME NEW D \in SUBSET Nat, IsFiniteSet(D), NEW w \in [D -> Nat], NEW total \in Nat,
           SumFunction(w) \in Nat \ {0}, total <= SumFunction(w), NEW payers, NEW p \in D
    PROVE  Apportion(total, w, payers)[p] <= w[p]
<1> DEFINE base == Base(total, w)
           cut == Cut(total, w)
           cents == Cents(total, w, payers)
<1>1. Apportion(total, w, payers) = Parts(total, w, payers)
  BY WeighedStays, ApportionIs
<1>2. /\ base \in [D -> Nat] /\ cut \in [D -> Nat]
      /\ total * w[p] = SumFunction(w) * base[p] + cut[p]
  <2>1. /\ Base(total, w) \in [D -> Nat] /\ Cut(total, w) \in [D -> Nat]
        /\ \A q \in D : /\ Cut(total, w)[q] \in 0..(SumFunction(w) - 1)
                        /\ total * w[q] = SumFunction(w) * Base(total, w)[q] + Cut(total, w)[q]
    BY LittleOver
  <2> HIDE DEF base, cut
  <2>2. /\ base \in [D -> Nat] /\ cut \in [D -> Nat]
        /\ \A q \in D : total * w[q] = SumFunction(w) * base[q] + cut[q]
    BY <2>1 DEF base, cut
  <2> QED BY <2>2
<1>3. p \in cents => cut[p] > 0
  BY CentsAreLost
<1>4. Size(total) = total /\ Sign(total) = 1
  BY DEF Size, Sign
<1>5. Parts(total, w, payers)[p] = 1 * (base[p] + IF p \in cents THEN 1 ELSE 0)
  BY <1>4 DEF Parts
<1> HIDE DEF base, cut, cents
<1>6. base[p] <= w[p] /\ (cut[p] > 0 => base[p] + 1 <= w[p])
  <2>1. base[p] \in Nat /\ cut[p] \in Nat /\ w[p] \in Nat
    BY <1>2
  <2> QED BY <1>2, <2>1, Fits
<1>7. base[p] \in Nat /\ w[p] \in Nat
  BY <1>2
<1> QED BY <1>1, <1>3, <1>5, <1>6, <1>7

-----------------------------------------------------------------------------
(* Who owes whom for an expense.                                           *)

Debtors(net) == {p \in DOMAIN net : net[p] < 0}
Creditors(net) == {p \in DOMAIN net : net[p] > 0}
Debts(net) == [d \in Debtors(net) |-> -net[d]]
Credits(net) == [c \in Creditors(net) |-> net[c]]

\* What each debtor in turn makes of what is left to the creditors.
SpentBy(net, acc, d, parts) ==
    [remaining |-> [c \in Creditors(net) |-> acc.remaining[c] - parts[c]],
     edges |-> [e \in DOMAIN acc.edges |-> IF e[1] = d THEN parts[e[2]] ELSE acc.edges[e]]]
SpreadOut(net, acc, d) ==
    IF SumFunction(acc.remaining) <= 0 THEN acc
    ELSE CHOOSE y \in {SpentBy(net, acc, d, z) : z \in {Apportion(-net[d], acc.remaining, {})}} : y = y
Unspread(net) ==
    [remaining |-> Credits(net), edges |-> [e \in Debtors(net) \X Creditors(net) |-> 0]]
Spreads(net, T, g) ==
    g = [U \in T |-> IF U = {} THEN Unspread(net)
                     ELSE SpreadOut(net, g[U \ {Max(U)}], Max(U))]

LEMMA SpreadsExist ==
    ASSUME NEW S \in SUBSET Nat, IsFiniteSet(S), NEW net
    PROVE  \E g : Spreads(net, SUBSET S, g)
<1> DEFINE R(T, g) == Spreads(net, T, g)
           B == {n \in Nat : \E g : R(UpTo(S, n), g)}
           Then(g, U) == SpreadOut(net, g[U \ {Max(U)}], Max(U))
<1>1. 0 \in B
  <2>1. R({{}}, [U \in {{}} |-> Unspread(net)])
    BY DEF Spreads
  <2>2. UpTo(S, 0) = {{}}
    BY SubsetsCounted
  <2> QED
    BY <2>1, <2>2
<1>2. ASSUME NEW n \in B PROVE n + 1 \in B
  <2>1. PICK g : R(UpTo(S, n), g)
    OBVIOUS
  <2> DEFINE h == [U \in UpTo(S, n + 1) |->
                      IF U = {} THEN Unspread(net) ELSE Then(g, U)]
  <2>2. ASSUME NEW U \in UpTo(S, n + 1), U # {}
        PROVE  U \ {Max(U)} \in UpTo(S, n) \cap UpTo(S, n + 1)
    <3>1. Max(U) \in U
      BY <2>2, LastIsThere DEF UpTo
    <3>2. U \ {Max(U)} \in UpTo(S, n)
      BY <3>1, SubsetsCounted
    <3> QED
      BY <3>2, SubsetsCounted DEF UpTo
  <2>3. ASSUME NEW U \in UpTo(S, n) \cap UpTo(S, n + 1) PROVE g[U] = h[U]
    BY <2>1 DEF Spreads
  <2>4. h = [U \in UpTo(S, n + 1) |-> IF U = {} THEN Unspread(net) ELSE Then(h, U)]
    BY <2>2, <2>3
  <2>5. R(UpTo(S, n + 1), h)
    BY <2>4 DEF Spreads
  <2> QED
    BY <2>5
<1>3. B = Nat
  BY <1>1, <1>2, NatSetInduction
<1>4. Cardinality(S) \in B
  BY <1>3, SubsetsCounted
<1>5. PICK g : R(UpTo(S, Cardinality(S)), g)
  BY <1>4
<1>6. UpTo(S, Cardinality(S)) = SUBSET S
  BY SubsetsCounted
<1> QED
  BY <1>5, <1>6

LEMMA EdgesAre ==
    ASSUME NEW net, Debtors(net) \in SUBSET Nat, IsFiniteSet(Debtors(net))
    PROVE  /\ Cardinality(Creditors(net)) = 1 =>
                 ExpenseEdges(net) = [e \in Debtors(net) \X Creditors(net) |-> -net[e[1]]]
           /\ Cardinality(Creditors(net)) # 1 =>
                 \E g : /\ Spreads(net, SUBSET Debtors(net), g)
                        /\ ExpenseEdges(net) = g[Debtors(net)].edges
<1>1. ASSUME Cardinality(Creditors(net)) = 1
      PROVE  ExpenseEdges(net) = [e \in Debtors(net) \X Creditors(net) |-> -net[e[1]]]
  BY <1>1 DEF ExpenseEdges, Debtors, Creditors
<1>2. ASSUME Cardinality(Creditors(net)) # 1
      PROVE  \E g : /\ Spreads(net, SUBSET Debtors(net), g)
                    /\ ExpenseEdges(net) = g[Debtors(net)].edges
  <2> DEFINE g == CHOOSE g : Spreads(net, SUBSET Debtors(net), g)
  <2>1. Spreads(net, SUBSET Debtors(net), g)
    BY SpreadsExist
  <2>2. ExpenseEdges(net) = g[Debtors(net)].edges
    BY <1>2 DEF ExpenseEdges, MapThenFoldSet, Spreads, SpreadOut, SpentBy, Unspread, Credits, Debtors, Creditors, Given, ByRemaining
  <2> QED BY <2>1, <2>2
<1> QED BY <1>1, <1>2

LEMMA SpreadIs ==
    ASSUME NEW net, NEW acc, NEW d
    PROVE  SpreadOut(net, acc, d) =
              IF SumFunction(acc.remaining) <= 0 THEN acc
              ELSE SpentBy(net, acc, d, Apportion(-net[d], acc.remaining, {}))
<1> DEFINE a == Apportion(-net[d], acc.remaining, {})
           X == {SpentBy(net, acc, d, z) : z \in {a}}
<1>1. X = {SpentBy(net, acc, d, a)}
  OBVIOUS
<1> HIDE DEF a, X
<1>2. (CHOOSE y \in X : y = y) = SpentBy(net, acc, d, a)
  BY <1>1
<1> QED BY <1>2 DEF SpreadOut, a, X

\* The edges out of a debtor, and into a creditor.
ByDebtor(e, C, d) == [c \in C |-> e[<<d, c>>]]
ByCreditor(e, D, c) == [d \in D |-> e[<<d, c>>]]

LEMMA SumsToZero ==
    ASSUME NEW S, IsFiniteSet(S), NEW f \in [S -> Nat], SumFunction(f) = 0
    PROVE  \A x \in S : f[x] = 0
<1> SUFFICES ASSUME NEW x \in S PROVE f[x] = 0
  OBVIOUS
<1>1. f \in [S -> Int]
  OBVIOUS
<1>2. SumFunction(f) = f[x] + SumFunction(AllBut(f, x))
  BY <1>1, SumTakes
<1>3. AllBut(f, x) \in [S \ {x} -> Nat] /\ IsFiniteSet(S \ {x})
  BY FS_Subset DEF AllBut, On
<1>4. SumFunction(AllBut(f, x)) \in Nat
  BY <1>3, SumNat
<1> QED BY <1>2, <1>4

\* What is owed in all is what is due in all.
LEMMA DebtsAreCredits ==
    ASSUME NEW S, IsFiniteSet(S), NEW net \in [S -> Int], SumFunction(net) = 0
    PROVE  /\ Debtors(net) \in SUBSET S /\ IsFiniteSet(Debtors(net))
           /\ Creditors(net) \in SUBSET S /\ IsFiniteSet(Creditors(net))
           /\ Debts(net) \in [Debtors(net) -> Nat] /\ Credits(net) \in [Creditors(net) -> Nat]
           /\ SumFunction(Debts(net)) = SumFunction(Credits(net))
<1> DEFINE pos == [p \in S |-> IF net[p] > 0 THEN net[p] ELSE 0]
           neg == [p \in S |-> IF net[p] < 0 THEN -net[p] ELSE 0]
           D == Debtors(net)
           C == Creditors(net)
<1>1. D \in SUBSET S /\ C \in SUBSET S /\ IsFiniteSet(D) /\ IsFiniteSet(C)
  <2>1. D \in SUBSET S /\ C \in SUBSET S
    BY DEF Debtors, Creditors
  <2> QED BY <2>1, FS_Subset
<1>2. pos \in [S -> Int] /\ neg \in [S -> Int] /\ pos = [p \in S |-> net[p] + neg[p]]
  OBVIOUS
<1>3. On(pos, C) = Credits(net) /\ (\A p \in S \ C : pos[p] = 0)
  BY <1>1 DEF On, Credits, Creditors
<1>4. On(neg, D) = Debts(net) /\ (\A p \in S \ D : neg[p] = 0)
  BY <1>1 DEF On, Debts, Debtors
<1>5. Debts(net) \in [D -> Nat] /\ Credits(net) \in [C -> Nat]
  BY <1>1 DEF Debts, Credits, Debtors, Creditors
<1> HIDE DEF pos, neg, D, C
<1>6. SumFunction(pos) = SumFunction(net) + SumFunction(neg) /\ SumFunction(neg) \in Int
  BY <1>2, SumAdd, SumType
<1>7. SumFunction(pos) = SumFunction(Credits(net))
  BY <1>1, <1>2, <1>3, SumWithin
<1>8. SumFunction(neg) = SumFunction(Debts(net))
  BY <1>1, <1>2, <1>4, SumWithin
<1> QED BY <1>1, <1>5, <1>6, <1>7, <1>8 DEF D, C

SpreadInv(net, U, acc) ==
    LET C == Creditors(net)
        D == Debtors(net)
    IN  /\ acc.remaining \in [C -> Nat] /\ acc.edges \in [D \X C -> Nat]
        /\ SumFunction(acc.remaining) = SumFunction(On(Debts(net), D \ U))
        /\ \A c \in C : acc.remaining[c] + SumFunction(ByCreditor(acc.edges, D, c)) = net[c]
        /\ \A d \in U : SumFunction(ByDebtor(acc.edges, C, d)) = -net[d]
        /\ \A d \in D \ U : \A c \in C : acc.edges[<<d, c>>] = 0

\* One debtor more: there is always enough left for the debt.
LEMMA SpreadStep ==
    ASSUME NEW S \in SUBSET Nat, IsFiniteSet(S), NEW net \in [S -> Int], SumFunction(net) = 0,
           NEW U \in SUBSET Debtors(net), NEW x \in U, NEW acc, SpreadInv(net, U \ {x}, acc)
    PROVE  SpreadInv(net, U, SpreadOut(net, acc, x))
<1> DEFINE C == Creditors(net)
           D == Debtors(net)
           debts == Debts(net)
           rem == acc.remaining
           e == acc.edges
           a == Apportion(-net[x], rem, {})
           new == SpentBy(net, acc, x, a)
           rem2 == new.remaining
           e2 == new.edges
<1>1. /\ D \in SUBSET S /\ IsFiniteSet(D) /\ C \in SUBSET S /\ IsFiniteSet(C)
      /\ debts \in [D -> Nat]
  BY DebtsAreCredits
<1>2. x \in D /\ net[x] \in Int /\ net[x] < 0 /\ debts[x] = -net[x]
  BY DEF Debtors, Debts
<1>3. /\ rem \in [C -> Nat] /\ e \in [D \X C -> Nat]
      /\ SumFunction(rem) = SumFunction(On(debts, D \ (U \ {x})))
      /\ \A c \in C : rem[c] + SumFunction(ByCreditor(e, D, c)) = net[c]
      /\ \A d \in U \ {x} : SumFunction(ByDebtor(e, C, d)) = -net[d]
      /\ \A d \in D \ (U \ {x}) : \A c \in C : e[<<d, c>>] = 0
  BY DEF SpreadInv
<1>4. \A c \in C : net[c] \in Int
  BY <1>1
<1> HIDE DEF C, D, debts, rem, e
<1>5. /\ SumFunction(rem) = debts[x] + SumFunction(On(debts, D \ U))
      /\ SumFunction(On(debts, D \ U)) \in Nat
  <2> DEFINE A == D \ (U \ {x})
             f == On(debts, A)
  <2>1. IsFiniteSet(A) /\ IsFiniteSet(D \ U) /\ x \in A /\ A \ {x} = D \ U
    BY <1>1, <1>2, FS_Subset DEF D
  <2>2. f \in [A -> Int] /\ f[x] = debts[x] /\ AllBut(f, x) = On(debts, D \ U) /\ SumFunction(rem) = SumFunction(f)
    <3>1. f \in [A -> Int] /\ f[x] = debts[x] /\ DOMAIN f = A
      <4>1. A \subseteq D /\ x \in A
        BY <2>1
      <4> HIDE DEF A
      <4>2. \A y \in A : debts[y] \in Int
        BY <1>1, <4>1
      <4>3. f = [y \in A |-> debts[y]]
        BY DEF On
      <4> HIDE DEF f
      <4> QED BY <4>1, <4>2, <4>3
    <3>2. \A y \in D \ U : y \in A /\ f[y] = debts[y]
      BY <2>1 DEF On
    <3>3. SumFunction(rem) = SumFunction(f)
      BY <1>3
    <3> HIDE DEF f, A
    <3>4. AllBut(f, x) = On(debts, D \ U)
      BY <2>1, <3>1, <3>2 DEF On, AllBut
    <3> QED BY <3>1, <3>3, <3>4
  <2>3. On(debts, D \ U) \in [D \ U -> Nat]
    BY <1>1 DEF On
  <2>4. SumFunction(On(debts, D \ U)) \in Nat
    BY <2>1, <2>3, SumNat
  <2> HIDE DEF A, f
  <2>5. SumFunction(f) = f[x] + SumFunction(AllBut(f, x))
    BY <2>1, <2>2, SumTakes
  <2> QED BY <2>2, <2>4, <2>5
<1>6. -net[x] \in Nat /\ SumFunction(rem) \in Nat \ {0} /\ -net[x] <= SumFunction(rem)
  BY <1>2, <1>5
<1>7. C # {}
  <2> SUFFICES ASSUME C = {} PROVE FALSE
    OBVIOUS
  <2>1. SumFunction(rem) = 0
    BY <1>3, SumEmpty
  <2> QED BY <1>6, <2>1
<1>8. a \in [C -> Nat] /\ SumFunction(a) = -net[x] /\ \A c \in C : a[c] <= rem[c]
  <2>1. C \in SUBSET Nat /\ rem \in [C -> Int] /\ -net[x] \in Int /\ -net[x] >= 0
    BY <1>1, <1>3, <1>6
  <2>2. a \in [C -> Nat] /\ SumFunction(a) = -net[x]
    BY <1>1, <1>7, <2>1, ApportionAdds
  <2>3. \A c \in C : a[c] <= rem[c]
    BY <1>1, <1>3, <1>6, <2>1, ApportionWithin
  <2> QED BY <2>2, <2>3
<1>9. SpreadOut(net, acc, x) = new
  <2>1. ~(SumFunction(acc.remaining) <= 0)
    BY <1>6 DEF rem
  <2> HIDE DEF new
  <2> QED BY <2>1, SpreadIs DEF new, rem
<1> HIDE DEF a
<1>10. rem2 = [c \in C |-> rem[c] - a[c]] /\ e2 = [ee \in D \X C |-> IF ee[1] = x THEN a[ee[2]] ELSE e[ee]]
  BY <1>3 DEF SpentBy, C, rem, e
<1> HIDE DEF new, rem2, e2
<1>11. rem2 \in [C -> Nat] /\ \A c \in C : rem2[c] = rem[c] - a[c]
  BY <1>3, <1>8, <1>10
<1>12. /\ e2 \in [D \X C -> Nat]
       /\ \A d \in D, c \in C : e2[<<d, c>>] = IF d = x THEN a[c] ELSE e[<<d, c>>]
  BY <1>3, <1>8, <1>10
<1>13. SumFunction(rem2) = SumFunction(On(debts, D \ U))
  <2>1. rem = [c \in C |-> rem2[c] + a[c]] /\ rem2 \in [C -> Int] /\ a \in [C -> Int]
    BY <1>3, <1>8, <1>11
  <2>2. SumFunction(rem) = SumFunction(rem2) + SumFunction(a)
    BY <1>1, <2>1, SumAdd
  <2>3. SumFunction(rem2) \in Int
    BY <1>1, <2>1, SumType
  <2> QED BY <1>2, <1>5, <1>8, <2>2, <2>3
<1>14. ASSUME NEW c \in C PROVE rem2[c] + SumFunction(ByCreditor(e2, D, c)) = net[c]
  <2> DEFINE f == ByCreditor(e, D, c)
             h == ByCreditor(e2, D, c)
  <2>1. f \in [D -> Int] /\ h \in [D -> Int] /\ (\A d \in D \ {x} : f[d] = h[d]) /\ f[x] = 0 /\ h[x] = a[c]
    BY <1>2, <1>3, <1>12 DEF ByCreditor
  <2>2. rem[c] + SumFunction(f) = net[c]
    BY <1>3
  <2> HIDE DEF f, h
  <2>3. SumFunction(h) = SumFunction(f) - f[x] + h[x] /\ SumFunction(f) \in Int
    <3>1. x \in D /\ IsFiniteSet(D) /\ f \in [D -> Int] /\ h \in [D -> Int]
      BY <1>1, <1>2, <2>1
    <3>2. SumFunction(f) \in Int
      BY <3>1, SumType
    <3>3. SumFunction(h) = SumFunction(f) - f[x] + h[x]
      BY <2>1, <3>1, SumChanges
    <3> QED BY <3>2, <3>3
  <2>4. SumFunction(f) \in Int /\ rem[c] \in Nat /\ a[c] \in Nat /\ rem2[c] = rem[c] - a[c] /\ SumFunction(h) = SumFunction(f) - 0 + a[c]
    BY <1>3, <1>8, <1>11, <2>1, <2>3
  <2>5. rem2[c] + SumFunction(h) = net[c]
    BY <2>2, <2>4
  <2> QED BY <2>5 DEF h
<1>15. ASSUME NEW d \in U PROVE SumFunction(ByDebtor(e2, C, d)) = -net[d]
  <2>0. d \in D
    BY DEF D
  <2>1. CASE d = x
    <3>1. ByDebtor(e2, C, d) = a
      BY <1>8, <1>12, <2>0, <2>1 DEF ByDebtor
    <3> QED BY <1>8, <2>1, <3>1
  <2>2. CASE d # x
    <3>1. ByDebtor(e2, C, d) = ByDebtor(e, C, d)
      BY <1>12, <2>0, <2>2 DEF ByDebtor
    <3> QED BY <1>3, <2>2, <3>1
  <2> QED BY <2>1, <2>2
<1>16. \A d \in D \ U : \A c \in C : e2[<<d, c>>] = 0
  BY <1>3, <1>12
<1> QED BY <1>9, <1>11, <1>12, <1>13, <1>14, <1>15, <1>16 DEF SpreadInv, C, D, rem2, e2, debts

LEMMA SumSingle ==
    ASSUME NEW c, NEW f \in [{c} -> Int]
    PROVE  SumFunction(f) = f[c]
<1>1. IsFiniteSet({c}) /\ c \in {c}
  BY FS_Singleton
<1>2. SumFunction(f) = f[c] + SumFunction(AllBut(f, c))
  BY <1>1, SumTakes
<1>3. DOMAIN AllBut(f, c) = {}
  BY DEF AllBut, On
<1> QED BY <1>2, <1>3, SumEmpty

LEMMA EdgesSettle ==
    ASSUME NEW S \in SUBSET Nat, IsFiniteSet(S), NEW net \in [S -> Int], SumFunction(net) = 0
    PROVE  /\ ExpenseEdges(net) \in [Debtors(net) \X Creditors(net) -> Nat]
           /\ \A c \in Creditors(net) :
                 SumFunction(ByCreditor(ExpenseEdges(net), Debtors(net), c)) = net[c]
           /\ \A d \in Debtors(net) :
                 SumFunction(ByDebtor(ExpenseEdges(net), Creditors(net), d)) = -net[d]
<1> DEFINE C == Creditors(net)
           D == Debtors(net)
           debts == Debts(net)
           credits == Credits(net)
           e == ExpenseEdges(net)
<1>1. /\ D \in SUBSET S /\ IsFiniteSet(D) /\ C \in SUBSET S /\ IsFiniteSet(C)
      /\ debts \in [D -> Nat] /\ credits \in [C -> Nat]
      /\ SumFunction(debts) = SumFunction(credits)
  BY DebtsAreCredits
<1>2. /\ \A d \in D : debts[d] = -net[d] /\ net[d] \in Int
      /\ \A c \in C : credits[c] = net[c] /\ net[c] \in Int
  BY <1>1 DEF Debts, Credits
<1>3. D \in SUBSET Nat
  BY <1>1
<1> HIDE DEF debts, credits
<1>4. CASE Cardinality(C) = 1
  <2>1. e = [de \in D \X C |-> -net[de[1]]]
    BY <1>1, <1>3, <1>4, EdgesAre
  <2>2. \A d \in D, c \in C : <<d, c>> \in D \X C /\ <<d, c>>[1] = d
    OBVIOUS
  <2>3. PICK c : C = {c}
    BY <1>1, <1>4, FS_Singleton
  <2> HIDE DEF e, C, D
  <2>4. \A d \in D, k \in C : e[<<d, k>>] = debts[d]
    BY <1>2, <2>1, <2>2
  <2>5. e \in [D \X C -> Nat]
    <3>1. \A de \in D \X C : de[1] \in D
      OBVIOUS
    <3>2. \A de \in D \X C : -net[de[1]] \in Nat
      <4>1. \A d \in D : -net[d] \in Nat
        BY <1>1, <1>2
      <4> QED BY <3>1, <4>1
    <3> QED BY <2>1, <3>2
  <2>6. ByCreditor(e, D, c) = debts
    BY <1>1, <2>3, <2>4 DEF ByCreditor
  <2>7. SumFunction(credits) = net[c]
    <3>1. credits \in [{c} -> Int]
      BY <1>1, <2>3
    <3>2. SumFunction(credits) = credits[c]
      BY <3>1, SumSingle
    <3> QED BY <1>2, <2>3, <3>2
  <2>8. ASSUME NEW d \in D PROVE SumFunction(ByDebtor(e, C, d)) = -net[d]
    <3> DEFINE f == ByDebtor(e, C, d)
    <3>1. f \in [{c} -> Int] /\ f[c] = -net[d]
      BY <1>1, <1>2, <2>3, <2>4 DEF ByDebtor
    <3> HIDE DEF f
    <3>2. SumFunction(f) = f[c]
      BY <3>1, SumSingle
    <3> QED BY <3>1, <3>2 DEF f
  <2> QED BY <1>1, <2>3, <2>5, <2>6, <2>7, <2>8 DEF e, C, D
<1>5. CASE Cardinality(C) # 1
  <2>1. PICK g : Spreads(net, SUBSET D, g) /\ e = g[D].edges
    BY <1>1, <1>3, <1>5, EdgesAre
  <2> DEFINE Good == {U \in SUBSET D : SpreadInv(net, U, g[U])}
  <2>2. ASSUME NEW U \in SUBSET D, \A x \in U : U \ {x} \in Good PROVE U \in Good
    <3>1. CASE U = {}
      <4> DEFINE acc == Unspread(net)
      <4>1. g[U] = acc
        BY <2>1, <3>1 DEF Spreads
      <4>2. acc.remaining = credits /\ acc.edges = [de \in D \X C |-> 0]
        BY DEF Unspread, credits
      <4> HIDE DEF acc
      <4>3. On(Debts(net), D \ U) = debts
        <5>1. D \ U = D
          BY <3>1
        <5> QED BY <1>1, <5>1 DEF On, debts
      <4>4. acc.edges \in [D \X C -> Nat] /\ \A d \in D, c \in C : acc.edges[<<d, c>>] = 0
        BY <4>2
      <4>5. ASSUME NEW c \in C PROVE acc.remaining[c] + SumFunction(ByCreditor(acc.edges, D, c)) = net[c]
        <5> DEFINE f == ByCreditor(acc.edges, D, c)
        <5>1. f \in [D -> Int] /\ \A d \in D : f[d] = 0
          BY <4>4 DEF ByCreditor
        <5> HIDE DEF f
        <5>2. SumFunction(f) = 0
          BY <1>1, <5>1, SumZero
        <5>3. acc.remaining[c] = net[c] /\ net[c] \in Int
          BY <1>2, <4>2
        <5>4. acc.remaining[c] + SumFunction(f) = net[c]
          BY <5>2, <5>3
        <5> QED BY <5>4 DEF f
      <4> QED BY <1>1, <3>1, <4>1, <4>2, <4>3, <4>4, <4>5 DEF SpreadInv
    <3>2. CASE U # {}
      <4> DEFINE x == Max(U)
      <4>1. x \in U
        BY <1>1, <1>3, <3>2, LastIsThere
      <4>2. g[U] = SpreadOut(net, g[U \ {x}], x)
        BY <2>1, <3>2 DEF Spreads
      <4> HIDE DEF x
      <4>3. SpreadInv(net, U \ {x}, g[U \ {x}])
        BY <2>2, <4>1
      <4>4. SpreadInv(net, U, SpreadOut(net, g[U \ {x}], x))
        BY <4>1, <4>3, SpreadStep
      <4> QED BY <4>2, <4>4
    <3> QED BY <3>1, <3>2
  <2> HIDE DEF Good
  <2>3. SUBSET D \subseteq Good
    <3>1. IsFiniteSet(D)
      BY <1>1
    <3>2. \A U \in SUBSET D : (\A x \in U : U \ {x} \in Good) => U \in Good
      BY <2>2
    <3> HIDE DEF D
    <3> QED BY <3>1, <3>2, SubsetInduction
  <2>4. SpreadInv(net, D, g[D])
    BY <2>3 DEF Good
  <2> DEFINE rem == g[D].remaining
  <2>5. /\ rem \in [C -> Nat] /\ e \in [D \X C -> Nat]
        /\ SumFunction(rem) = SumFunction(On(Debts(net), D \ D))
        /\ \A c \in C : rem[c] + SumFunction(ByCreditor(e, D, c)) = net[c]
        /\ \A d \in D : SumFunction(ByDebtor(e, C, d)) = -net[d]
    BY <2>1, <2>4 DEF SpreadInv
  <2> HIDE DEF rem, e, C, D
  <2>6. SumFunction(rem) = 0
    <3>1. DOMAIN On(Debts(net), D \ D) = {}
      BY DEF On
    <3> QED BY <2>5, <3>1, SumEmpty
  <2>7. \A c \in C : rem[c] = 0
    BY <1>1, <2>5, <2>6, SumsToZero
  <2>8. ASSUME NEW c \in C PROVE SumFunction(ByCreditor(e, D, c)) = net[c]
    <3> DEFINE f == ByCreditor(e, D, c)
    <3>1. f \in [D -> Int]
      BY <2>5 DEF ByCreditor
    <3>2. 0 + SumFunction(f) = net[c]
      BY <2>5, <2>7
    <3> HIDE DEF f
    <3>3. SumFunction(f) \in Int
      BY <1>1, <3>1, SumType
    <3>4. SumFunction(f) = net[c]
      BY <3>2, <3>3
    <3> QED BY <3>4 DEF f
  <2> QED BY <2>5, <2>8 DEF e, C, D
<1> QED BY <1>4, <1>5

\* What the pairs of a sheet come to for p.
NetFrom(pairs, p) ==
    [xy \in Pairs(Party) |-> IF xy[2] = p THEN pairs[xy] ELSE IF xy[1] = p THEN -pairs[xy] ELSE 0]
Agrees(s) ==
    /\ s.net \in [Party -> Int] /\ s.pairs \in [Pairs(Party) -> Int]
    /\ SumFunction(s.net) = 0
    /\ \A p \in Party : s.net[p] = SumFunction(NetFrom(s.pairs, p))

LEMMA PairsFinite ==
    /\ IsFiniteSet(Pairs(Party))
    /\ \A x, y \in Party : x < y => <<x, y>> \in Pairs(Party)
    /\ \A xy \in Pairs(Party) : xy = <<xy[1], xy[2]>> /\ xy[1] \in Party /\ xy[2] \in Party /\ xy[1] < xy[2]
<1>1. IsFiniteSet(Party \X Party)
  BY PartyFinite, FS_Product
<1>2. Pairs(Party) \subseteq Party \X Party
  BY DEF Pairs
<1>3. IsFiniteSet(Pairs(Party))
  BY <1>1, <1>2, FS_Subset
<1>4. ASSUME NEW x \in Party, NEW y \in Party, x < y PROVE <<x, y>> \in Pairs(Party)
  <2> DEFINE xy == <<x, y>>
  <2>1. xy[1] = x /\ xy[2] = y /\ xy \in Party \X Party
    OBVIOUS
  <2> HIDE DEF xy
  <2>2. xy \in Pairs(Party)
    BY <1>4, <2>1 DEF Pairs
  <2> QED BY <2>2 DEF xy
<1>5. ASSUME NEW xy \in Pairs(Party)
      PROVE  xy = <<xy[1], xy[2]>> /\ xy[1] \in Party /\ xy[2] \in Party /\ xy[1] < xy[2]
  BY DEF Pairs
<1> QED BY <1>3, <1>4, <1>5

LEMMA BetweenTyped ==
    ASSUME NEW pairs \in [Pairs(Party) -> Int], NEW p
    PROVE  NetFrom(pairs, p) \in [Pairs(Party) -> Int]
BY DEF NetFrom

LEMMA EmptyAgrees == Agrees(EmptySheet(Party))
<1> DEFINE s == EmptySheet(Party)
<1>1. s.net = [p \in Party |-> 0] /\ s.pairs = [xy \in Pairs(Party) |-> 0]
  BY DEF EmptySheet, None
<1> HIDE DEF s
<1>2. ASSUME NEW p \in Party PROVE SumFunction(NetFrom(s.pairs, p)) = 0
  <2> DEFINE f == NetFrom(s.pairs, p)
  <2>1. f \in [Pairs(Party) -> Int] /\ \A xy \in Pairs(Party) : f[xy] = 0
    <3> DEFINE g == s.pairs
    <3>1. g = [xy \in Pairs(Party) |-> 0]
      BY <1>1
    <3> HIDE DEF g
    <3>2. \A xy \in Pairs(Party) : f[xy] = 0
      <4>1. \A xy \in Pairs(Party) : g[xy] = 0
        BY <3>1
      <4>2. \A xy \in Pairs(Party) : f[xy] = IF xy[2] = p THEN g[xy] ELSE IF xy[1] = p THEN -g[xy] ELSE 0
        BY DEF NetFrom, g
      <4> QED BY <4>1, <4>2
    <3>3. s.pairs \in [Pairs(Party) -> Int]
      BY <3>1 DEF g
    <3> QED BY <3>2, <3>3, BetweenTyped
  <2> HIDE DEF f
  <2>2. SumFunction(f) = 0
    BY <2>1, PairsFinite, SumZero
  <2> QED BY <2>2 DEF f
<1>3. SumFunction(s.net) = 0
  <2>1. s.net = None(Party)
    BY <1>1 DEF None
  <2> QED BY <2>1, PartyFinite, NoneSums
<1>4. s.net \in [Party -> Int] /\ s.pairs \in [Pairs(Party) -> Int] /\ \A p \in Party : s.net[p] = 0
  BY <1>1
<1> QED BY <1>2, <1>3, <1>4 DEF Agrees, s

LEMMA TogetherAgrees ==
    ASSUME NEW s, NEW t, Agrees(s), Agrees(t)
    PROVE  Agrees(Together(s, t))
<1> DEFINE u == Together(s, t)
<1>1. u.net = Added(s.net, t.net) /\ u.pairs = Added(s.pairs, t.pairs)
  BY DEF Together
<1> HIDE DEF u
<1>2. /\ s.net \in [Party -> Int] /\ s.pairs \in [Pairs(Party) -> Int]
      /\ t.net \in [Party -> Int] /\ t.pairs \in [Pairs(Party) -> Int]
  BY DEF Agrees
<1>3. /\ u.net = [p \in Party |-> s.net[p] + t.net[p]]
      /\ u.pairs = [xy \in Pairs(Party) |-> s.pairs[xy] + t.pairs[xy]]
  BY <1>1, <1>2 DEF Added
<1>4. u.net \in [Party -> Int] /\ u.pairs \in [Pairs(Party) -> Int]
  BY <1>2, <1>3
<1>5. ASSUME NEW p \in Party PROVE u.net[p] = SumFunction(NetFrom(u.pairs, p))
  <2> DEFINE f == NetFrom(s.pairs, p)
             g == NetFrom(t.pairs, p)
             h == NetFrom(u.pairs, p)
  <2>1. f \in [Pairs(Party) -> Int] /\ g \in [Pairs(Party) -> Int]
    BY <1>2, BetweenTyped
  <2>2. h = [xy \in Pairs(Party) |-> f[xy] + g[xy]]
    <3>1. ASSUME NEW xy \in Pairs(Party) PROVE h[xy] = f[xy] + g[xy]
      <4>1. u.pairs[xy] = s.pairs[xy] + t.pairs[xy] /\ s.pairs[xy] \in Int /\ t.pairs[xy] \in Int
        BY <1>2, <1>3
      <4> QED BY <4>1 DEF NetFrom
    <3> QED BY <3>1 DEF NetFrom
  <2>3. s.net[p] = SumFunction(f) /\ t.net[p] = SumFunction(g)
    BY DEF Agrees
  <2> HIDE DEF f, g, h
  <2>4. SumFunction(h) = SumFunction(f) + SumFunction(g)
    BY <2>1, <2>2, PairsFinite, SumAdd
  <2>5. u.net[p] = SumFunction(h)
    BY <1>3, <2>3, <2>4
  <2> QED BY <2>5 DEF h
<1>6. SumFunction(u.net) = 0
  <2> DEFINE f == s.net
             g == t.net
  <2>1. f \in [Party -> Int] /\ g \in [Party -> Int] /\ u.net = [p \in Party |-> f[p] + g[p]]
    BY <1>2, <1>3
  <2>2. SumFunction(f) = 0 /\ SumFunction(g) = 0
    BY DEF Agrees
  <2> HIDE DEF f, g
  <2>3. SumFunction(u.net) = SumFunction(f) + SumFunction(g)
    <3>1. IsFiniteSet(Party)
      BY PartyFinite
    <3>2. SumFunction([p \in Party |-> f[p] + g[p]]) = SumFunction(f) + SumFunction(g)
      BY <2>1, <3>1, SumAdd
    <3> QED BY <2>1, <3>2
  <2> QED BY <2>2, <2>3
<1> QED BY <1>4, <1>5, <1>6 DEF Agrees, u

LEMMA PaymentAgrees ==
    ASSUME NEW from \in Party, NEW to \in Party, from # to, NEW amount \in Int
    PROVE  Agrees(PaymentSheet(Party, from, to, amount))
<1> DEFINE s == PaymentSheet(Party, from, to, amount)
           z == IF from < to THEN <<from, to>> ELSE <<to, from>>
<1>1. /\ s.net = [None(Party) EXCEPT ![from] = amount, ![to] = -amount]
      /\ s.pairs = [xy \in Pairs(Party) |-> CASE xy = <<from, to>> -> -amount
                                              [] xy = <<to, from>> -> amount
                                              [] OTHER -> 0]
  BY DEF PaymentSheet
<1>2. from \in Nat /\ to \in Nat /\ (from < to \/ to < from)
  BY PartyFinite
<1>3. z \in Pairs(Party) /\ z[1] # z[2] /\ {z[1], z[2]} = {from, to} /\ z = <<z[1], z[2]>>
      /\ (z[1] = from \/ z[1] = to)
  BY <1>2, PairsFinite
<1> HIDE DEF s
<1>4. \A p \in Party : s.net[p] = IF p = from THEN amount ELSE IF p = to THEN -amount ELSE 0
  BY <1>1 DEF None
<1>5. s.net \in [Party -> Int]
  BY <1>1 DEF None
<1>6. /\ s.pairs \in [Pairs(Party) -> Int]
      /\ \A xy \in Pairs(Party) \ {z} : s.pairs[xy] = 0
      /\ s.pairs[z] = IF z[1] = from THEN -amount ELSE amount
  <2>1. \A xy \in Pairs(Party) : s.pairs[xy] = IF xy = <<from, to>> THEN -amount
                                               ELSE IF xy = <<to, from>> THEN amount ELSE 0
    BY <1>1
  <2>2. s.pairs \in [Pairs(Party) -> Int]
    BY <1>1
  <2>3. ASSUME NEW xy \in Pairs(Party), xy # z PROVE s.pairs[xy] = 0
    <3>1. xy[1] < xy[2] /\ xy = <<xy[1], xy[2]>> /\ xy[1] \in Nat /\ xy[2] \in Nat
      BY PairsFinite, PartyFinite
    <3>2. xy # <<from, to>> /\ xy # <<to, from>>
      BY <1>2, <2>3, <3>1
    <3> QED BY <2>1, <3>2
  <2>4. s.pairs[z] = IF z[1] = from THEN -amount ELSE amount
    <3>1. z = IF z[1] = from THEN <<from, to>> ELSE <<to, from>>
      BY <1>2
    <3>2. <<from, to>> # <<to, from>>
      BY <1>2
    <3> HIDE DEF z
    <3> QED BY <1>3, <2>1, <3>1, <3>2
  <2> QED BY <2>2, <2>3, <2>4
<1> HIDE DEF z
<1>7. ASSUME NEW p \in Party PROVE s.net[p] = SumFunction(NetFrom(s.pairs, p))
  <2> DEFINE h == NetFrom(s.pairs, p)
             f == [xy \in Pairs(Party) |-> 0]
  <2>1. h \in [Pairs(Party) -> Int] /\ f \in [Pairs(Party) -> Int]
    BY <1>6, BetweenTyped
  <2>2. (\A xy \in Pairs(Party) : f[xy] = 0) /\ (\A xy \in Pairs(Party) \ {z} : f[xy] = h[xy])
    BY <1>6 DEF NetFrom
  <2>3. h[z] = s.net[p]
    <3>1. h[z] = IF z[2] = p THEN s.pairs[z] ELSE IF z[1] = p THEN -s.pairs[z] ELSE 0
      BY <1>3 DEF NetFrom
    <3> QED BY <1>3, <1>4, <1>6, <3>1
  <2> HIDE DEF h, f
  <2>4. SumFunction(f) = 0
    BY <2>1, <2>2, PairsFinite, SumZero
  <2>5. SumFunction(h) = SumFunction(f) - f[z] + h[z]
    <3>1. IsFiniteSet(Pairs(Party))
      BY PairsFinite
    <3> QED BY <1>3, <2>1, <2>2, <3>1, SumChanges
  <2>6. SumFunction(h) = s.net[p]
    <3>1. f[z] = 0 /\ h[z] \in Int
      BY <1>3, <2>1, <2>2
    <3> QED BY <2>3, <2>4, <2>5, <3>1
  <2> QED BY <2>6 DEF h
<1>8. SumFunction(s.net) = 0
  <2> DEFINE none == None(Party)
             owed == [none EXCEPT ![from] = amount]
             net == s.net
  <2>0. IsFiniteSet(Party)
    BY PartyFinite
  <2>1. none \in [Party -> Int] /\ SumFunction(none) = 0 /\ \A p \in Party : none[p] = 0
    BY PartyFinite, NoneSums DEF None
  <2>2. owed \in [Party -> Int] /\ owed[from] = amount /\ \A p \in Party \ {from} : owed[p] = none[p]
    BY <2>1
  <2>3. net \in [Party -> Int] /\ net[to] = -amount /\ \A p \in Party \ {to} : net[p] = owed[p]
    BY <1>4, <1>5, <2>1, <2>2
  <2> HIDE DEF none, owed, net
  <2>4. SumFunction(owed) = SumFunction(none) - none[from] + owed[from]
    BY <2>0, <2>1, <2>2, SumChanges
  <2>5. SumFunction(net) = SumFunction(owed) - owed[to] + net[to]
    BY <2>0, <2>2, <2>3, SumChanges
  <2>6. SumFunction(net) = 0
    BY <2>1, <2>2, <2>3, <2>4, <2>5
  <2> QED BY <2>6 DEF net
<1> QED BY <1>5, <1>6, <1>7, <1>8 DEF Agrees, s

\* An expense, by what everybody is up or down on it.
SheetOf(net, e, spend) ==
    [net   |-> net,
     pairs |-> [xy \in Pairs(DOMAIN net) |-> Owed(e, xy[1], xy[2]) - Owed(e, xy[2], xy[1])],
     spend |-> spend]

LEMMA SheetIs ==
    ASSUME NEW paid, NEW owed
    PROVE  ExpenseSheet(paid, owed) =
              SheetOf(NetOf(paid, owed), ExpenseEdges(NetOf(paid, owed)), SumFunction(paid))
<1> DEFINE n == NetOf(paid, owed)
           L(net, edges) == [net   |-> net,
                             pairs |-> [xy \in Pairs(DOMAIN owed) |->
                                          Owed(edges, xy[1], xy[2]) - Owed(edges, xy[2], xy[1])],
                             spend |-> SumFunction(paid)]
           I(net) == {L(net, z) : z \in {ExpenseEdges(net)}}
           W(net) == CHOOSE y \in I(net) : y = y
           X == {W(z) : z \in {n}}
           Y == CHOOSE y \in X : y = y
<1>1. ExpenseSheet(paid, owed) = Y
  BY DEF ExpenseSheet, Given
<1>2. Y = W(n)
  <2> HIDE DEF W, n
  <2>1. X = {W(n)}
    OBVIOUS
  <2> HIDE DEF X
  <2> QED BY <2>1
<1>3. W(n) = L(n, ExpenseEdges(n))
  <2> HIDE DEF L, n
  <2>1. I(n) = {L(n, ExpenseEdges(n))}
    OBVIOUS
  <2> HIDE DEF I
  <2> QED BY <2>1
<1>4. DOMAIN n = DOMAIN owed
  BY DEF NetOf
<1>5. L(n, ExpenseEdges(n)) = SheetOf(n, ExpenseEdges(n), SumFunction(paid))
  <2> HIDE DEF n
  <2> QED BY <1>4 DEF SheetOf
<1> HIDE DEF L, W, X, Y, n
<1> QED BY <1>1, <1>2, <1>3, <1>5 DEF n

LEMMA NetSums ==
    ASSUME NEW T \in SUBSET Party, NEW paid \in [T -> Int], NEW owed \in [Party -> Int],
           SumFunction(paid) = SumFunction(owed)
    PROVE  NetOf(paid, owed) \in [Party -> Int] /\ SumFunction(NetOf(paid, owed)) = 0
<1> DEFINE none == None(Party)
           all == Added(none, paid)
           minus == [p \in Party |-> (-1) * owed[p]]
           net == NetOf(paid, owed)
<1>0. IsFiniteSet(Party)
  BY PartyFinite
<1>1. none \in [Party -> Int] /\ SumFunction(none) = 0 /\ \A p \in Party : none[p] = 0
  BY PartyFinite, NoneSums DEF None
<1> HIDE DEF none
<1>2. all \in [Party -> Int] /\ SumFunction(all) = SumFunction(none) + SumFunction(paid)
  BY <1>0, <1>1, AddedSums
<1>3. SumFunction(minus) = (-1) * SumFunction(owed) /\ minus \in [Party -> Int] /\ SumFunction(owed) \in Int
  <2>1. SumFunction(owed) \in Int
    BY <1>0, SumType
  <2>2. (-1) \in Int
    OBVIOUS
  <2>3. SumFunction([p \in Party |-> (-1) * owed[p]]) = (-1) * SumFunction(owed)
    BY <1>0, <2>2, SumTimes
  <2> QED BY <2>1, <2>3
<1>4. net = [p \in Party |-> all[p] + minus[p]]
  <2>1. net = [p \in Party |-> (IF p \in T THEN paid[p] ELSE 0) - owed[p]]
    BY DEF NetOf
  <2>2. \A p \in Party : all[p] = IF p \in T THEN paid[p] ELSE 0
    BY <1>1 DEF Added
  <2> HIDE DEF net, all
  <2>3. \A p \in Party : all[p] \in Int /\ owed[p] \in Int
    BY <1>2
  <2> QED BY <2>1, <2>2, <2>3
<1> HIDE DEF all, minus, net
<1>5. SumFunction(net) = SumFunction(all) + SumFunction(minus)
  BY <1>2, <1>3, <1>4, PartyFinite, SumAdd
<1>6. net \in [Party -> Int]
  BY <1>2, <1>3, <1>4
<1>7. SumFunction(net) = 0
  BY <1>1, <1>2, <1>3, <1>5
<1> QED BY <1>6, <1>7 DEF net

LEMMA EdgesAgree ==
    ASSUME NEW net \in [Party -> Int], SumFunction(net) = 0, NEW spend
    PROVE  Agrees(SheetOf(net, ExpenseEdges(net), spend))
<1> DEFINE C == Creditors(net)
           D == Debtors(net)
           e == ExpenseEdges(net)
           s == SheetOf(net, e, spend)
           pairs == s.pairs
<1>1. /\ e \in [D \X C -> Nat]
      /\ \A c \in C : SumFunction(ByCreditor(e, D, c)) = net[c]
      /\ \A d \in D : SumFunction(ByDebtor(e, C, d)) = -net[d]
  BY PartyFinite, EdgesSettle
<1>2. /\ D \subseteq Party /\ C \subseteq Party /\ D \cap C = {}
      /\ \A p \in Party : p \in D \/ p \in C \/ net[p] = 0
  BY DEF Debtors, Creditors
<1>3. \A x, y : Owed(e, x, y) = IF x \in D /\ y \in C THEN e[<<x, y>>] ELSE 0
  BY <1>1 DEF Owed
<1>4. ASSUME NEW x, NEW y PROVE Owed(e, x, y) \in Nat
  <2>1. CASE x \in D /\ y \in C
    <3>1. <<x, y>> \in D \X C
      BY <2>1
    <3> HIDE DEF e, D, C
    <3>2. e[<<x, y>>] \in Nat
      BY <1>1, <3>1
    <3> QED BY <1>3, <2>1, <3>2
  <2>2. CASE ~(x \in D /\ y \in C)
    <3>1. Owed(e, x, y) = 0
      <4> HIDE DEF e, D, C
      <4> QED BY <1>3, <2>2
    <3> QED BY <3>1
  <2> QED BY <2>1, <2>2
<1>5. s.net = net /\ pairs = [xy \in Pairs(Party) |-> Owed(e, xy[1], xy[2]) - Owed(e, xy[2], xy[1])]
  BY DEF SheetOf
<1> HIDE DEF s, pairs, e, C, D
<1>6. pairs \in [Pairs(Party) -> Int]
  BY <1>4, <1>5
<1>7. ASSUME NEW p \in Party PROVE net[p] = SumFunction(NetFrom(pairs, p))
  <2> DEFINE Q == Party \ {p}
             P == {xy \in Pairs(Party) : p \in {xy[1], xy[2]}}
             f == [q \in Q |-> Owed(e, q, p) - Owed(e, p, q)]
             all == NetFrom(pairs, p)
             h == On(all, P)
             b == [q \in Q |-> IF q < p THEN <<q, p>> ELSE <<p, q>>]
  <2>1. IsFiniteSet(Q) /\ IsFiniteSet(P) /\ P \in SUBSET Pairs(Party) /\ IsFiniteSet(Pairs(Party))
    BY PartyFinite, PairsFinite, FS_Subset
  <2>2. all \in [Pairs(Party) -> Int]
    BY <1>6, BetweenTyped
  <2>3. \A xy \in Pairs(Party) \ P : all[xy] = 0
    BY DEF NetFrom
  <2>4. f \in [Q -> Int]
    BY <1>4
  <2>5. h \in [P -> Int] /\ \A xy \in P : h[xy] = all[xy]
    BY <2>1, <2>2 DEF On
  <2>6. \A q \in Q : /\ q \in Party /\ q \in Nat /\ p \in Nat /\ (q < p \/ p < q) /\ q # p
    BY PartyFinite
  <2>7. ASSUME NEW q \in Q
        PROVE  /\ b[q] \in P /\ {b[q][1], b[q][2]} = {p, q}
               /\ f[q] = h[b[q]]
    <3> DEFINE z == b[q]
    <3>1. z = IF q < p THEN <<q, p>> ELSE <<p, q>>
      OBVIOUS
    <3>2. z \in Pairs(Party)
      BY <2>6, <3>1, PairsFinite
    <3>3. (z[1] = q /\ z[2] = p) \/ (z[1] = p /\ z[2] = q)
      BY <3>1
    <3>4. z \in P
      BY <3>2, <3>3
    <3>5. h[z] = all[z]
      BY <2>5, <3>4
    <3> HIDE DEF z, P, h, b
    <3>6. all[z] = IF z[2] = p THEN pairs[z] ELSE -pairs[z]
      BY <3>2, <3>3 DEF NetFrom
    <3>7. pairs[z] = Owed(e, z[1], z[2]) - Owed(e, z[2], z[1])
      BY <1>5, <3>2
    <3>8. f[q] = all[z]
      BY <1>4, <2>6, <3>3, <3>6, <3>7
    <3> QED BY <3>3, <3>4, <3>5, <3>8 DEF z
  <2>8. b \in [Q -> P]
    BY <2>7
  <2>9. \A x, y \in Q : b[x] = b[y] => x = y
    <3> SUFFICES ASSUME NEW x \in Q, NEW y \in Q, b[x] = b[y] PROVE x = y
      OBVIOUS
    <3>1. {p, x} = {p, y} /\ x # p /\ y # p
      BY <2>7
    <3> QED BY <3>1
  <2>10. \A z \in P : \E q \in Q : b[q] = z
    <3> SUFFICES ASSUME NEW z \in P PROVE \E q \in Q : b[q] = z
      OBVIOUS
    <3>1. z = <<z[1], z[2]>> /\ z[1] \in Party /\ z[2] \in Party /\ z[1] < z[2] /\ (z[1] = p \/ z[2] = p)
      BY PairsFinite
    <3>2. z[1] \in Nat /\ z[2] \in Nat
      BY <3>1, PartyFinite
    <3>3. CASE z[2] = p
      <4>1. z[1] \in Q /\ b[z[1]] = <<z[1], p>>
        BY <3>1, <3>2, <3>3
      <4> QED BY <3>1, <3>3, <4>1
    <3>4. CASE z[1] = p
      <4>1. z[2] \in Q /\ b[z[2]] = <<p, z[2]>>
        BY <3>1, <3>2, <3>4
      <4> QED BY <3>1, <3>4, <4>1
    <3> QED BY <3>1, <3>3, <3>4
  <2>11. \A x \in Q : f[x] = h[b[x]]
    BY <2>7
  <2> HIDE DEF P, h, b, f, all, Q
  <2>12. SumFunction(f) = SumFunction(h)
    BY <2>1, <2>4, <2>5, <2>8, <2>9, <2>10, <2>11, SumRenamed
  <2>13. SumFunction(all) = SumFunction(h)
    BY <2>1, <2>2, <2>3, SumWithin DEF h
  <2>20. \A q \in Q : /\ f[q] = Owed(e, q, p) - Owed(e, p, q)
                      /\ Owed(e, q, p) \in Nat /\ Owed(e, p, q) \in Nat
    BY <1>4 DEF f
  <2>21. /\ p \in D => p \notin C
         /\ \A q \in Q : /\ q \in C => q \notin D
                         /\ Owed(e, q, p) = IF q \in D /\ p \in C THEN e[<<q, p>>] ELSE 0
                         /\ Owed(e, p, q) = IF p \in D /\ q \in C THEN e[<<p, q>>] ELSE 0
    BY <1>2, <1>3
  <2>14. SumFunction(f) = net[p]
    <3>1. CASE p \in C
      <4>1. \A q \in Q : f[q] = IF q \in D THEN e[<<q, p>>] ELSE 0
        <5> TAKE q \in Q
        <5>1. Owed(e, p, q) = 0
          BY <2>21, <3>1
        <5>2. Owed(e, q, p) = IF q \in D THEN e[<<q, p>>] ELSE 0
          BY <2>21, <3>1
        <5>3. f[q] = Owed(e, q, p)
          BY <2>20, <5>1
        <5> QED BY <5>2, <5>3
      <4>2. D \in SUBSET Q
        BY <1>2, <3>1 DEF Q
      <4>3. On(f, D) = ByCreditor(e, D, p)
        BY <4>1, <4>2 DEF On, ByCreditor
      <4>4. \A q \in Q \ D : f[q] = 0
        BY <4>1
      <4>5. SumFunction(f) = SumFunction(On(f, D))
        BY <2>1, <2>4, <4>2, <4>4, SumWithin
      <4> QED BY <1>1, <3>1, <4>3, <4>5
    <3>2. CASE p \in D
      <4> DEFINE g == ByDebtor(e, C, p)
                 m == [c \in C |-> (-1) * g[c]]
      <4>1. \A q \in Q : f[q] = IF q \in C THEN (-1) * e[<<p, q>>] ELSE 0
        BY <2>20, <2>21, <3>2
      <4>2. C \in SUBSET Q /\ IsFiniteSet(C)
        BY <1>2, <2>1, <3>2, FS_Subset DEF Q
      <4>3. g \in [C -> Int]
        BY <1>1, <3>2 DEF ByDebtor
      <4>4. On(f, C) = m
        BY <4>1, <4>2 DEF On, ByDebtor
      <4>5. \A q \in Q \ C : f[q] = 0
        BY <4>1
      <4>6. SumFunction(f) = SumFunction(On(f, C))
        BY <2>1, <2>4, <4>2, <4>5, SumWithin
      <4>7. SumFunction(g) = -net[p] /\ net[p] \in Int
        BY <1>1, <3>2
      <4> HIDE DEF g
      <4>8. SumFunction(m) = (-1) * SumFunction(g)
        <5>1. (-1) \in Int
          OBVIOUS
        <5>2. SumFunction([c \in C |-> (-1) * g[c]]) = (-1) * SumFunction(g)
          BY <4>2, <4>3, <5>1, SumTimes
        <5> QED BY <5>2
      <4> QED BY <4>4, <4>6, <4>7, <4>8
    <3>3. CASE p \notin C /\ p \notin D
      <4>1. \A q \in Q : f[q] = 0
        BY <2>20, <2>21, <3>3
      <4>2. SumFunction(f) = 0
        BY <2>1, <2>4, <4>1, SumZero
      <4> QED BY <1>2, <3>3, <4>2
    <3> QED BY <3>1, <3>2, <3>3
  <2> QED BY <2>12, <2>13, <2>14 DEF all
<1> QED BY <1>5, <1>6, <1>7 DEF Agrees, s, pairs, e

LEMMA NoneAdded ==
    ASSUME NEW some \in SUBSET Party, NEW a \in [some -> Int]
    PROVE  /\ Added(None(Party), a) \in [Party -> Int]
           /\ SumFunction(Added(None(Party), a)) = SumFunction(a)
<1> DEFINE none == None(Party)
<1>1. IsFiniteSet(Party)
  BY PartyFinite
<1>2. none \in [Party -> Int] /\ SumFunction(none) = 0
  BY <1>1, NoneSums
<1>3. SumFunction(a) \in Int
  <2>1. IsFiniteSet(some)
    BY <1>1, FS_Subset
  <2> QED BY <2>1, SumType
<1> HIDE DEF none
<1>4. none \in [Party -> Int]
  BY <1>2
<1>5. /\ Added(none, a) \in [Party -> Int]
      /\ SumFunction(Added(none, a)) = SumFunction(none) + SumFunction(a)
  BY <1>1, <1>4, AddedSums
<1>6. SumFunction(Added(none, a)) = SumFunction(a)
  BY <1>2, <1>3, <1>5
<1> QED BY <1>5, <1>6 DEF none

LEMMA ConvertedAgrees ==
    ASSUME NEW T \in SUBSET Party, NEW total \in Nat, NEW converted \in Nat,
           NEW paid \in [T -> Int], NEW shares \in [Party -> Int], Balanced(total, paid, shares)
    PROVE  LET both == ConvertedBreakdown(converted, paid, shares)
           IN  Agrees(ExpenseSheet(both.paid, both.owed))
<1> DEFINE both == ConvertedBreakdown(converted, paid, shares)
           some == {p \in Party : shares[p] # 0}
           mine == On(shares, some)
           none == None(Party)
           p2 == Apportion(converted, paid, {})
           a == Apportion(converted, mine, {})
           o2 == Added(none, a)
<1>0. IsFiniteSet(Party) /\ none \in [Party -> Int] /\ SumFunction(none) = 0
  BY PartyFinite, NoneSums
<1> HIDE DEF none
<1>1. total > 0 /\ SumFunction(paid) = total /\ SumFunction(shares) = total
  BY DEF Balanced
<1>2. both.paid = p2 /\ both.owed = o2
  <2>1. DOMAIN shares = Party
    OBVIOUS
  <2> QED BY <2>1 DEF ConvertedBreakdown, On, none
<1>3. T # {}
  <2> SUFFICES ASSUME T = {} PROVE FALSE
    OBVIOUS
  <2>1. DOMAIN paid = {}
    OBVIOUS
  <2> QED BY <1>1, <2>1, SumEmpty
<1>4. /\ IsFiniteSet(T) /\ T \in SUBSET Nat /\ some \in SUBSET Party
      /\ IsFiniteSet(some) /\ some \in SUBSET Nat /\ mine \in [some -> Int]
  BY PartyFinite DEF On
<1>5. some # {}
  <2> SUFFICES ASSUME some = {} PROVE FALSE
    OBVIOUS
  <2>1. \A p \in Party : shares[p] = 0
    OBVIOUS
  <2>2. SumFunction(shares) = 0
    BY <1>0, <2>1, SumZero
  <2> QED BY <1>1, <2>2
<1> HIDE DEF some, mine
<1>6. converted \in Int
  OBVIOUS
<1>7. p2 \in [T -> Int] /\ SumFunction(p2) = converted
  BY <1>3, <1>4, <1>6, ApportionAdds
<1>8. a \in [some -> Int] /\ SumFunction(a) = converted
  BY <1>4, <1>5, <1>6, ApportionAdds
<1> HIDE DEF p2, a, both
<1>9. o2 \in [Party -> Int] /\ SumFunction(o2) = SumFunction(a)
  BY <1>4, <1>8, NoneAdded DEF none
<1>10. SumFunction(p2) = SumFunction(o2)
  BY <1>7, <1>8, <1>9
<1> HIDE DEF o2
<1> DEFINE n == NetOf(p2, o2)
<1>11. n \in [Party -> Int] /\ SumFunction(n) = 0
  BY <1>7, <1>9, <1>10, NetSums
<1>12. ExpenseSheet(p2, o2) = SheetOf(n, ExpenseEdges(n), SumFunction(p2))
  BY SheetIs
<1> HIDE DEF n
<1>13. Agrees(ExpenseSheet(p2, o2))
  BY <1>11, <1>12, EdgesAgree
<1> QED BY <1>2, <1>13 DEF both

LEMMA FiledAgrees ==
    ASSUME FormTyped, Agrees(sheet), FileBill
    PROVE  Agrees(sheet)' /\ FormTyped'
<1>1. PICK paid \in [form.payers -> 1..form.total], converted \in {form.total} \cup Foreign :
          /\ Balanced(form.total, paid, form.shares)
          /\ LET Sheet(both) == ExpenseSheet(both.paid, both.owed)
                 ofBill == Given(ConvertedBreakdown(converted, paid, form.shares), Sheet)
             IN  sheet' = Given(ofBill, LAMBDA bill : Together(sheet, bill))
  BY DEF FileBill
<1> DEFINE both == ConvertedBreakdown(converted, paid, form.shares)
           bill == ExpenseSheet(both.paid, both.owed)
           W(b) == ExpenseSheet(b.paid, b.owed)
           X == {W(z) : z \in {both}}
           ofBill == CHOOSE y \in X : y = y
           Z == {Together(sheet, z) : z \in {ofBill}}
           Y == CHOOSE y \in Z : y = y
<1>2. sheet' = Y
  BY <1>1 DEF Given
<1>3. ofBill = bill
  <2> HIDE DEF both, W
  <2>1. X = {W(both)}
    OBVIOUS
  <2> HIDE DEF X
  <2>2. ofBill = W(both)
    BY <2>1
  <2> QED BY <2>2 DEF W
<1>4. Y = Together(sheet, bill)
  <2> HIDE DEF ofBill, bill
  <2>1. Z = {Together(sheet, bill)}
    BY <1>3
  <2> HIDE DEF Z
  <2> QED BY <2>1
<1>5. Agrees(bill)
  <2>1. form.total \in Nat /\ form.payers \in SUBSET Party /\ form.shares \in [Party -> Int]
    BY DEF FormTyped
  <2>2. paid \in [form.payers -> Int]
    BY <2>1
  <2>3. converted \in Nat
    BY <2>1, ComposerAssumption
  <2> QED BY <1>1, <2>1, <2>2, <2>3, ConvertedAgrees
<1> HIDE DEF bill, Y
<1>6. Agrees(Together(sheet, bill))
  BY <1>5, TogetherAgrees
<1>7. Agrees(sheet')
  BY <1>2, <1>4, <1>6
<1>8. FormTyped'
  <2>1. form' = NoForm
    BY DEF FileBill
  <2> QED BY <2>1 DEF FormTyped, NoForm, None
<1> QED BY <1>7, <1>8 DEF Agrees, NetFrom

LEMMA PostedAgrees ==
    ASSUME FormTyped, Agrees(sheet), PostPayment
    PROVE  Agrees(sheet)' /\ FormTyped'
<1>1. PICK from \in Party, to \in Party, amount \in Totals :
          from # to /\ sheet' = Together(sheet, PaymentSheet(Party, from, to, amount))
  BY DEF PostPayment
<1>2. amount \in Int
  BY ComposerAssumption
<1>3. Agrees(sheet')
  BY <1>1, <1>2, PaymentAgrees, TogetherAgrees
<1>4. FormTyped'
  BY DEF PostPayment, FormTyped
<1> QED BY <1>3, <1>4 DEF Agrees, NetFrom

LEMMA StartAgrees == ComposerInit => FormTyped /\ Agrees(sheet)
<1> SUFFICES ASSUME ComposerInit PROVE FormTyped /\ Agrees(sheet)
  OBVIOUS
<1>1. form = NoForm /\ sheet = EmptySheet(Party)
  BY DEF ComposerInit
<1>2. FormTyped
  BY <1>1 DEF FormTyped, NoForm, None
<1> QED BY <1>1, <1>2, EmptyAgrees

LEMMA StepAgrees ==
    FormTyped /\ Agrees(sheet) /\ [ComposerNext]_composerVars => (FormTyped /\ Agrees(sheet))'
<1> SUFFICES ASSUME FormTyped, Agrees(sheet), [ComposerNext]_composerVars
             PROVE  (FormTyped /\ Agrees(sheet))'
  OBVIOUS
<1>1. CASE Compose
  BY <1>1, ComposeAdds DEF Compose, Agrees, NetFrom
<1>2. CASE FileBill
  BY <1>2, FiledAgrees
<1>3. CASE PostPayment
  BY <1>3, PostedAgrees
<1>4. CASE QuoteRate
  BY <1>4 DEF QuoteRate, FormTyped, Agrees, NetFrom
<1>5. CASE UNCHANGED composerVars
  BY <1>5 DEF composerVars, FormTyped, Agrees, NetFrom
<1> QED BY <1>1, <1>2, <1>3, <1>4, <1>5 DEF ComposerNext

\* The balances of a group in all and by pairs agree, for any bills in any mode and any
\* payments: a bill's debtors always find enough left of what its creditors are due (the
\* "defensive" end of expenseEdges() is never reached), and pay it all off (balances.ts).
THEOREM TwoScreensOneAnswer == ComposerSpec => []ScreensAgree
<1> DEFINE Inv == FormTyped /\ Agrees(sheet)
<1>1. ComposerInit => Inv
  BY StartAgrees
<1>2. Inv /\ [ComposerNext]_composerVars => Inv'
  BY StepAgrees
<1>3. Inv => ScreensAgree
  BY DEF Agrees, NetFrom, ScreensAgree
<1> QED BY <1>1, <1>2, <1>3, PTL DEF ComposerSpec

-----------------------------------------------------------------------------
(* The plan that settles every debt.                                       *)

LEMMA BiggestIsThere ==
    ASSUME NEW S \in SUBSET Nat, IsFiniteSet(S), NEW net \in [S -> Int],
           NEW people \in SUBSET S, people # {}
    PROVE  Biggest(net, people) \in people
<1> DEFINE B == {pq \in S \X S : \/ Size(net[pq[1]]) > Size(net[pq[2]])
                                 \/ Size(net[pq[1]]) = Size(net[pq[2]]) /\ pq[1] < pq[2]}
           Bigger(p, q) == Size(net[p]) > Size(net[q]) \/ (Size(net[p]) = Size(net[q]) /\ p < q)
<1>1. ASSUME NEW p \in S, NEW q \in S PROVE <<p, q>> \in B <=> Bigger(p, q)
  <2> DEFINE pq == <<p, q>>
  <2>1. pq \in S \X S /\ pq[1] = p /\ pq[2] = q
    OBVIOUS
  <2> HIDE DEF pq
  <2>2. pq \in B <=> Bigger(p, q)
    BY <2>1
  <2> QED BY <2>2 DEF pq
<1>2. \A p \in S : Size(net[p]) \in Nat /\ p \in Nat
  BY DEF Size
<1> HIDE DEF B
<1>3. Orders(B, S)
  <2>1. \A p \in S : <<p, p>> \notin B
    BY <1>1, <1>2
  <2>2. \A p, q, r \in S : <<p, q>> \in B /\ <<q, r>> \in B => <<p, r>> \in B
    BY <1>1, <1>2
  <2>3. ASSUME NEW p \in S, NEW q \in S, p # q PROVE <<p, q>> \in B \/ <<q, p>> \in B
    <3>1. Bigger(p, q) \/ Bigger(q, p)
      BY <1>2, <2>3
    <3> QED BY <1>1, <3>1
  <2> QED BY <2>1, <2>2, <2>3 DEF Orders
<1>4. \E p \in people : \A q \in people \ {p} : <<p, q>> \in B
  BY <1>3, OneComesFirst
<1>5. \E p \in people : \A q \in people \ {p} : Bigger(p, q)
  <2>1. people \subseteq S
    OBVIOUS
  <2> QED BY <1>1, <1>4, <2>1
<1> QED BY <1>5 DEF Biggest

\* One payment more, by who still owes and to who is still owed.
PaysOne(acc, from, to, amount) ==
    [left |-> PaidOff(acc.left, from, to, amount),
     plan |-> Append(acc.plan, [from |-> from, to |-> to, amount |-> amount])]
Transferred(net, acc) ==
    LET debtors   == {p \in DOMAIN net : acc.left[p] < 0}
        creditors == {p \in DOMAIN net : acc.left[p] > 0}
        from      == Biggest(net, debtors)
        to        == Biggest(net, creditors)
    IN  IF debtors = {} \/ creditors = {} THEN acc
        ELSE PaysOne(acc, from, to, Min({-acc.left[from], acc.left[to]}))
Unpaid(net) == [left |-> net, plan |-> <<>>]
Plans(net, T, g) ==
    g = [U \in T |-> IF U = {} THEN Unpaid(net) ELSE Transferred(net, g[U \ {Chosen(U)}])]

LEMMA PlansExist ==
    ASSUME NEW S, IsFiniteSet(S), NEW net
    PROVE  \E g : Plans(net, SUBSET S, g)
<1> DEFINE R(T, g) == Plans(net, T, g)
           B == {n \in Nat : \E g : R(UpTo(S, n), g)}
<1>1. 0 \in B
  <2>1. R({{}}, [U \in {{}} |-> Unpaid(net)])
    BY DEF Plans
  <2>2. UpTo(S, 0) = {{}}
    BY SubsetsCounted
  <2> QED BY <2>1, <2>2
<1>2. ASSUME NEW n \in B PROVE n + 1 \in B
  <2>1. PICK g : R(UpTo(S, n), g)
    OBVIOUS
  <2> DEFINE h == [U \in UpTo(S, n + 1) |->
                      IF U = {} THEN Unpaid(net) ELSE Transferred(net, g[U \ {Chosen(U)}])]
  <2>2. ASSUME NEW U \in UpTo(S, n + 1), U # {}
        PROVE  U \ {Chosen(U)} \in UpTo(S, n) \cap UpTo(S, n + 1)
    <3>1. Chosen(U) \in U
      BY <2>2 DEF Chosen
    <3>2. U \ {Chosen(U)} \in UpTo(S, n)
      BY <3>1, SubsetsCounted
    <3> QED BY <3>2, SubsetsCounted DEF UpTo
  <2>3. ASSUME NEW U \in UpTo(S, n) \cap UpTo(S, n + 1) PROVE g[U] = h[U]
    BY <2>1 DEF Plans
  <2>4. h = [U \in UpTo(S, n + 1) |->
                IF U = {} THEN Unpaid(net) ELSE Transferred(net, h[U \ {Chosen(U)}])]
    BY <2>2, <2>3
  <2>5. R(UpTo(S, n + 1), h)
    BY <2>4 DEF Plans
  <2> QED BY <2>5
<1>3. B = Nat
  BY <1>1, <1>2, NatSetInduction
<1>4. Cardinality(S) \in B
  BY <1>3, SubsetsCounted
<1>5. PICK g : R(UpTo(S, Cardinality(S)), g)
  BY <1>4
<1>6. UpTo(S, Cardinality(S)) = SUBSET S
  BY SubsetsCounted
<1> QED BY <1>5, <1>6

LEMMA PlanIs ==
    ASSUME NEW S, IsFiniteSet(S), NEW net, DOMAIN net = S
    PROVE  \E g : Plans(net, SUBSET S, g) /\ SimplifyDebts(net) = g[S].plan
<1> DEFINE g == CHOOSE g : Plans(net, SUBSET S, g)
<1>1. Plans(net, SUBSET S, g)
  BY PlansExist
<1>2. SimplifyDebts(net) = g[S].plan
  BY DEF SimplifyDebts, FoldSet, MapThenFoldSet, Plans, Unpaid, Transferred, PaysOne, Chosen
<1> QED BY <1>1, <1>2

\* Whose balance is not nothing, and what a plan's payments come to for p.
Open(net) == {p \in DOMAIN net : net[p] # 0}
Effect(t, p) == IF t.from = p THEN t.amount ELSE IF t.to = p THEN -t.amount ELSE 0
Effects(plan, p) == [i \in DOMAIN plan |-> Effect(plan[i], p)]
Transfers(S) == {t \in [from : S, to : S, amount : Nat] : t.from # t.to}

\* What is left, after some payments of the plan, to those who are still open; and
\* each payment closes somebody, the last one two.
PlanInv(S, net, U, acc) ==
    /\ acc.left \in [S -> Int] /\ SumFunction(acc.left) = 0
    /\ acc.plan \in Seq(Transfers(S))
    /\ \A p \in S : acc.left[p] = net[p] + SumFunction(Effects(acc.plan, p))
    /\ Open(acc.left) = {} =>
          Len(acc.plan) <= IF Open(net) = {} THEN 0 ELSE Cardinality(Open(net)) - 1
    /\ Open(acc.left) # {} =>
          /\ Len(acc.plan) + Cardinality(Open(acc.left)) <= Cardinality(Open(net))
          /\ Cardinality(U) <= Len(acc.plan)

LEMMA OpenCounted ==
    ASSUME NEW S, IsFiniteSet(S), NEW net \in [S -> Int]
    PROVE  /\ Open(net) \in SUBSET S /\ IsFiniteSet(Open(net)) /\ Cardinality(Open(net)) \in Nat
           /\ Cardinality(Open(net)) <= Cardinality(S) /\ Cardinality(S) \in Nat
           /\ Open(net) # {} => Cardinality(Open(net)) > 0
<1>1. Open(net) \in SUBSET S
  BY DEF Open
<1> HIDE DEF Open
<1>2. IsFiniteSet(Open(net)) /\ Cardinality(Open(net)) <= Cardinality(S)
  BY <1>1, FS_Subset
<1>3. Cardinality(Open(net)) \in Nat /\ Cardinality(S) \in Nat
  BY <1>2, FS_CardinalityType
<1>4. Open(net) # {} => Cardinality(Open(net)) # 0
  BY <1>2, FS_EmptySet
<1> QED BY <1>1, <1>2, <1>3, <1>4

\* Who is owed is owed by somebody.
LEMMA BothSides ==
    ASSUME NEW S, IsFiniteSet(S), NEW left \in [S -> Int], SumFunction(left) = 0, Open(left) # {}
    PROVE  /\ {p \in S : left[p] < 0} # {} /\ {p \in S : left[p] > 0} # {}
<1> DEFINE minus == [p \in S |-> (-1) * left[p]]
<1>0. PICK x \in S : left[x] # 0
  BY DEF Open
<1>1. minus \in [S -> Int] /\ \A p \in S : minus[p] = -left[p]
  OBVIOUS
<1>2. SumFunction(minus) = (-1) * SumFunction(left)
  <2>1. (-1) \in Int
    OBVIOUS
  <2>2. SumFunction([p \in S |-> (-1) * left[p]]) = (-1) * SumFunction(left)
    BY <2>1, SumTimes
  <2> QED BY <2>2
<1>3. SumFunction(minus) = 0
  BY <1>2
<1> HIDE DEF minus
<1>4. ASSUME {p \in S : left[p] < 0} = {} PROVE FALSE
  <2>1. \A p \in S : left[p] \in Nat
    BY <1>4
  <2>2. left \in [S -> Nat]
    BY <2>1
  <2>3. left[x] = 0
    BY <2>2, SumsToZero
  <2> QED BY <1>0, <2>3
<1>5. ASSUME {p \in S : left[p] > 0} = {} PROVE FALSE
  <2>1. \A p \in S : minus[p] \in Nat
    BY <1>1, <1>5
  <2>2. minus \in [S -> Nat]
    BY <1>1, <2>1
  <2>3. minus[x] = 0
    BY <1>3, <2>2, SumsToZero
  <2> QED BY <1>0, <1>1, <2>3
<1> QED BY <1>4, <1>5

\* A payment more, counted for everybody.
LEMMA EffectsAdd ==
    ASSUME NEW S, NEW plan \in Seq(Transfers(S)), NEW t \in Transfers(S), NEW p
    PROVE  /\ SumFunction(Effects(Append(plan, t), p)) = SumFunction(Effects(plan, p)) + Effect(t, p)
           /\ SumFunction(Effects(plan, p)) \in Int
           /\ Append(plan, t) \in Seq(Transfers(S)) /\ Len(Append(plan, t)) = Len(plan) + 1
<1> DEFINE R == Transfers(S)
           more == Append(plan, t)
           n == Len(plan)
           f == Effects(plan, p)
           h == Effects(more, p)
<1>1. \A u \in R : Effect(u, p) \in Int
  BY DEF Transfers, Effect
<1> HIDE DEF R
<1>2. /\ n \in Nat /\ DOMAIN plan = 1..n /\ (\A i \in 1..n : plan[i] \in R)
      /\ more \in Seq(R) /\ Len(more) = n + 1 /\ DOMAIN more = 1..(n + 1)
      /\ (\A i \in 1..n : more[i] = plan[i]) /\ more[n + 1] = t /\ t \in R
  BY DEF R
<1> HIDE DEF n, more
<1>3. f \in [1..n -> Int] /\ h \in [1..(n + 1) -> Int] /\ h[n + 1] = Effect(t, p)
      /\ \A i \in 1..n : f[i] = h[i]
  <2>1. f = [i \in 1..n |-> Effect(plan[i], p)] /\ h = [i \in 1..(n + 1) |-> Effect(more[i], p)]
    BY <1>2 DEF Effects
  <2>2. \A i \in 1..n : Effect(plan[i], p) \in Int
    BY <1>1, <1>2
  <2>3. \A i \in 1..(n + 1) : more[i] \in R
    BY <1>2
  <2>4. \A i \in 1..(n + 1) : Effect(more[i], p) \in Int
    BY <1>1, <2>3
  <2>5. f \in [1..n -> Int] /\ h \in [1..(n + 1) -> Int]
    BY <2>1, <2>2, <2>4
  <2>6. \A i \in 1..n : i \in 1..(n + 1)
    BY <1>2
  <2>7. n + 1 \in 1..(n + 1)
    BY <1>2
  <2> HIDE DEF f, h
  <2> QED BY <1>2, <2>1, <2>5, <2>6, <2>7
<1> HIDE DEF f, h
<1>4. IsFiniteSet(1..(n + 1)) /\ IsFiniteSet(1..n) /\ n + 1 \in 1..(n + 1)
  BY <1>2, FS_Interval
<1>5. AllBut(h, n + 1) = f
  <2>1. (1..(n + 1)) \ {n + 1} = 1..n
    BY <1>2
  <2> QED BY <1>3, <2>1 DEF AllBut, On
<1>6. SumFunction(h) = h[n + 1] + SumFunction(AllBut(h, n + 1))
  BY <1>3, <1>4, SumTakes
<1>7. SumFunction(f) \in Int
  BY <1>3, <1>4, SumType
<1>8. SumFunction(h) = SumFunction(f) + Effect(t, p)
  <2>1. Effect(t, p) \in Int
    BY <1>1, <1>2
  <2> QED BY <1>3, <1>5, <1>6, <1>7, <2>1
<1> QED BY <1>2, <1>7, <1>8 DEF R, more, n, f, h

\* One round more: whoever is open still has somebody to pay or be paid by.
LEMMA TransferStep ==
    ASSUME NEW S \in SUBSET Nat, IsFiniteSet(S), NEW net \in [S -> Int],
           NEW U \in SUBSET S, NEW x \in U, NEW acc, PlanInv(S, net, U \ {x}, acc)
    PROVE  PlanInv(S, net, U, Transferred(net, acc))
<1> DEFINE left == acc.left
           plan == acc.plan
           debtors   == {p \in S : left[p] < 0}
           creditors == {p \in S : left[p] > 0}
           from == Biggest(net, debtors)
           to   == Biggest(net, creditors)
           amount == Min({-left[from], left[to]})
           t == [from |-> from, to |-> to, amount |-> amount]
           new == PaysOne(acc, from, to, amount)
           left2 == new.left
           plan2 == new.plan
           open == Cardinality(Open(net))
<1>1. /\ left \in [S -> Int] /\ SumFunction(left) = 0 /\ plan \in Seq(Transfers(S))
      /\ \A p \in S : left[p] = net[p] + SumFunction(Effects(plan, p))
      /\ Open(left) = {} => Len(plan) <= IF Open(net) = {} THEN 0 ELSE open - 1
      /\ Open(left) # {} => /\ Len(plan) + Cardinality(Open(left)) <= open
                            /\ Cardinality(U \ {x}) <= Len(plan)
  BY DEF PlanInv
<1>2. DOMAIN net = S
  OBVIOUS
<1>3. Transferred(net, acc) = IF debtors = {} \/ creditors = {} THEN acc ELSE new
  BY <1>2 DEF Transferred
<1>o. open \in Nat /\ (Open(net) # {} => open > 0)
  BY OpenCounted
<1>u. IsFiniteSet(U) /\ Cardinality(U) = Cardinality(U \ {x}) + 1 /\ Cardinality(U \ {x}) \in Nat
  <2>1. IsFiniteSet(U) /\ IsFiniteSet(U \ {x})
    BY FS_Subset
  <2>2. Cardinality(U \ {x}) = Cardinality(U) - 1 /\ Cardinality(U) \in Nat /\ Cardinality(U \ {x}) \in Nat
    BY <2>1, FS_RemoveElement, FS_CardinalityType
  <2> QED BY <2>1, <2>2
<1>n. Len(plan) \in Nat
  BY <1>1
<1> HIDE DEF left, plan, open
<1>4. CASE Open(left) = {}
  <2>1. debtors = {}
    BY <1>1, <1>4 DEF Open
  <2>2. Transferred(net, acc) = acc
    BY <1>3, <2>1
  <2> QED BY <1>1, <1>4, <2>2 DEF PlanInv, left, plan, open
<1>5. CASE Open(left) # {}
  <2>1. debtors # {} /\ creditors # {}
    BY <1>1, <1>5, BothSides
  <2>2. Transferred(net, acc) = new
    BY <1>3, <2>1
  <2>3. from \in debtors /\ to \in creditors
    <3>1. debtors \in SUBSET S /\ creditors \in SUBSET S
      OBVIOUS
    <3> HIDE DEF debtors, creditors
    <3> QED BY <2>1, <3>1, BiggestIsThere
  <2>4. /\ from \in S /\ to \in S /\ from # to
        /\ left[from] \in Int /\ left[to] \in Int /\ left[from] < 0 /\ left[to] > 0
    <3> HIDE DEF from, to
    <3>1. left \in [S -> Int]
      BY <1>1
    <3>2. from \in S /\ left[from] < 0 /\ to \in S /\ left[to] > 0
      BY <2>3
    <3>3. left[from] \in Int /\ left[to] \in Int
      BY <3>1, <3>2
    <3> QED BY <3>2, <3>3
  <2>5. /\ left2 = [left EXCEPT ![from] = @ + amount, ![to] = @ - amount]
        /\ plan2 = Append(plan, t)
    BY DEF PaysOne, PaidOff, left, plan
  <2> HIDE DEF new, debtors, creditors, from, to, left2, plan2
  <2>6. /\ amount \in Nat \ {0} /\ amount <= -left[from] /\ amount <= left[to]
        /\ amount = -left[from] \/ amount = left[to]
    <3> DEFINE a == -left[from]
               b == left[to]
    <3>1. a \in Nat \ {0} /\ b \in Nat \ {0}
      BY <2>4
    <3> HIDE DEF a, b
    <3>2. \E m \in {a, b} : \A y \in {a, b} : m <= y
      BY <3>1
    <3>3. Min({a, b}) \in {a, b} /\ Min({a, b}) <= a /\ Min({a, b}) <= b
      BY <3>2 DEF Min
    <3>4. amount = Min({a, b})
      BY DEF a, b
    <3> HIDE DEF amount
    <3>5. amount \in {a, b} /\ amount <= a /\ amount <= b
      BY <3>3, <3>4
    <3> QED BY <3>1, <3>5 DEF a, b
  <2> HIDE DEF amount
  <2>7. /\ left2 \in [S -> Int]
        /\ left2[from] = left[from] + amount /\ left2[to] = left[to] - amount
        /\ \A p \in S \ {from, to} : left2[p] = left[p]
    <3>1. left \in [S -> Int] /\ amount \in Int
      BY <1>1, <2>6
    <3>2. \A p \in S : left2[p] = IF p = to THEN left[p] - amount
                                  ELSE IF p = from THEN left[p] + amount ELSE left[p]
      BY <2>4, <2>5, <3>1
    <3>3. DOMAIN left2 = S /\ left2 = [p \in S |-> left2[p]]
      BY <2>5, <3>1
    <3>4. \A p \in S : left2[p] \in Int
      BY <3>1, <3>2
    <3>5. left2 \in [S -> Int]
      BY <3>3, <3>4
    <3> QED BY <2>4, <3>2, <3>5
  <2>8. t \in Transfers(S) /\ t.from = from /\ t.to = to /\ t.amount = amount
    BY <2>4, <2>6 DEF Transfers
  <2> HIDE DEF t
  <2>9. SumFunction(left2) = 0
    <3> DEFINE mid == [left EXCEPT ![from] = @ + amount]
    <3>1. mid \in [S -> Int] /\ mid[from] = left[from] + amount /\ mid[to] = left[to]
          /\ (\A p \in S \ {from} : left[p] = mid[p])
          /\ (\A p \in S \ {to} : mid[p] = left2[p])
      BY <1>1, <2>4, <2>6, <2>7
    <3> HIDE DEF mid
    <3>2. SumFunction(mid) = SumFunction(left) - left[from] + mid[from]
      <4>1. from \in S /\ left \in [S -> Int]
        BY <1>1, <2>4
      <4>2. mid \in [S -> Int] /\ \A p \in S \ {from} : left[p] = mid[p]
        BY <3>1
      <4> QED BY <4>1, <4>2, SumChanges
    <3>3. SumFunction(left2) = SumFunction(mid) - mid[to] + left2[to]
      <4>1. to \in S /\ left2 \in [S -> Int]
        BY <2>4, <2>7
      <4>2. mid \in [S -> Int] /\ \A p \in S \ {to} : mid[p] = left2[p]
        BY <3>1
      <4> QED BY <4>1, <4>2, SumChanges
    <3> QED BY <1>1, <2>4, <2>6, <2>7, <3>1, <3>2, <3>3
  <2>10. plan2 \in Seq(Transfers(S)) /\ Len(plan2) = Len(plan) + 1
    BY <1>1, <2>5, <2>8, EffectsAdd
  <2>11. ASSUME NEW p \in S PROVE left2[p] = net[p] + SumFunction(Effects(plan2, p))
    <3>1. /\ SumFunction(Effects(plan2, p)) = SumFunction(Effects(plan, p)) + Effect(t, p)
          /\ SumFunction(Effects(plan, p)) \in Int
      BY <1>1, <2>5, <2>8, EffectsAdd
    <3>a. left2[p] \in Int /\ left[p] \in Int
      BY <1>1, <2>7
    <3>b. Effect(t, p) = IF p = from THEN amount ELSE IF p = to THEN -amount ELSE 0
      BY <2>8 DEF Effect
    <3>c. left2[p] = IF p = from THEN left[from] + amount ELSE IF p = to THEN left[to] - amount ELSE left[p]
      BY <2>4, <2>7
    <3>2. Effect(t, p) = left2[p] - left[p] /\ left2[p] \in Int /\ left[p] \in Int
      BY <2>4, <2>6, <3>a, <3>b, <3>c
    <3>3. left[p] = net[p] + SumFunction(Effects(plan, p)) /\ net[p] \in Int
      BY <1>1
    <3> QED BY <3>1, <3>2, <3>3
  <2>12. /\ Open(left2) \subseteq Open(left)
         /\ from \in Open(left) /\ to \in Open(left)
         /\ from \notin Open(left2) \/ to \notin Open(left2)
         /\ \A p \in Open(left) \ {from, to} : p \in Open(left2)
    <3>1. \A p : p \in Open(left) <=> p \in S /\ left[p] # 0
      BY <1>1 DEF Open
    <3>2. \A p : p \in Open(left2) <=> p \in S /\ left2[p] # 0
      BY <2>7 DEF Open
    <3>3. left2[from] = 0 \/ left2[to] = 0
      BY <2>4, <2>6, <2>7
    <3>4. left[from] # 0 /\ left[to] # 0
      BY <2>4
    <3> QED BY <2>4, <2>7, <3>1, <3>2, <3>3, <3>4
  <2>13. /\ IsFiniteSet(Open(left)) /\ Cardinality(Open(left)) \in Nat
         /\ IsFiniteSet(Open(left2)) /\ Cardinality(Open(left2)) \in Nat
    BY <1>1, <2>7, OpenCounted
  <2>14. Cardinality(Open(left2)) <= Cardinality(Open(left)) - 1
    <3>1. PICK z \in Open(left) : z \notin Open(left2)
      BY <2>12
    <3> DEFINE rest == Open(left) \ {z}
    <3>2. Open(left2) \subseteq rest /\ IsFiniteSet(rest) /\ Cardinality(rest) = Cardinality(Open(left)) - 1
      BY <2>12, <2>13, <3>1, FS_RemoveElement, FS_Subset
    <3> QED BY <3>2, FS_Subset
  <2>15. Open(left2) = {} => Cardinality(Open(left)) >= 2
    <3> SUFFICES ASSUME Open(left2) = {} PROVE Cardinality(Open(left)) >= 2
      OBVIOUS
    <3> DEFINE rest == Open(left) \ {from}
    <3>1. to \in rest /\ IsFiniteSet(rest) /\ Cardinality(rest) = Cardinality(Open(left)) - 1
      BY <2>4, <2>12, <2>13, FS_RemoveElement, FS_Subset
    <3> HIDE DEF rest
    <3>2. Cardinality(rest) # 0
      BY <3>1, FS_EmptySet
    <3>3. Cardinality(rest) \in Nat
      BY <3>1, FS_CardinalityType
    <3> QED BY <2>13, <3>1, <3>2, <3>3
  <2>16. Len(plan) + Cardinality(Open(left)) <= open /\ Cardinality(U \ {x}) <= Len(plan)
    BY <1>1, <1>5
  <2>17. Open(net) # {}
    <3> SUFFICES ASSUME Open(net) = {} PROVE FALSE
      OBVIOUS
    <3>1. open = 0
      BY FS_EmptySet DEF open
    <3>2. Cardinality(Open(left)) > 0
      BY <1>1, <1>5, OpenCounted
    <3> QED BY <1>n, <2>13, <2>16, <3>1, <3>2
  <2>18. Open(left2) = {} => Len(plan2) <= open - 1
    BY <1>n, <1>o, <2>10, <2>13, <2>15, <2>16
  <2>19. Open(left2) # {} => /\ Len(plan2) + Cardinality(Open(left2)) <= open
                            /\ Cardinality(U) <= Len(plan2)
    BY <1>n, <1>o, <1>u, <2>10, <2>13, <2>14, <2>16
  <2> QED BY <2>2, <2>7, <2>9, <2>10, <2>11, <2>17, <2>18, <2>19 DEF PlanInv, left2, plan2, open
<1> QED BY <1>4, <1>5

\* The plan, whole: it closes everybody, in fewer payments than there are people open.
LEMMA PlanCloses ==
    ASSUME NEW S \in SUBSET Nat, IsFiniteSet(S), NEW net \in [S -> Int], SumFunction(net) = 0
    PROVE  LET plan == SimplifyDebts(net)
           IN  /\ plan \in Seq(Transfers(S))
               /\ \A p \in S : net[p] + SumFunction(Effects(plan, p)) = 0
               /\ Len(plan) <= IF Open(net) = {} THEN 0 ELSE Cardinality(Open(net)) - 1
<1> DEFINE plan == SimplifyDebts(net)
<1>1. PICK g : Plans(net, SUBSET S, g) /\ plan = g[S].plan
  BY PlanIs
<1> HIDE DEF plan
<1> DEFINE Good == {U \in SUBSET S : PlanInv(S, net, U, g[U])}
<1>2. ASSUME NEW U \in SUBSET S, \A x \in U : U \ {x} \in Good PROVE U \in Good
  <2>1. CASE U = {}
    <3> DEFINE acc == Unpaid(net)
    <3>1. g[U] = acc
      BY <1>1, <2>1 DEF Plans
    <3>2. acc.left = net /\ acc.plan = <<>>
      BY DEF Unpaid
    <3> HIDE DEF acc
    <3>3. acc.plan \in Seq(Transfers(S)) /\ Len(acc.plan) = 0
      BY <3>2
    <3>4. ASSUME NEW p \in S PROVE acc.left[p] = net[p] + SumFunction(Effects(acc.plan, p))
      <4>1. DOMAIN Effects(acc.plan, p) = {}
        BY <3>2 DEF Effects
      <4>2. SumFunction(Effects(acc.plan, p)) = 0
        BY <4>1, SumEmpty
      <4> QED BY <3>2, <4>2
    <3>5. Cardinality(U) = 0
      BY <2>1, FS_EmptySet
    <3>6. Cardinality(Open(net)) \in Nat
      BY OpenCounted
    <3>7. PlanInv(S, net, U, acc)
      BY <3>2, <3>3, <3>4, <3>5, <3>6 DEF PlanInv
    <3> QED BY <3>1, <3>7
  <2>2. CASE U # {}
    <3> DEFINE x == Chosen(U)
    <3>1. x \in U
      BY <2>2 DEF Chosen
    <3>2. g[U] = Transferred(net, g[U \ {x}])
      BY <1>1, <2>2 DEF Plans
    <3> HIDE DEF x
    <3>3. PlanInv(S, net, U \ {x}, g[U \ {x}])
      BY <1>2, <3>1
    <3>4. PlanInv(S, net, U, Transferred(net, g[U \ {x}]))
      BY <3>1, <3>3, TransferStep
    <3> QED BY <3>2, <3>4
  <2> QED BY <2>1, <2>2
<1> HIDE DEF Good
<1>3. SUBSET S \subseteq Good
  BY <1>2, SubsetInduction
<1> DEFINE left == g[S].left
<1>4. /\ left \in [S -> Int] /\ plan \in Seq(Transfers(S))
      /\ \A p \in S : left[p] = net[p] + SumFunction(Effects(plan, p))
      /\ Open(left) = {} => Len(plan) <= IF Open(net) = {} THEN 0 ELSE Cardinality(Open(net)) - 1
      /\ Open(left) # {} => /\ Len(plan) + Cardinality(Open(left)) <= Cardinality(Open(net))
                            /\ Cardinality(S) <= Len(plan)
  <2>1. PlanInv(S, net, S, g[S])
    BY <1>3 DEF Good
  <2> QED BY <1>1, <2>1 DEF PlanInv
<1> HIDE DEF left
<1>5. Open(left) = {}
  <2>1. Cardinality(Open(net)) <= Cardinality(S) /\ Cardinality(S) \in Nat /\ Cardinality(Open(net)) \in Nat
    BY OpenCounted
  <2>2. Cardinality(Open(left)) \in Nat /\ (Open(left) # {} => Cardinality(Open(left)) > 0)
    BY <1>4, OpenCounted
  <2>3. Len(plan) \in Nat
    BY <1>4
  <2> QED BY <1>4, <2>1, <2>2, <2>3
<1>6. \A p \in S : left[p] = 0
  BY <1>4, <1>5 DEF Open
<1> QED BY <1>4, <1>5, <1>6 DEF plan

\* What everybody has after some payments of a plan, taken the last first.
PaidBy(s, t) == Together(s, PaymentSheet(Party, t.from, t.to, t.amount))
Afters(s, plan, T, g) ==
    g = [U \in T |-> IF U = {} THEN s ELSE PaidBy(g[U \ {Max(U)}], plan[Max(U)])]

LEMMA AftersExist ==
    ASSUME NEW S \in SUBSET Nat, IsFiniteSet(S), NEW s, NEW plan
    PROVE  \E g : Afters(s, plan, SUBSET S, g)
<1> DEFINE R(T, g) == Afters(s, plan, T, g)
           B == {n \in Nat : \E g : R(UpTo(S, n), g)}
           Then(g, U) == PaidBy(g[U \ {Max(U)}], plan[Max(U)])
<1>1. 0 \in B
  <2>1. R({{}}, [U \in {{}} |-> s])
    BY DEF Afters
  <2>2. UpTo(S, 0) = {{}}
    BY SubsetsCounted
  <2> QED BY <2>1, <2>2
<1>2. ASSUME NEW n \in B PROVE n + 1 \in B
  <2>1. PICK g : R(UpTo(S, n), g)
    OBVIOUS
  <2> DEFINE h == [U \in UpTo(S, n + 1) |-> IF U = {} THEN s ELSE Then(g, U)]
  <2>2. ASSUME NEW U \in UpTo(S, n + 1), U # {}
        PROVE  U \ {Max(U)} \in UpTo(S, n) \cap UpTo(S, n + 1)
    <3>1. Max(U) \in U
      BY <2>2, LastIsThere DEF UpTo
    <3>2. U \ {Max(U)} \in UpTo(S, n)
      BY <3>1, SubsetsCounted
    <3> QED BY <3>2, SubsetsCounted DEF UpTo
  <2>3. ASSUME NEW U \in UpTo(S, n) \cap UpTo(S, n + 1) PROVE g[U] = h[U]
    BY <2>1 DEF Afters
  <2>4. h = [U \in UpTo(S, n + 1) |-> IF U = {} THEN s ELSE Then(h, U)]
    BY <2>2, <2>3
  <2>5. R(UpTo(S, n + 1), h)
    BY <2>4 DEF Afters
  <2> QED BY <2>5
<1>3. B = Nat
  BY <1>1, <1>2, NatSetInduction
<1>4. Cardinality(S) \in B
  BY <1>3, SubsetsCounted
<1>5. PICK g : R(UpTo(S, Cardinality(S)), g)
  BY <1>4
<1>6. UpTo(S, Cardinality(S)) = SUBSET S
  BY SubsetsCounted
<1> QED BY <1>5, <1>6

LEMMA EndIs ==
    ASSUME NEW s, NEW plan, DOMAIN plan \in SUBSET Nat, IsFiniteSet(DOMAIN plan)
    PROVE  LET After(b, t) == Together(b, PaymentSheet(Party, t.from, t.to, t.amount))
           IN  \E g : /\ Afters(s, plan, SUBSET (DOMAIN plan), g)
                      /\ FoldLeft(After, s, plan) = g[DOMAIN plan]
<1> DEFINE After(b, t) == Together(b, PaymentSheet(Party, t.from, t.to, t.amount))
           g == CHOOSE g : Afters(s, plan, SUBSET (DOMAIN plan), g)
<1>1. Afters(s, plan, SUBSET (DOMAIN plan), g)
  BY AftersExist
<1>2. FoldLeft(After, s, plan) = g[DOMAIN plan]
  BY DEF FoldLeft, MapThenFoldSet, Afters, PaidBy
<1> QED BY <1>1, <1>2

LEMMA PaidByOne ==
    ASSUME NEW b, b.net \in [Party -> Int], NEW t \in Transfers(Party)
    PROVE  PaidBy(b, t).net = [p \in Party |-> b.net[p] + Effect(t, p)]
<1> DEFINE m == PaymentSheet(Party, t.from, t.to, t.amount)
           n == m.net
<1>1. t.from \in Party /\ t.to \in Party /\ t.from # t.to /\ t.amount \in Nat
  BY DEF Transfers
<1>2. n = [None(Party) EXCEPT ![t.from] = t.amount, ![t.to] = -t.amount]
  BY DEF PaymentSheet
<1>3. DOMAIN n = Party /\ \A p \in Party : n[p] = Effect(t, p)
  BY <1>1, <1>2 DEF None, Effect
<1>4. PaidBy(b, t).net = Added(b.net, n)
  BY DEF PaidBy, Together
<1> HIDE DEF n
<1> QED BY <1>3, <1>4 DEF Added

\* After a plan, everybody has what its payments come to for them.
LEMMA EndAddsUp ==
    ASSUME NEW s, s.net \in [Party -> Int], NEW plan \in Seq(Transfers(Party)),
           NEW g, Afters(s, plan, SUBSET (DOMAIN plan), g)
    PROVE  g[DOMAIN plan].net = [p \in Party |-> s.net[p] + SumFunction(Effects(plan, p))]
<1> DEFINE D == DOMAIN plan
           Due(U, p) == SumFunction(On(Effects(plan, p), U))
           Good == {U \in SUBSET D : g[U].net = [p \in Party |-> s.net[p] + Due(U, p)]}
<1>1. D \in SUBSET Nat /\ IsFiniteSet(D) /\ plan \in [D -> Transfers(Party)]
  BY LinesAre
<1>2. \A t \in Transfers(Party), p \in Party : Effect(t, p) \in Int
  BY DEF Transfers, Effect
<1>3. \A p \in Party : Effects(plan, p) \in [D -> Int]
  <2> TAKE p \in Party
  <2>1. Effects(plan, p) = [i \in D |-> Effect(plan[i], p)]
    BY DEF Effects
  <2>2. \A i \in D : Effect(plan[i], p) \in Int
    BY <1>1, <1>2
  <2> HIDE DEF D
  <2> QED BY <2>1, <2>2
<1> HIDE DEF D
<1>4. ASSUME NEW U \in SUBSET D, NEW p \in Party PROVE Due(U, p) \in Int
  <2>1. On(Effects(plan, p), U) \in [U -> Int] /\ IsFiniteSet(U)
    BY <1>1, <1>3, FS_Subset DEF On
  <2> QED BY <2>1, SumType
<1>5. ASSUME NEW U \in SUBSET D, \A x \in U : U \ {x} \in Good PROVE U \in Good
  <2>1. CASE U = {}
    <3>1. g[U] = s
      BY <2>1 DEF Afters, D
    <3>2. ASSUME NEW p \in Party PROVE s.net[p] = s.net[p] + Due(U, p)
      <4>1. DOMAIN On(Effects(plan, p), U) = {}
        BY <2>1 DEF On
      <4>2. Due(U, p) = 0
        BY <4>1, SumEmpty
      <4> QED BY <4>2
    <3> HIDE DEF Due
    <3>3. s.net = [p \in Party |-> s.net[p] + Due(U, p)]
      BY <3>2
    <3> QED BY <3>1, <3>3
  <2>2. CASE U # {}
    <3> DEFINE x == Max(U)
               b == g[U \ {x}]
    <3>1. x \in U
      BY <1>1, <2>2, LastIsThere
    <3>2. g[U] = PaidBy(b, plan[x])
      BY <2>2 DEF Afters, D
    <3> HIDE DEF x
    <3>3. b.net = [p \in Party |-> s.net[p] + Due(U \ {x}, p)]
      BY <1>5, <3>1
    <3>4. plan[x] \in Transfers(Party)
      BY <1>1, <3>1
    <3>5. \A p \in Party : Due(U \ {x}, p) \in Int /\ Due(U, p) \in Int
      <4>1. U \ {x} \in SUBSET D
        OBVIOUS
      <4> HIDE DEF Due
      <4> QED BY <1>4, <4>1
    <3>6. ASSUME NEW p \in Party PROVE Due(U, p) = Due(U \ {x}, p) + Effect(plan[x], p)
      <4> DEFINE f == On(Effects(plan, p), U)
      <4>1. f \in [U -> Int] /\ IsFiniteSet(U)
        BY <1>1, <1>3, FS_Subset DEF On
      <4>2. AllBut(f, x) = On(Effects(plan, p), U \ {x})
        BY DEF AllBut, On
      <4>3. f[x] = Effect(plan[x], p)
        BY <3>1 DEF On, Effects, D
      <4> HIDE DEF f
      <4>4. SumFunction(f) = f[x] + SumFunction(AllBut(f, x))
        BY <3>1, <4>1, SumTakes
      <4>5. Due(U, p) = Effect(plan[x], p) + Due(U \ {x}, p)
        BY <4>2, <4>3, <4>4 DEF f
      <4>6. Effect(plan[x], p) \in Int
        BY <1>2, <3>4
      <4> DEFINE now == Due(U, p)
                 due == Due(U \ {x}, p)
                 e == Effect(plan[x], p)
      <4>7. due \in Int /\ e \in Int /\ now = e + due
        BY <3>5, <4>5, <4>6
      <4> HIDE DEF now, due, e
      <4>8. now = due + e
        BY <4>7
      <4> QED BY <4>8 DEF now, due, e
    <3> HIDE DEF b, Due
    <3>a. \A p \in Party : s.net[p] \in Int
      OBVIOUS
    <3>b. \A p \in Party : s.net[p] + Due(U \ {x}, p) \in Int
      <4> TAKE p \in Party
      <4> DEFINE due == Due(U \ {x}, p)
                 n == s.net[p]
      <4>1. due \in Int /\ n \in Int
        BY <3>5, <3>a
      <4> HIDE DEF due, n
      <4>2. n + due \in Int
        BY <4>1
      <4> QED BY <4>2 DEF n, due
    <3>7. b.net \in [Party -> Int]
      BY <3>3, <3>b
    <3>8. PaidBy(b, plan[x]).net = [p \in Party |-> b.net[p] + Effect(plan[x], p)]
      BY <3>4, <3>7, PaidByOne
    <3>9. ASSUME NEW p \in Party PROVE b.net[p] + Effect(plan[x], p) = s.net[p] + Due(U, p)
      <4>1. Effect(plan[x], p) \in Int
        BY <1>2, <3>4
      <4>2. b.net[p] = s.net[p] + Due(U \ {x}, p)
        BY <3>3
      <4>3. Due(U, p) = Due(U \ {x}, p) + Effect(plan[x], p)
        BY <3>6
      <4>4. Due(U \ {x}, p) \in Int /\ s.net[p] \in Int
        BY <3>5, <3>a
      <4> DEFINE due == Due(U \ {x}, p)
                 e == Effect(plan[x], p)
                 n == s.net[p]
      <4>5. due \in Int /\ e \in Int /\ n \in Int /\ b.net[p] = n + due /\ Due(U, p) = due + e
        BY <4>1, <4>2, <4>3, <4>4
      <4> HIDE DEF due, e, n
      <4>6. b.net[p] + e = n + Due(U, p)
        BY <4>5
      <4> QED BY <4>6 DEF e, n
    <3>10. g[U].net = [p \in Party |-> s.net[p] + Due(U, p)]
      BY <3>2, <3>8, <3>9
    <3> QED BY <3>10
  <2> QED BY <2>1, <2>2
<1> HIDE DEF Good
<1>6. SUBSET D \subseteq Good
  BY <1>1, <1>5, SubsetInduction
<1>7. g[D].net = [p \in Party |-> s.net[p] + Due(D, p)]
  BY <1>6 DEF Good
<1>8. \A p \in Party : Due(D, p) = SumFunction(Effects(plan, p))
  <2> TAKE p \in Party
  <2>1. On(Effects(plan, p), D) = Effects(plan, p)
    BY <1>3 DEF On
  <2> QED BY <2>1
<1> HIDE DEF Due
<1> QED BY <1>7, <1>8 DEF D

\* Who pays as the plan says settles every debt, in fewer payments than there are people
\* open, for any bills in any mode and any payments before (simplifyDebts, balances.ts).
THEOREM PlanSettlesUp == ComposerSpec => []SettlesUp
<1> DEFINE Inv == FormTyped /\ Agrees(sheet)
<1>1. ComposerInit => Inv
  BY StartAgrees
<1>2. Inv /\ [ComposerNext]_composerVars => Inv'
  BY StepAgrees
<1>3. Inv => SettlesUp
  <2> SUFFICES ASSUME Inv PROVE SettlesUp
    OBVIOUS
  <2> DEFINE net == sheet.net
             plan == SimplifyDebts(net)
             After(b, t) == Together(b, PaymentSheet(Party, t.from, t.to, t.amount))
             ended == FoldLeft(After, sheet, plan)
             open == {p \in Party : net[p] # 0}
  <2>1. net \in [Party -> Int] /\ SumFunction(net) = 0
    BY DEF Agrees
  <2>2. Party \in SUBSET Nat /\ IsFiniteSet(Party)
    BY PartyFinite
  <2> HIDE DEF net
  <2>3. /\ plan \in Seq(Transfers(Party))
        /\ \A p \in Party : net[p] + SumFunction(Effects(plan, p)) = 0
        /\ Len(plan) <= IF Open(net) = {} THEN 0 ELSE Cardinality(Open(net)) - 1
    BY <2>1, <2>2, PlanCloses
  <2> HIDE DEF plan
  <2>4. Open(net) = open
    BY <2>1 DEF Open
  <2>5. DOMAIN plan \in SUBSET Nat /\ IsFiniteSet(DOMAIN plan)
    BY <2>3, LinesAre
  <2>6. PICK g : Afters(sheet, plan, SUBSET (DOMAIN plan), g) /\ ended = g[DOMAIN plan]
    BY <2>5, EndIs
  <2>7. ended.net = [p \in Party |-> sheet.net[p] + SumFunction(Effects(plan, p))]
    <3>1. sheet.net \in [Party -> Int]
      BY <2>1 DEF net
    <3>2. g[DOMAIN plan].net = [p \in Party |-> sheet.net[p] + SumFunction(Effects(plan, p))]
      <4>1. plan \in Seq(Transfers(Party))
        BY <2>3
      <4>2. Afters(sheet, plan, SUBSET (DOMAIN plan), g)
        BY <2>6
      <4> QED BY <3>1, <4>1, <4>2, EndAddsUp
    <3> QED BY <2>6, <3>2
  <2> HIDE DEF ended
  <2>8. ended.net = None(Party)
    BY <2>3, <2>7 DEF None, net
  <2> HIDE DEF open
  <2>9. Len(plan) <= IF open = {} THEN 0 ELSE Cardinality(open) - 1
    BY <2>3, <2>4
  <2> QED BY <2>8, <2>9 DEF SettlesUp, net, plan, ended, open
<1> QED BY <1>1, <1>2, <1>3, PTL DEF ComposerSpec

-----------------------------------------------------------------------------
(* A debt paid in another currency.                                        *)

LEMMA TensAre ==
    TenTo \in [Nat -> Nat \ {0}] /\ TenTo[0] = 1 /\ \A n \in Nat : TenTo[n + 1] = 10 * TenTo[n]
<1> DEFINE V == Nat \ {0}
           h == [n \in Nat |-> [v \in V |-> 10 * v]]
           Tens(f) == f = [n \in Nat |-> IF n = 0 THEN 1 ELSE 10 * f[n - 1]]
<1>1. \E f : Tens(f)
  <2>1. h \in [Nat -> [V -> V]] /\ 1 \in V /\ \A n \in Nat, v \in V : h[n + 1][v] = 10 * v
    OBVIOUS
  <2> HIDE DEF h, V
  <2>2. PICK f \in [Nat -> V] : f[0] = 1 /\ \A n \in Nat : f[n + 1] = h[n + 1][f[n]]
    BY <2>1, RecursionExists
  <2>3. ASSUME NEW n \in Nat PROVE f[n] = IF n = 0 THEN 1 ELSE 10 * f[n - 1]
    <3>1. CASE n = 0
      BY <2>2, <3>1
    <3>2. CASE n # 0
      <4>1. n - 1 \in Nat /\ (n - 1) + 1 = n
        BY <3>2
      <4>2. f[n - 1] \in V /\ f[n] = h[n][f[n - 1]] /\ h[n][f[n - 1]] = 10 * f[n - 1]
        BY <2>1, <2>2, <4>1
      <4> QED
        BY <3>2, <4>2
    <3> QED
      BY <3>1, <3>2
  <2>4. Tens(f)
    BY <2>2, <2>3
  <2> QED
    BY <2>4
<1>2. TenTo = CHOOSE f : Tens(f)
  BY DEF TenTo
<1>3. Tens(TenTo)
  BY <1>1, <1>2
<1> DEFINE T == TenTo
<1>4. T = [n \in Nat |-> IF n = 0 THEN 1 ELSE 10 * T[n - 1]]
  BY <1>3
<1> HIDE DEF T, Tens
<1>5. T[0] = 1 /\ \A n \in Nat : T[n + 1] = 10 * T[n]
  <2>1. \A n \in Nat : T[n] = IF n = 0 THEN 1 ELSE 10 * T[n - 1]
    BY <1>4
  <2>2. \A n \in Nat : n + 1 \in Nat /\ n + 1 # 0 /\ (n + 1) - 1 = n
    OBVIOUS
  <2> QED
    BY <2>1, <2>2
<1>6. \A n \in Nat : T[n] \in V
  <2> DEFINE B == {n \in Nat : T[n] \in V}
  <2>1. 0 \in B
    BY <1>5
  <2>2. ASSUME NEW n \in B PROVE n + 1 \in B
    BY <1>5
  <2>3. B \in SUBSET Nat
    OBVIOUS
  <2> HIDE DEF B
  <2>4. B = Nat
    BY <2>1, <2>2, <2>3, NatSetInduction
  <2> QED
    BY <2>4 DEF B
<1>7. T \in [Nat -> V]
  BY <1>4, <1>6
<1> QED
  BY <1>5, <1>7 DEF T

LEMMA DivIs ==
    ASSUME NEW a \in Nat, NEW b \in Nat \ {0}, NEW q \in Nat, b * q <= a, a < b * q + b
    PROVE  a \div b = q
<1> DEFINE d == a \div b
           r == a % b
<1>1. d \in Nat /\ r \in 0..(b - 1) /\ a = b * d + r
  BY Divided
<1> HIDE DEF d, r
<1>2. ASSUME d <= q - 1 PROVE FALSE
  <2>1. b * d <= b * (q - 1)
    BY <1>1, <1>2
  <2>2. b * (q - 1) = b * q - b
    OBVIOUS
  <2>3. b * q \in Int /\ b * d \in Int
    BY <1>1
  <2> QED
    BY <1>1, <2>1, <2>2, <2>3
<1>3. ASSUME d >= q + 1 PROVE FALSE
  <2>1. b * d >= b * (q + 1)
    BY <1>1, <1>3
  <2>2. b * (q + 1) = b * q + b
    OBVIOUS
  <2>3. b * q \in Int /\ b * d \in Int
    BY <1>1
  <2> QED
    BY <1>1, <2>1, <2>2, <2>3
<1> QED
  BY <1>1, <1>2, <1>3 DEF d

\* Rounded half up, a fraction is half a unit off at most.
LEMMA Rounded ==
    ASSUME NEW n \in Nat, NEW d \in Nat \ {0}
    PROVE  LET s == (n + d \div 2) \div d
           IN  s \in Nat /\ d * s \in Nat /\ 2 * (d * s - n) <= d /\ 2 * (n - d * s) <= d
<1> DEFINE h == d \div 2
           s == (n + h) \div d
           r == (n + h) % d
           m == d * s
<1>1. h \in Nat /\ 2 * h <= d /\ d <= 2 * h + 1
  OBVIOUS
<1> HIDE DEF h
<1>2. n + h \in Nat
  BY <1>1
<1>3. s \in Nat /\ r \in 0..(d - 1) /\ n + h = d * s + r
  BY <1>2, Divided
<1> HIDE DEF s, r
<1>4. m \in Nat
  BY <1>3, Multiplied
<1>5. n + h = m + r
  BY <1>3
<1> HIDE DEF m
<1>6. 2 * (m - n) <= d /\ 2 * (n - m) <= d
  BY <1>1, <1>3, <1>4, <1>5
<1> QED
  BY <1>3, <1>4, <1>6 DEF s, h, m

\* There is room for the places an amount needs.
LEMMA PlacesSuffice ==
    ASSUME NEW size \in Nat, size < TenTo[MostPlaces]
    PROVE  Places(size) \in Nat /\ TenTo[Places(size)] \in Nat \ {0} /\ size < TenTo[Places(size)]
<1> DEFINE P == {p \in FewestPlaces..MostPlaces : 10 * size < TenTo[p]}
           A == {MostPlaces} \cup P
           x == Min(A)
<1>1. FewestPlaces \in Nat /\ MostPlaces \in Nat
  BY FiguresAssumption
<1>2. IsFiniteSet(FewestPlaces..MostPlaces) /\ FewestPlaces..MostPlaces \in SUBSET Nat
  BY <1>1, FS_Interval
<1>3. P \in SUBSET (FewestPlaces..MostPlaces)
  OBVIOUS
<1>4. A \in SUBSET Nat /\ IsFiniteSet(A)
  <2>1. IsFiniteSet(P) /\ P \in SUBSET Nat
    BY <1>2, <1>3, FS_Subset
  <2>2. A = P \cup {MostPlaces}
    OBVIOUS
  <2> HIDE DEF P, A
  <2>3. IsFiniteSet(P \cup {MostPlaces})
    BY <2>1, FS_AddElement
  <2> QED
    BY <1>1, <2>1, <2>2, <2>3
<1>5. \A p \in A : size < TenTo[p]
  <2>1. \A p \in P : 10 * size < TenTo[p] /\ TenTo[p] \in Nat
    BY <1>2, TensAre
  <2>2. \A p \in P : size < TenTo[p]
    BY <2>1
  <2> QED
    BY <2>2
<1>6. MostPlaces \in A
  OBVIOUS
<1> HIDE DEF A, P
<1>7. x \in A
  <2> DEFINE B == {yz \in A \X A : yz[1] < yz[2]}
  <2>1. \A y, z \in A : <<y, z>> \in B <=> y < z
    OBVIOUS
  <2> HIDE DEF B
  <2>2. Orders(B, A)
    BY <1>4, <2>1 DEF Orders
  <2>3. IsFiniteSet(A)
    BY <1>4
  <2>4. A \in SUBSET A
    OBVIOUS
  <2>5. A # {}
    BY <1>6
  <2>6. \E y \in A : \A z \in A \ {y} : <<y, z>> \in B
    BY <2>2, <2>3, <2>4, <2>5, OneComesFirst
  <2>7. PICK y \in A : \A z \in A \ {y} : <<y, z>> \in B
    BY <2>6
  <2>8. ASSUME NEW z \in A PROVE y <= z
    <3>1. y \in Nat /\ z \in Nat
      BY <1>4
    <3>2. CASE z # y
      <4>1. y < z
        BY <2>1, <2>7, <3>2
      <4> QED
        BY <3>1, <4>1
    <3> QED
      BY <3>1, <3>2
  <2> QED
    BY <2>7, <2>8 DEF Min
<1>8. Places(size) = x
  BY DEF Places, A, P
<1> HIDE DEF x
<1> QED
  BY <1>4, <1>5, <1>7, <1>8, TensAre

\* As many decimal places as the rates may have are enough for any payment (exactRate
\* takes up to 24 of them, for amounts of 64 bits and at most a thousand of them in a unit).
PlacesEnough == \A paid \in Pays, scale \in Scales : paid * scale < TenTo[MostPlaces]

LEMMA ExactlyPaid ==
    ASSUME NEW owed \in Nat \ {0}, NEW owedScale \in Nat \ {0}, NEW paid \in Nat \ {0},
           NEW paidScale \in Nat \ {0}, paid * owedScale < TenTo[MostPlaces]
    PROVE  Convert(paid, paidScale, owedScale, ExactRate(owed, owedScale, paid, paidScale)) = owed
<1> DEFINE d == paid * owedScale
           rate == ExactRate(owed, owedScale, paid, paidScale)
           T == TenTo[Places(d)]
           den == paidScale * T
           n == owed * paidScale * T
           s == (n + d \div 2) \div d
           m == d * s
           top == 2 * paid * s * owedScale + den
<1>1. d \in Nat \ {0}
  OBVIOUS
<1>2. T \in Nat \ {0} /\ d < T
  <2>1. d < TenTo[MostPlaces] /\ d \in Nat
    OBVIOUS
  <2> HIDE DEF d
  <2> QED
    BY <2>1, PlacesSuffice
<1>3. rate.places = Places(d) /\ rate.scaled = s
  BY DEF ExactRate
<1> HIDE DEF T, rate
<1>4. den \in Nat \ {0} /\ T <= den /\ n \in Nat /\ n = owed * den
  <2>1. den \in Nat \ {0} /\ T <= den
    BY <1>2
  <2>2. n = owed * den /\ n \in Nat
    <3>1. owed * (paidScale * T) = (owed * paidScale) * T
      BY <1>2
    <3>2. owed * den \in Nat
      BY <2>1, Multiplied
    <3> QED
      BY <3>1, <3>2
  <2> QED
    BY <2>1, <2>2
<1> HIDE DEF n
<1>5. s \in Nat /\ m \in Nat /\ 2 * (m - n) <= d /\ 2 * (n - m) <= d
  <2> HIDE DEF d
  <2> QED
    BY <1>1, <1>4, Rounded
<1>6. owed * den >= den
  BY <1>4
<1> HIDE DEF den
<1>7. s > 0
  <2> SUFFICES ASSUME s = 0 PROVE FALSE
    BY <1>5
  <2>1. m = 0
    BY <1>1
  <2> HIDE DEF m, s, d
  <2>2. 2 * n <= d
    BY <1>4, <1>5, <2>1
  <2>3. n >= den
    BY <1>4, <1>6
  <2> QED
    BY <1>1, <1>2, <1>4, <2>2, <2>3
<1>8. top = 2 * m + den
  <2>1. 2 * paid * s * owedScale = 2 * (paid * owedScale * s)
    <3> HIDE DEF s
    <3> QED
      BY <1>5
  <2> QED
    BY <2>1
<1> HIDE DEF s
<1>9. Convert(paid, paidScale, owedScale, rate) = top \div (2 * den)
  <2>1. ~(rate.scaled <= 0) /\ rate.scaled > 0
    BY <1>3, <1>5, <1>7
  <2> QED
    BY <1>3, <2>1 DEF Convert, den, T
<1> HIDE DEF m, d, top
<1>10. /\ top \in Nat /\ 2 * den \in Nat \ {0}
       /\ (2 * den) * owed <= top /\ top < (2 * den) * owed + 2 * den
  <2>1. (2 * den) * owed = 2 * n
    <3>1. (2 * den) * owed = 2 * (owed * den)
      BY <1>4
    <3> QED
      BY <1>4, <3>1
  <2> QED
    BY <1>1, <1>2, <1>4, <1>5, <1>8, <2>1
<1>11. top \div (2 * den) = owed
  <2> DEFINE two == 2 * den
  <2>1. two \in Nat \ {0} /\ two * owed <= top /\ top < two * owed + two
    BY <1>10
  <2> HIDE DEF two
  <2>2. top \div two = owed
    BY <1>10, <2>1, DivIs
  <2> QED
    BY <2>2 DEF two
<1> QED
  BY <1>9, <1>11 DEF rate

\* A payment of the whole debt in another currency takes off all of it and no more, for
\* any amounts and currencies the places of a rate are enough for (exactRate, money.ts).
THEOREM RateIsExact == ASSUME PlacesEnough PROVE ComposerSpec => []ExactRatePays
<1>1. ComposerInit => ExactRatePays
  BY DEF ComposerInit, NoQuote, ExactRatePays
<1>2. ExactRatePays /\ [ComposerNext]_composerVars => ExactRatePays'
  <2> SUFFICES ASSUME ExactRatePays, [ComposerNext]_composerVars PROVE ExactRatePays'
    OBVIOUS
  <2>1. CASE QuoteRate
    <3>1. PICK owed \in Owes, paid \in Pays, owedScale \in Scales, paidScale \in Scales :
             quote' = [owed |-> owed,
                       credited |-> Convert(paid, paidScale, owedScale,
                                            ExactRate(owed, owedScale, paid, paidScale))]
      BY <2>1 DEF QuoteRate
    <3>2. /\ owed \in Nat \ {0} /\ paid \in Nat \ {0}
          /\ owedScale \in Nat \ {0} /\ paidScale \in Nat \ {0}
      BY ComposerAssumption
    <3>3. paid * owedScale < TenTo[MostPlaces]
      BY DEF PlacesEnough
    <3>4. Convert(paid, paidScale, owedScale, ExactRate(owed, owedScale, paid, paidScale)) = owed
      BY <3>2, <3>3, ExactlyPaid
    <3> QED
      BY <3>1, <3>4 DEF ExactRatePays
  <2>2. CASE UNCHANGED quote
    BY <2>2 DEF ExactRatePays
  <2>3. QuoteRate \/ UNCHANGED quote
    BY DEF ComposerNext, Compose, FileBill, PostPayment, composerVars
  <2> QED
    BY <2>1, <2>2, <2>3
<1> QED
  BY <1>1, <1>2, PTL DEF ComposerSpec
===============================================================================
