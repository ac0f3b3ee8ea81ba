--------------------------- MODULE TotalsTheorems ---------------------------
(***************************************************************************)
(* What a posting does to a total, and other facts about finitely many     *)
(* amounts.                                                                *)
(***************************************************************************)
EXTENDS Totals, Functions, FiniteSetTheorems, TLAPS

\* One amount m contributes m cents.
LEMMA CentsOfOne ==
  ASSUME NEW x, NEW m \in Nat
  PROVE  /\ IsFiniteSet({x} \X (1 .. m))
         /\ Cardinality({x} \X (1 .. m)) = m
<1>1. IsFiniteSet({x}) /\ Cardinality({x}) = 1
  BY FS_Singleton
<1>2. IsFiniteSet(1 .. m) /\ Cardinality(1 .. m) = m
  <2>1. IsFiniteSet(1 .. m)
    BY FS_Interval
  <2>2. Cardinality(1 .. m) = IF 1 > m THEN 0 ELSE m - 1 + 1
    BY FS_Interval
  <2>3. QED
    BY <2>1, <2>2
<1>3. /\ IsFiniteSet({x} \X (1 .. m))
      /\ Cardinality({x} \X (1 .. m)) = Cardinality({x}) * Cardinality(1 .. m)
  BY <1>1, <1>2, FS_Product
<1>4. QED
  BY <1>1, <1>2, <1>3

\* The cents of finitely many amounts are finitely many.
LEMMA CentsFinite ==
  ASSUME NEW S, IsFiniteSet(S), NEW f \in [S -> Nat], NEW T \in SUBSET S
  PROVE  IsFiniteSet(Cents(f, T))
<1> DEFINE Own == [x \in T |-> {x} \X (1 .. f[x])]
<1>1. IsFiniteSet(T)
  BY FS_Subset
<1>2. IsFiniteSet({Own[x] : x \in T})
  <2>1. Own \in Surjection(T, {Own[x] : x \in T})
    BY DEF Surjection
  <2>2. QED
    BY <1>1, <2>1, FS_Surjection
<1>3. ASSUME NEW x \in T
      PROVE  IsFiniteSet(Own[x])
  <2>1. f[x] \in Nat
    OBVIOUS
  <2>2. IsFiniteSet({x} \X (1 .. f[x]))
    BY <2>1, CentsOfOne
  <2>3. QED
    BY <2>2
<1>4. \A U \in {Own[x] : x \in T} : IsFiniteSet(U)
  BY <1>3
<1>5. IsFiniteSet(UNION {Own[x] : x \in T})
  BY <1>2, <1>4, FS_UNION
<1>6. UNION {Own[x] : x \in T} = Cents(f, T)
  BY DEF Cents
<1>7. QED
  BY <1>5, <1>6

\* A total splits into one amount and the total of the others.
LEMMA TotalSplit ==
  ASSUME NEW S, IsFiniteSet(S), NEW f \in [S -> Nat], NEW x \in S
  PROVE  /\ Total(f, S \ {x}) \in Nat
         /\ Total(f, S) = Total(f, S \ {x}) + f[x]
<1> DEFINE Own  == {x} \X (1 .. f[x])
           Rest == Cents(f, S \ {x})
<1>1. IsFiniteSet(Own) /\ Cardinality(Own) = f[x]
  BY CentsOfOne
<1>2. IsFiniteSet(Rest)
  BY CentsFinite
<1>3. Rest \cap Own = {}
  BY DEF Cents
<1>4. Cents(f, S) = Rest \cup Own
  BY DEF Cents
<1>5. Cardinality(Rest) \in Nat
  BY <1>2, FS_CardinalityType
<1> HIDE DEF Own, Rest
<1>6. Cardinality(Rest \cup Own)
        = Cardinality(Rest) + Cardinality(Own) - Cardinality(Rest \cap Own)
  BY <1>1, <1>2, FS_Union
<1>7. Cardinality(Rest \cap Own) = 0
  BY <1>3, FS_EmptySet
<1>8. QED
  BY <1>1, <1>4, <1>5, <1>6, <1>7 DEF Total, Rest

\* A total is a natural number.
LEMMA TotalType ==
  ASSUME NEW S, IsFiniteSet(S), NEW f \in [S -> Nat]
  PROVE  Total(f, S) \in Nat
BY CentsFinite, FS_CardinalityType DEF Total

\* Posting to one amount moves the total by the change of that amount.
LEMMA TotalPost ==
  ASSUME NEW S, IsFiniteSet(S), NEW f \in [S -> Nat], NEW g \in [S -> Nat],
         NEW x \in S, \A y \in S \ {x} : g[y] = f[y]
  PROVE  Total(g, S) = Total(f, S) - f[x] + g[x]
<1>1. Cents(g, S \ {x}) = Cents(f, S \ {x})
  BY DEF Cents
<1>2. Total(g, S \ {x}) = Total(f, S \ {x})
  BY <1>1 DEF Total
<1>3. /\ Total(f, S \ {x}) \in Nat
      /\ Total(f, S) = Total(f, S \ {x}) + f[x]
  BY TotalSplit
<1>4. Total(g, S) = Total(g, S \ {x}) + g[x]
  BY TotalSplit
<1>5. f[x] \in Nat /\ g[x] \in Nat
  OBVIOUS
<1>6. QED
  BY <1>2, <1>3, <1>4, <1>5

\* A total of zeros is zero.
LEMMA TotalZero ==
  ASSUME NEW S, NEW f \in [S -> Nat], \A x \in S : f[x] = 0
  PROVE  Total(f, S) = 0
<1>1. \A x \in S : {x} \X (1 .. f[x]) = {}
  OBVIOUS
<1>2. Cents(f, S) = {}
  BY <1>1 DEF Cents
<1>3. QED
  BY <1>2, FS_EmptySet DEF Total

\* The total of some of the amounts splits as well.
LEMMA TotalAmong ==
  ASSUME NEW S, IsFiniteSet(S), NEW f \in [S -> Nat], NEW T \in SUBSET S, NEW x \in T
  PROVE  /\ Total(f, T \ {x}) \in Nat
         /\ Total(f, T) = Total(f, T \ {x}) + f[x]
<1> DEFINE g == [y \in T |-> f[y]]
<1>1. IsFiniteSet(T) /\ g \in [T -> Nat]
  BY FS_Subset
<1>2. Cents(g, T) = Cents(f, T) /\ Cents(g, T \ {x}) = Cents(f, T \ {x}) /\ g[x] = f[x]
  BY DEF Cents
<1> HIDE DEF g
<1>3. /\ Total(g, T \ {x}) \in Nat
      /\ Total(g, T) = Total(g, T \ {x}) + g[x]
  BY <1>1, TotalSplit
<1>4. QED
  BY <1>2, <1>3 DEF Total

\* More amounts total no less.
LEMMA TotalMonotonic ==
  ASSUME NEW S, IsFiniteSet(S), NEW f \in [S -> Nat], NEW U \in SUBSET S, NEW T \in SUBSET U
  PROVE  Total(f, T) \in Nat /\ Total(f, U) \in Nat /\ Total(f, T) <= Total(f, U)
<1>1. IsFiniteSet(Cents(f, U))
  BY CentsFinite
<1>2. Cents(f, T) \subseteq Cents(f, U)
  BY DEF Cents
<1>3. QED
  BY <1>1, <1>2, FS_Subset, FS_CardinalityType DEF Total

\* Amounts that are no more than m total no more than m each.
LEMMA TotalBounded ==
  ASSUME NEW S, IsFiniteSet(S), NEW f \in [S -> Nat], NEW m \in Nat, \A x \in S : f[x] <= m
  PROVE  Total(f, S) <= Cardinality(S) * m
<1>1. IsFiniteSet(1 .. m) /\ Cardinality(1 .. m) = m
  <2>1. IsFiniteSet(1 .. m) /\ Cardinality(1 .. m) = IF 1 > m THEN 0 ELSE m - 1 + 1
    BY FS_Interval
  <2>2. QED
    BY <2>1
<1>2. IsFiniteSet(S \X (1 .. m)) /\ Cardinality(S \X (1 .. m)) = Cardinality(S) * m
  BY <1>1, FS_Product
<1>3. Cents(f, S) \subseteq S \X (1 .. m)
  BY DEF Cents
<1>4. QED
  BY <1>2, <1>3, FS_Subset DEF Total

\* Amounts that are mapped one to one to amounts that are no less total no more.
LEMMA TotalInjected ==
  ASSUME NEW S, NEW f \in [S -> Nat], NEW T, IsFiniteSet(T), NEW g \in [T -> Nat], NEW h,
         \A x \in S : f[x] > 0 => h[x] \in T /\ f[x] <= g[h[x]],
         \A x, y \in S : f[x] > 0 /\ f[y] > 0 /\ h[x] = h[y] => x = y
  PROVE  Total(f, S) <= Total(g, T)
<1> DEFINE Image == [c \in Cents(f, S) |-> <<h[c[1]], c[2]>>]
<1>1. ASSUME NEW c \in Cents(f, S)
      PROVE  c = <<c[1], c[2]>> /\ c[1] \in S /\ c[2] \in 1 .. f[c[1]] /\ f[c[1]] > 0
  <2>1. PICK x \in S : c \in {x} \X (1 .. f[x])
    BY DEF Cents
  <2>2. c = <<c[1], c[2]>> /\ c[1] = x /\ c[2] \in 1 .. f[x]
    BY <2>1
  <2>3. f[x] \in Nat /\ f[x] > 0
    BY <2>2
  <2>4. QED
    BY <2>2, <2>3
<1>2. ASSUME NEW c \in Cents(f, S)
      PROVE  Image[c] \in Cents(g, T)
  <2>1. h[c[1]] \in T /\ f[c[1]] \in Nat /\ g[h[c[1]]] \in Nat /\ f[c[1]] <= g[h[c[1]]]
    BY <1>1
  <2>2. c[2] \in 1 .. g[h[c[1]]]
    BY <1>1, <2>1
  <2>3. <<h[c[1]], c[2]>> \in {h[c[1]]} \X (1 .. g[h[c[1]]])
    BY <2>2
  <2>4. QED
    BY <2>1, <2>3 DEF Cents
<1>3. ASSUME NEW c \in Cents(f, S), NEW d \in Cents(f, S), Image[c] = Image[d]
      PROVE  c = d
  <2>1. h[c[1]] = h[d[1]] /\ c[2] = d[2]
    BY <1>3
  <2>2. c[1] = d[1]
    BY <1>1, <2>1
  <2>3. QED
    BY <1>1, <2>1, <2>2
<1>4. Image \in Injection(Cents(f, S), Cents(g, T))
  <2>1. Image \in [Cents(f, S) -> Cents(g, T)]
    BY <1>2
  <2>2. \A c, d \in Cents(f, S) : Image[c] = Image[d] => c = d
    BY <1>3
  <2> HIDE DEF Image
  <2>3. QED
    BY <2>1, <2>2 DEF Injection, IsInjective
<1>5. IsFiniteSet(Cents(g, T))
  BY CentsFinite
<1> HIDE DEF Image
<1>6. QED
  BY <1>4, <1>5, FS_Injection DEF Total

\* Finitely many natural numbers have a largest one.
LEMMA LargestExists ==
  ASSUME NEW S \in SUBSET Nat, IsFiniteSet(S), S # {}
  PROVE  \E x \in S : \A y \in S : x >= y
<1> DEFINE Above(x) == {y \in S : y > x}
           Counts == {Cardinality(Above(x)) : x \in S}
<1>1. ASSUME NEW x \in S PROVE IsFiniteSet(Above(x)) /\ Cardinality(Above(x)) \in Nat
  <2>1. Above(x) \in SUBSET S
    OBVIOUS
  <2>2. QED
    BY <2>1, FS_Subset, FS_CardinalityType
<1>2. Counts \subseteq Nat /\ Counts # {}
  BY <1>1
<1>3. PICK x \in S : \A y \in S : ~ (Cardinality(Above(y)) < Cardinality(Above(x)))
  <2>1. PICK n \in Counts : \A m \in Counts : ~ (<<m, n>> \in OpToRel(<, Nat))
    <3> HIDE DEF Counts
    <3>1. QED
      BY <1>2, NatLessThanWellFounded, WFMin
  <2>2. \A m \in Counts : ~ (m < n)
    <3> HIDE DEF Counts
    <3>1. QED
      BY <1>2, <2>1 DEF OpToRel
  <2>3. QED
    BY <2>2
<1>4. ASSUME NEW y \in S, y > x PROVE FALSE
  <2>1. Above(y) \in SUBSET Above(x)
    <3>1. \A z \in S : z > y => z > x
      BY <1>4
    <3>2. QED
      BY <3>1
  <2>2. y \in Above(x) /\ y \notin Above(y)
    BY <1>4
  <2>3. /\ Cardinality(Above(y)) <= Cardinality(Above(x))
        /\ Cardinality(Above(y)) # Cardinality(Above(x))
    <3> HIDE DEF Above
    <3>1. QED
      BY <1>1, <2>1, <2>2, FS_Subset
  <2>4. QED
    BY <1>1, <1>3, <2>3
<1>5. \A y \in S : x >= y
  BY <1>4
<1>6. QED
  BY <1>5

\* So has a smallest one.
LEMMA SmallestExists ==
  ASSUME NEW S \in SUBSET Nat, IsFiniteSet(S), S # {}
  PROVE  \E x \in S : \A y \in S : x <= y
<1>1. PICK n \in S : \A y \in S : n >= y
  BY LargestExists
<1> DEFINE Free == {n - x : x \in S}
<1>2. Free \in SUBSET Nat /\ Free # {}
  <2>1. ASSUME NEW x \in S PROVE n - x \in Nat
    BY <1>1
  <2>2. QED
    BY <2>1
<1>3. IsFiniteSet(Free)
  <2>1. [x \in S |-> n - x] \in Surjection(S, Free)
    BY DEF Surjection
  <2>2. QED
    BY <2>1, FS_Surjection
<1>4. PICK m \in Free : \A k \in Free : m >= k
  <2> HIDE DEF Free
  <2>1. QED
    BY <1>2, <1>3, LargestExists
<1>5. PICK x \in S : m = n - x
  OBVIOUS
<1>6. ASSUME NEW y \in S PROVE x <= y
  <2>1. m >= n - y
    BY <1>4
  <2>2. QED
    BY <1>1, <1>5, <2>1
<1>7. QED
  BY <1>6

\* Among sets of members of a finite set there is one that is no longer among
\* them once any member is taken out: what holds of the empty set, and of a set
\* if it holds without one of its members, holds of all.
LEMMA SmallestSet ==
  ASSUME NEW D, IsFiniteSet(D), NEW X \in SUBSET (SUBSET D), X # {}
  PROVE  \E s \in X : \A x \in s : s \ {x} \notin X
<1> DEFINE n == Cardinality(D)
           Free == {n - Cardinality(s) : s \in X}
<1>1. n \in Nat
  BY FS_CardinalityType
<1>2. ASSUME NEW s \in X
      PROVE  IsFiniteSet(s) /\ Cardinality(s) \in Nat /\ Cardinality(s) <= n
  BY FS_Subset, FS_CardinalityType
<1>3. Free \subseteq 0 .. n /\ Free # {}
  BY <1>1, <1>2
<1>4. IsFiniteSet(0 .. n)
  BY <1>1, FS_Interval
<1>5. IsFiniteSet(Free) /\ Free \in SUBSET Nat
  <2> HIDE DEF Free
  <2>1. Free \in SUBSET (0 .. n)
    BY <1>3
  <2>2. IsFiniteSet(Free)
    BY <1>4, <2>1, FS_Subset
  <2>3. QED
    BY <1>1, <2>1, <2>2
<1>6. PICK m \in Free : \A k \in Free : m >= k
  <2> HIDE DEF Free
  <2>1. QED
    BY <1>3, <1>5, LargestExists
<1>7. PICK s \in X : m = n - Cardinality(s)
  OBVIOUS
<1>8. ASSUME NEW x \in s, s \ {x} \in X PROVE FALSE
  <2>1. Cardinality(s \ {x}) = Cardinality(s) - 1
    BY <1>2, <1>8, FS_RemoveElement
  <2>2. m >= n - Cardinality(s \ {x})
    BY <1>6, <1>8
  <2>3. QED
    BY <1>1, <1>2, <1>7, <2>1, <2>2
<1>9. QED
  BY <1>8

\* No amounts make nothing.
LEMMA TotalOfNone == ASSUME NEW f PROVE Total(f, {}) = 0
BY FS_EmptySet DEF Total, Cents

\* The fold of a sum is the total: both take one amount off after the other.
LEMMA FoldIsTotal ==
  ASSUME NEW S, IsFiniteSet(S), NEW f \in [S -> Nat], NEW T \in SUBSET S
  PROVE  FoldFunctionOnSet(+, 0, f, T) = Total(f, T)
<1> DEFINE pick(s) == CHOOSE x \in s : TRUE
           Step(g) == [s \in SUBSET T |-> IF s = {} THEN 0 ELSE f[pick(s)] + g[s \ {pick(s)}]]
           iter == CHOOSE g : g = Step(g)
           Sums == [s \in SUBSET T |-> Total(f, s)]
<1>1. FoldFunctionOnSet(+, 0, f, T) = iter[T]
  BY DEF FoldFunctionOnSet, MapThenFoldSet
<1>2. ASSUME NEW s \in SUBSET T, s # {}
      PROVE  /\ pick(s) \in s
             /\ s \ {pick(s)} \in SUBSET T
             /\ Total(f, s) = f[pick(s)] + Total(f, s \ {pick(s)})
  <2>1. pick(s) \in s /\ s \in SUBSET S
    BY <1>2
  <2>2. /\ Total(f, s \ {pick(s)}) \in Nat
        /\ Total(f, s) = Total(f, s \ {pick(s)}) + f[pick(s)]
    BY <2>1, TotalAmong
  <2>3. f[pick(s)] \in Nat
    BY <2>1
  <2>4. QED
    BY <2>1, <2>2, <2>3
<1>3. Total(f, {}) = 0
  BY FS_EmptySet DEF Total, Cents
<1>4. Sums = Step(Sums)
  BY <1>2, <1>3
<1>5. iter = Step(iter)
  <2> HIDE DEF Step, Sums
  <2>1. QED
    BY <1>4
<1> HIDE DEF iter
<1> DEFINE X == {s \in SUBSET T : iter[s] # Total(f, s)}
<1>6. CASE X = {}
  BY <1>1, <1>6
<1>7. CASE X # {}
  <2>1. PICK s \in X : \A x \in s : s \ {x} \notin X
    <3>1. X \in SUBSET (SUBSET T) /\ IsFiniteSet(T)
      BY FS_Subset
    <3> HIDE DEF X
    <3>2. QED
      BY <1>7, <3>1, SmallestSet
  <2>2. s # {}
    BY <1>3, <1>5, <2>1
  <2>3. iter[s] = f[pick(s)] + iter[s \ {pick(s)}]
    BY <1>5, <2>1, <2>2
  <2>4. iter[s \ {pick(s)}] = Total(f, s \ {pick(s)})
    BY <1>2, <2>1, <2>2
  <2>5. QED
    BY <1>2, <2>1, <2>2, <2>3, <2>4
<1>8. QED
  BY <1>6, <1>7
-----------------------------------------------------------------------------
(* Sums of squares.                                                        *)

\* One more amount x: the sum s and the sum of squares q of n amounts.
LEMMA SquaresGrow ==
  ASSUME NEW n \in Nat, NEW s \in Nat, NEW q \in Nat, NEW x \in Nat, s * s <= n * q
  PROVE  (s + x) * (s + x) <= (n + 1) * (q + x * x)
<1>1. (n + 1) * (q + x * x) - (s + x) * (s + x) = (n * q - s * s) + (q + n * (x * x) - 2 * (s * x))
  OBVIOUS
<1>2. n * (q + n * (x * x) - 2 * (s * x)) = (n * q - s * s) + (s - n * x) * (s - n * x)
  OBVIOUS
<1>3. (s - n * x) * (s - n * x) >= 0
  OBVIOUS
<1>4. n * (q + n * (x * x) - 2 * (s * x)) >= 0
  BY <1>2, <1>3
<1>5. CASE n = 0
  <2>1. s * s <= 0
    BY <1>5
  <2>2. s = 0
    BY <2>1
  <2>3. QED
    BY <1>5, <2>2
<1>6. CASE n > 0
  <2>1. q + n * (x * x) - 2 * (s * x) >= 0
    BY <1>4, <1>6
  <2>2. QED
    BY <1>1, <2>1
<1>7. QED
  BY <1>5, <1>6

\* Two more amounts h and l: their distance shows in the squares.
LEMMA SquaresSpread ==
  ASSUME NEW n \in Nat, NEW s \in Nat, NEW q \in Nat, NEW h \in Nat, NEW l \in Nat,
         s * s <= n * q
  PROVE  (n + 2) * ((h - l) * (h - l))
           <= 2 * ((n + 2) * (q + h * h + l * l) - (s + h + l) * (s + h + l))
<1> DEFINE p == h + l
           gap == 2 * ((n + 2) * (q + h * h + l * l) - (s + h + l) * (s + h + l))
                    - (n + 2) * ((h - l) * (h - l))
<1>1. gap = 2 * (n * q - s * s) + (4 * q - 4 * (s * p) + n * (p * p))
  OBVIOUS
<1>2. n * (4 * q - 4 * (s * p) + n * (p * p)) = 4 * (n * q - s * s) + (2 * s - n * p) * (2 * s - n * p)
  OBVIOUS
<1>3. (2 * s - n * p) * (2 * s - n * p) >= 0
  OBVIOUS
<1>4. n * (4 * q - 4 * (s * p) + n * (p * p)) >= 0
  BY <1>2, <1>3
<1>5. CASE n = 0
  <2>1. s * s <= 0
    BY <1>5
  <2>2. s = 0
    BY <2>1
  <2>3. gap >= 0
    BY <1>1, <1>5, <2>2
  <2>4. QED
    BY <2>3
<1>6. CASE n > 0
  <2>1. 4 * q - 4 * (s * p) + n * (p * p) >= 0
    BY <1>4, <1>6
  <2>2. gap >= 0
    BY <1>1, <2>1
  <2>3. QED
    BY <2>2
<1>7. QED
  BY <1>5, <1>6

Squares(f, S) == [x \in S |-> f[x] * f[x]]

LEMMA SquaresType ==
  ASSUME NEW S, NEW f \in [S -> Nat]
  PROVE  Squares(f, S) \in [S -> Nat] /\ \A x \in S : Squares(f, S)[x] = f[x] * f[x]
BY DEF Squares

\* The variance is not negative: the square of a sum is at most the number
\* times the sum of the squares.
LEMMA SquareOfTotal ==
  ASSUME NEW S, IsFiniteSet(S), NEW f \in [S -> Nat], NEW T \in SUBSET S
  PROVE  Total(f, T) * Total(f, T) <= Cardinality(T) * Total(Squares(f, S), T)
<1> DEFINE g == Squares(f, S)
           Holds(s) == Total(f, s) * Total(f, s) <= Cardinality(s) * Total(g, s)
           X == {s \in SUBSET S : ~ Holds(s)}
<1>1. g \in [S -> Nat] /\ \A x \in S : g[x] = f[x] * f[x]
  BY SquaresType
<1> HIDE DEF g
<1>2. Holds({})
  <2>1. Total(f, {}) = 0 /\ Total(g, {}) = 0 /\ Cardinality({}) = 0
    BY FS_EmptySet, TotalOfNone
  <2>2. QED
    BY <2>1
<1>3. ASSUME NEW s \in SUBSET S, NEW x \in s, Holds(s \ {x}) PROVE Holds(s)
  <2> DEFINE n == Cardinality(s \ {x})
             t == Total(f, s \ {x})
             q == Total(g, s \ {x})
  <2>1. n \in Nat /\ Cardinality(s) = n + 1
    BY FS_Subset, FS_CardinalityType, FS_RemoveElement
  <2>2. t \in Nat /\ Total(f, s) = t + f[x]
    BY TotalAmong
  <2>3. q \in Nat /\ Total(g, s) = q + f[x] * f[x]
    BY <1>1, TotalAmong
  <2>4. f[x] \in Nat /\ t * t <= n * q
    BY <1>3
  <2> HIDE DEF n, t, q
  <2>5. (t + f[x]) * (t + f[x]) <= (n + 1) * (q + f[x] * f[x])
    BY <2>1, <2>2, <2>3, <2>4, SquaresGrow
  <2>6. QED
    BY <2>1, <2>2, <2>3, <2>5
<1> HIDE DEF Holds
<1>4. CASE X = {}
  <2>1. Holds(T)
    BY <1>4
  <2>2. QED
    BY <2>1 DEF Holds, g
<1>5. CASE X # {}
  <2>1. PICK s \in X : \A x \in s : s \ {x} \notin X
    <3>1. X \in SUBSET (SUBSET S)
      OBVIOUS
    <3> HIDE DEF X
    <3>2. QED
      BY <1>5, <3>1, SmallestSet
  <2>2. PICK x \in s : TRUE
    BY <1>2, <2>1
  <2>3. Holds(s \ {x})
    BY <2>1, <2>2
  <2>4. QED
    BY <1>3, <2>1, <2>2, <2>3
<1>6. QED
  BY <1>4, <1>5

\* Amounts from l to h: their sum is from n * l to n * h, and each square is
\* below the chord from l to h.
LEMMA TotalBetween ==
  ASSUME NEW S, IsFiniteSet(S), NEW f \in [S -> Nat], NEW T \in SUBSET S,
         NEW l \in Nat, NEW h \in Nat, \A x \in T : l <= f[x] /\ f[x] <= h
  PROVE  /\ Cardinality(T) * l <= Total(f, T)
         /\ Total(f, T) <= Cardinality(T) * h
         /\ Total(Squares(f, S), T) + Cardinality(T) * (h * l) <= Total(f, T) * (h + l)
<1> DEFINE g == Squares(f, S)
           Holds(s) ==
             /\ Cardinality(s) * l <= Total(f, s)
             /\ Total(f, s) <= Cardinality(s) * h
             /\ Total(g, s) + Cardinality(s) * (h * l) <= Total(f, s) * (h + l)
           X == {s \in SUBSET T : ~ Holds(s)}
<1>1. g \in [S -> Nat] /\ \A x \in S : g[x] = f[x] * f[x]
  BY SquaresType
<1> HIDE DEF g
<1>2. Holds({})
  <2>1. Total(f, {}) = 0 /\ Total(g, {}) = 0 /\ Cardinality({}) = 0
    BY FS_EmptySet, TotalOfNone
  <2>2. QED
    BY <2>1
<1>3. ASSUME NEW s \in SUBSET T, NEW x \in s, Holds(s \ {x}) PROVE Holds(s)
  <2> DEFINE n == Cardinality(s \ {x})
             t == Total(f, s \ {x})
             q == Total(g, s \ {x})
  <2>1. n \in Nat /\ Cardinality(s) = n + 1
    <3>1. s \in SUBSET S /\ s \ {x} \in SUBSET S
      OBVIOUS
    <3>2. IsFiniteSet(s) /\ IsFiniteSet(s \ {x})
      BY <3>1, FS_Subset
    <3>3. QED
      BY <3>2, FS_CardinalityType, FS_RemoveElement
  <2>2. t \in Nat /\ Total(f, s) = t + f[x]
    BY TotalAmong
  <2>3. q \in Nat /\ Total(g, s) = q + f[x] * f[x]
    BY <1>1, TotalAmong
  <2>4. f[x] \in Nat /\ l <= f[x] /\ f[x] <= h
    OBVIOUS
  <2>5. n * l <= t /\ t <= n * h /\ q + n * (h * l) <= t * (h + l)
    BY <1>3
  <2> HIDE DEF n, t, q
  <2>6. f[x] * f[x] + h * l <= f[x] * (h + l)
    <3>1. (h - f[x]) * (f[x] - l) >= 0
      BY <2>4
    <3>2. (h - f[x]) * (f[x] - l) = f[x] * (h + l) - (f[x] * f[x] + h * l)
      BY <2>4
    <3>3. QED
      BY <2>4, <3>1, <3>2
  <2>7. Total(g, s) + Cardinality(s) * (h * l) <= Total(f, s) * (h + l)
    <3>1. Total(g, s) + Cardinality(s) * (h * l) = (q + n * (h * l)) + (f[x] * f[x] + h * l)
      BY <2>1, <2>3, <2>4
    <3>2. Total(f, s) * (h + l) = t * (h + l) + f[x] * (h + l)
      BY <2>2, <2>4
    <3>3. QED
      BY <2>1, <2>2, <2>3, <2>4, <2>5, <2>6, <3>1, <3>2
  <2>8. QED
    BY <2>1, <2>2, <2>4, <2>5, <2>7
<1> HIDE DEF Holds
<1>4. CASE X = {}
  <2>1. Holds(T)
    BY <1>4
  <2>2. QED
    BY <2>1 DEF Holds, g
<1>5. CASE X # {}
  <2>1. PICK s \in X : \A x \in s : s \ {x} \notin X
    <3>1. X \in SUBSET (SUBSET T) /\ IsFiniteSet(T)
      BY FS_Subset
    <3> HIDE DEF X
    <3>2. QED
      BY <1>5, <3>1, SmallestSet
  <2>2. PICK x \in s : TRUE
    BY <1>2, <2>1
  <2>3. Holds(s \ {x})
    BY <2>1, <2>2
  <2>4. QED
    BY <1>3, <2>1, <2>2, <2>3
<1>6. QED
  BY <1>4, <1>5

\* Bounds on n times the variance of amounts from l to h, by n * q - s * s:
\* from above by how far the sum is from its bounds, ...
LEMMA SpreadAtMost ==
  ASSUME NEW S, IsFiniteSet(S), NEW f \in [S -> Nat], NEW T \in SUBSET S,
         NEW l \in Nat, NEW h \in Nat, \A x \in T : l <= f[x] /\ f[x] <= h
  PROVE  LET n == Cardinality(T)
             s == Total(f, T)
         IN  n * Total(Squares(f, S), T) - s * s <= (n * h - s) * (s - n * l)
<1> DEFINE n == Cardinality(T)
           s == Total(f, T)
           q == Total(Squares(f, S), T)
<1>1. n \in Nat /\ s \in Nat /\ q \in Nat
  <2>1. IsFiniteSet(T) /\ Squares(f, S) \in [S -> Nat]
    BY FS_Subset, SquaresType
  <2>2. QED
    BY <2>1, FS_CardinalityType, TotalMonotonic
<1>2. q + n * (h * l) <= s * (h + l)
  BY TotalBetween
<1> HIDE DEF n, s, q
<1>3. (n * h - s) * (s - n * l) - (n * q - s * s) = n * (s * (h + l) - (q + n * (h * l)))
  BY <1>1
<1>4. n * (s * (h + l) - (q + n * (h * l))) >= 0
  BY <1>1, <1>2
<1>5. n * q - s * s <= (n * h - s) * (s - n * l)
  BY <1>1, <1>3, <1>4
<1>6. QED
  BY <1>5 DEF n, s, q

\* ... and from below by the distance of any two of them.
LEMMA SpreadAtLeast ==
  ASSUME NEW S, IsFiniteSet(S), NEW f \in [S -> Nat], NEW T \in SUBSET S,
         NEW x \in T, NEW y \in T
  PROVE  LET n == Cardinality(T)
             s == Total(f, T)
         IN  n * ((f[x] - f[y]) * (f[x] - f[y])) <= 2 * (n * Total(Squares(f, S), T) - s * s)
<1> DEFINE g == Squares(f, S)
           R == (T \ {x}) \ {y}
           n == Cardinality(R)
           s == Total(f, R)
           q == Total(g, R)
<1>1. g \in [S -> Nat] /\ \A z \in S : g[z] = f[z] * f[z]
  BY SquaresType
<1> HIDE DEF g
<1>2. IsFiniteSet(T) /\ IsFiniteSet(T \ {x}) /\ IsFiniteSet(R)
  BY FS_Subset
<1>3. n \in Nat /\ s \in Nat /\ q \in Nat
  BY <1>1, <1>2, FS_CardinalityType, TotalMonotonic
<1>4. s * s <= n * q
  <2>1. R \in SUBSET S
    OBVIOUS
  <2>2. QED
    BY <2>1, SquareOfTotal DEF g
<1>5. f[x] \in Nat /\ f[y] \in Nat
  OBVIOUS
<1>6. CASE x = y
  <2>1. Total(f, T) * Total(f, T) <= Cardinality(T) * Total(g, T)
    BY SquareOfTotal DEF g
  <2>2. Cardinality(T) \in Nat /\ Total(f, T) \in Nat /\ Total(g, T) \in Nat
    BY <1>1, <1>2, FS_CardinalityType, TotalMonotonic
  <2>3. (f[x] - f[y]) * (f[x] - f[y]) = 0
    BY <1>5, <1>6
  <2>4. QED
    BY <2>1, <2>2, <2>3 DEF g
<1>7. CASE x # y
  <2>1. y \in T \ {x} /\ T \ {x} \in SUBSET S
    BY <1>7
  <2>2. Cardinality(T) = n + 2
    <3>1. Cardinality(T \ {x}) = Cardinality(T) - 1 /\ Cardinality(T) \in Nat
      BY <1>2, FS_RemoveElement, FS_CardinalityType
    <3>2. n = Cardinality(T \ {x}) - 1
      BY <1>2, <2>1, FS_RemoveElement
    <3>3. QED
      BY <3>1, <3>2
  <2>3. Total(f, T) = s + f[x] + f[y]
    <3>1. Total(f, T) = Total(f, T \ {x}) + f[x] /\ Total(f, T \ {x}) \in Nat
      BY TotalAmong
    <3>2. Total(f, T \ {x}) = s + f[y]
      BY <2>1, TotalAmong
    <3>3. QED
      BY <1>3, <1>5, <3>1, <3>2
  <2>4. Total(g, T) = q + f[x] * f[x] + f[y] * f[y]
    <3>1. Total(g, T) = Total(g, T \ {x}) + g[x] /\ Total(g, T \ {x}) \in Nat
      BY <1>1, TotalAmong
    <3>2. Total(g, T \ {x}) = q + g[y]
      BY <1>1, <2>1, TotalAmong
    <3>3. g[x] = f[x] * f[x] /\ g[y] = f[y] * f[y]
      BY <1>1
    <3>4. f[x] * f[x] \in Nat /\ f[y] * f[y] \in Nat
      BY <1>5
    <3>5. QED
      BY <1>3, <3>1, <3>2, <3>3, <3>4
  <2> HIDE DEF n, s, q
  <2>5. (n + 2) * ((f[x] - f[y]) * (f[x] - f[y]))
          <= 2 * ((n + 2) * (q + f[x] * f[x] + f[y] * f[y]) - (s + f[x] + f[y]) * (s + f[x] + f[y]))
    BY <1>3, <1>4, <1>5, SquaresSpread
  <2>6. QED
    BY <2>2, <2>3, <2>4, <2>5 DEF g
<1>8. QED
  BY <1>6, <1>7
=============================================================================
