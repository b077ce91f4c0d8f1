---------------------------- MODULE TradeProofs ----------------------------
(***************************************************************************)
(* Theorems about Trade, for any articles, prices, tables, shops and       *)
(* terms: an article is sold once, and is once in a basket; everything is  *)
(* of its type; a price is split to the cent, so that a negotiated total   *)
(* is what the customer pays and the page of a lot shows the costs the API *)
(* writes; and the statement and the dashboard agree with what was cashed  *)
(* in.                                                                     *)
(***************************************************************************)
EXTENDS Trade, FiniteSetTheorems, WellFoundedInduction, TLAPS
-----------------------------------------------------------------------------
(* Sums over finite sets.                                                  *)

\* Every set of numbers has a least one.
LEMMA Least ==
  ASSUME NEW S \in SUBSET Nat, S # {}
  PROVE  \E n \in S : \A m \in S : n <= m
<1>1. PICK n \in S : \A m \in S : ~(<<m, n>> \in OpToRel(<, Nat))
  BY NatLessThanWellFounded, WFMin
<1>2. ASSUME NEW m \in S PROVE n <= m
  <2>1. ~(<<m, n>> \in {ss \in Nat \X Nat : ss[1] < ss[2]})
    BY <1>1 DEF OpToRel
  <2>. QED
    BY <2>1
<1>. QED
  BY <1>2

\* What is said of the empty set, and of a set once it is said of it less one of its
\* elements, is said of every part of a finite set.
LEMMA SetInduction ==
  ASSUME NEW U, IsFiniteSet(U), NEW G, {} \in G,
         \A T \in SUBSET U : T # {} => \E x \in T : T \ {x} \in G => T \in G
  PROVE  \A T \in SUBSET U : T \in G
<1> DEFINE bad == {T \in SUBSET U : T \notin G}
           sizes == {Cardinality(T) : T \in bad}
<1> SUFFICES ASSUME bad # {} PROVE FALSE
  OBVIOUS
<1>1. \A T \in SUBSET U : IsFiniteSet(T) /\ Cardinality(T) \in Nat
  BY FS_Subset, FS_CardinalityType
<1>2. sizes \in SUBSET Nat /\ sizes # {}
  BY <1>1
<1> HIDE DEF sizes
<1>3. PICK n \in sizes : \A m \in sizes : n <= m
  BY <1>2, Least
<1>4. PICK T \in bad : n = Cardinality(T)
  BY DEF sizes
<1>5. T \in SUBSET U /\ T # {} /\ T \notin G
  OBVIOUS
<1>6. PICK x \in T : T \ {x} \in G => T \in G
  BY <1>5
<1>7. T \ {x} \in bad
  BY <1>5, <1>6
<1>8. Cardinality(T \ {x}) = n - 1 /\ n \in Nat
  BY <1>1, <1>2, <1>4, <1>5, <1>6, FS_RemoveElement
<1>9. Cardinality(T \ {x}) \in sizes
  BY <1>7 DEF sizes
<1> QED
  BY <1>3, <1>8, <1>9

\* w gives the sum of g over each part of U.
IsSum(w, g, U) ==
  /\ w \in [SUBSET U -> Int]
  /\ w[{}] = 0
  /\ \A T \in SUBSET U : \A x \in T : w[T] = g[x] + w[T \ {x}]

\* There is such a thing.
LEMMA SumExists ==
  ASSUME NEW U, IsFiniteSet(U), NEW g, \A x \in U : g[x] \in Int
  PROVE  \E w : IsSum(w, g, U)
<1> DEFINE G == {V \in SUBSET U : \E w : IsSum(w, g, V)}
<1>1. {} \in G
  <2>1. IsSum([T \in SUBSET {} |-> 0], g, {})
    BY DEF IsSum
  <2> QED
    BY <2>1
<1>2. ASSUME NEW V \in SUBSET U, NEW x \in V, V \ {x} \in G
      PROVE  V \in G
  <2>1. PICK w : IsSum(w, g, V \ {x})
    BY <1>2
  <2> DEFINE h == [T \in SUBSET V |-> IF x \in T THEN g[x] + w[T \ {x}] ELSE w[T]]
  <2>2. \A T \in SUBSET V : T \ {x} \in SUBSET (V \ {x}) /\ (x \notin T => T \in SUBSET (V \ {x}))
    OBVIOUS
  <2>3. h \in [SUBSET V -> Int]
    <3>1. \A T \in SUBSET V : w[T \ {x}] \in Int /\ (x \notin T => w[T] \in Int)
      BY <2>1, <2>2 DEF IsSum
    <3>2. \A T \in SUBSET V : (IF x \in T THEN g[x] + w[T \ {x}] ELSE w[T]) \in Int
      BY <3>1
    <3> QED
      BY <3>2
  <2>4. h[{}] = 0
    BY <2>1 DEF IsSum
  <2>5. ASSUME NEW T \in SUBSET V, NEW y \in T PROVE h[T] = g[y] + h[T \ {y}]
    <3>1. CASE y = x
      BY <3>1
    <3>2. CASE y # x /\ x \in T
      <4>1. (T \ {x}) \ {y} = (T \ {y}) \ {x} /\ y \in T \ {x}
        BY <3>2
      <4>2. w[T \ {x}] = g[y] + w[(T \ {y}) \ {x}]
        <5>1. T \ {x} \in SUBSET (V \ {x})
          BY <2>2
        <5>2. w[T \ {x}] = g[y] + w[(T \ {x}) \ {y}]
          BY <2>1, <4>1, <5>1 DEF IsSum
        <5> QED
          BY <4>1, <5>2
      <4>3. h[T] = g[x] + w[T \ {x}] /\ h[T \ {y}] = g[x] + w[(T \ {y}) \ {x}]
        BY <3>2
      <4>4. g[x] \in Int /\ g[y] \in Int /\ w[(T \ {y}) \ {x}] \in Int
        BY <2>1, <2>2 DEF IsSum
      <4> HIDE DEF h
      <4> QED
        BY <4>2, <4>3, <4>4
    <3>3. CASE y # x /\ x \notin T
      BY <2>1, <2>2, <3>3 DEF IsSum
    <3> QED
      BY <3>1, <3>2, <3>3
  <2> HIDE DEF h
  <2>6. IsSum(h, g, V)
    BY <2>3, <2>4, <2>5 DEF IsSum
  <2> QED
    BY <2>6
<1> HIDE DEF G
<1>3. \A T \in SUBSET U : T # {} => \E x \in T : T \ {x} \in G => T \in G
  BY <1>2
<1>4. \A T \in SUBSET U : T \in G
  BY <1>1, <1>3, SetInduction, Zenon
<1> QED
  BY <1>4 DEF G

\* It is what the fold of the community modules computes.
LEMMA SumRule ==
  ASSUME NEW U, IsFiniteSet(U), NEW g \in [U -> Int], NEW w, IsSum(w, g, U)
  PROVE  SumFunction(g) = w[U]
<1> DEFINE Rec(v) == v = [s \in SUBSET U |-> IF s = {} THEN 0
                          ELSE LET x == CHOOSE x \in s : TRUE IN g[x] + v[s \ {x}]]
           iter == CHOOSE v : Rec(v)
<1>1. SumFunction(g) = iter[U]
  BY DEF SumFunction, SumFunctionOnSet, FoldFunctionOnSet, MapThenFoldSet
<1>2. Rec(w)
  BY DEF IsSum
<1>3. Rec(iter)
  BY <1>2
<1> HIDE DEF iter
<1> DEFINE G == {T \in SUBSET U : iter[T] = w[T]}
<1>4. {} \in G
  BY <1>3 DEF IsSum
<1>5. ASSUME NEW T \in SUBSET U, T # {} PROVE \E x \in T : T \ {x} \in G => T \in G
  <2> DEFINE x == CHOOSE x \in T : TRUE
  <2>1. x \in T
    BY <1>5
  <2>2. iter[T] = g[x] + iter[T \ {x}]
    BY <1>3, <1>5
  <2>3. w[T] = g[x] + w[T \ {x}]
    BY <2>1 DEF IsSum
  <2> HIDE DEF x
  <2> QED
    BY <2>1, <2>2, <2>3
<1> HIDE DEF G
<1>6. \A T \in SUBSET U : T # {} => \E x \in T : T \ {x} \in G => T \in G
  BY <1>5
<1>7. \A T \in SUBSET U : T \in G
  BY <1>4, <1>6, SetInduction, Zenon
<1> QED
  BY <1>1, <1>7 DEF G

\* The sum of g over T.
Over(g, T) == SumFunction([y \in T |-> g[y]])

\* It adds up, element by element, on the parts of U.
AddsUp(g, U) ==
  /\ Over(g, {}) = 0
  /\ \A T \in SUBSET U : Over(g, T) \in Int
  /\ \A T \in SUBSET U : \A x \in T : Over(g, T) = g[x] + Over(g, T \ {x})

\* The sums of a finite set of integers add up.
LEMMA SumRules ==
  ASSUME NEW U, IsFiniteSet(U), NEW g, \A y \in U : g[y] \in Int
  PROVE  AddsUp(g, U)
<1>1. PICK w : IsSum(w, g, U)
  BY SumExists
<1>2. ASSUME NEW T \in SUBSET U PROVE Over(g, T) = w[T]
  <2> DEFINE f == [y \in T |-> g[y]]
             v == [S \in SUBSET T |-> w[S]]
  <2>1. IsFiniteSet(T) /\ f \in [T -> Int]
    BY FS_Subset
  <2>2. IsSum(v, f, T)
    <3>1. \A S \in SUBSET T : S \in SUBSET U /\ v[S] = w[S] /\ w[S] \in Int
      BY <1>1 DEF IsSum
    <3>2. v \in [SUBSET T -> Int] /\ v[{}] = 0
      BY <1>1, <3>1 DEF IsSum
    <3>3. ASSUME NEW S \in SUBSET T, NEW x \in S PROVE v[S] = f[x] + v[S \ {x}]
      <4>1. w[S] = g[x] + w[S \ {x}]
        BY <1>1, <3>1 DEF IsSum
      <4>2. S \ {x} \in SUBSET T /\ f[x] = g[x]
        OBVIOUS
      <4> QED
        BY <3>1, <4>1, <4>2
    <3> QED
      BY <3>2, <3>3 DEF IsSum
  <2> HIDE DEF f, v
  <2>3. SumFunction(f) = v[T]
    BY <2>1, <2>2, SumRule
  <2> QED
    BY <2>3 DEF Over, f, v
<1>3. ASSUME NEW T \in SUBSET U, NEW x \in T PROVE Over(g, T) = g[x] + Over(g, T \ {x})
  <2>1. T \ {x} \in SUBSET U
    OBVIOUS
  <2>2. Over(g, T) = w[T] /\ Over(g, T \ {x}) = w[T \ {x}]
    BY <1>2, <2>1
  <2> QED
    BY <1>1, <2>2 DEF IsSum
<1>4. \A T \in SUBSET U : Over(g, T) \in Int
  BY <1>1, <1>2 DEF IsSum
<1>5. Over(g, {}) = 0
  BY <1>1, <1>2 DEF IsSum
<1> QED
  BY <1>3, <1>4, <1>5 DEF AddsUp

\* The sum of sums.
LEMMA SumAdds ==
  ASSUME NEW U, IsFiniteSet(U), NEW f, NEW g, NEW h,
         \A y \in U : f[y] \in Int /\ g[y] \in Int /\ h[y] = f[y] + g[y]
  PROVE  Over(h, U) = Over(f, U) + Over(g, U)
<1> DEFINE G == {T \in SUBSET U : Over(h, T) = Over(f, T) + Over(g, T)}
<1>1. \A y \in U : h[y] \in Int
  OBVIOUS
<1>sums. AddsUp(f, U) /\ AddsUp(g, U) /\ AddsUp(h, U)
  BY <1>1, SumRules
<1>2. {} \in G
  <2>1. Over(f, {}) = 0 /\ Over(g, {}) = 0 /\ Over(h, {}) = 0
    BY <1>1, <1>sums DEF AddsUp
  <2> QED
    BY <2>1
<1>3. ASSUME NEW T \in SUBSET U, NEW x \in T, T \ {x} \in G PROVE T \in G
  <2>1. Over(f, T \ {x}) \in Int /\ Over(f, T) = f[x] + Over(f, T \ {x})
    BY <1>sums DEF AddsUp
  <2>2. Over(g, T \ {x}) \in Int /\ Over(g, T) = g[x] + Over(g, T \ {x})
    BY <1>sums DEF AddsUp
  <2>3. Over(h, T) = h[x] + Over(h, T \ {x})
    BY <1>1, <1>sums DEF AddsUp
  <2> QED
    BY <1>3, <2>1, <2>2, <2>3
<1> HIDE DEF G
<1>4. \A T \in SUBSET U : T # {} => \E x \in T : T \ {x} \in G => T \in G
  BY <1>3
<1>5. \A T \in SUBSET U : T \in G
  BY <1>2, <1>4, SetInduction, Zenon
<1> QED
  BY <1>5 DEF G

\* The sum of what is c times as much.
LEMMA SumScales ==
  ASSUME NEW U, IsFiniteSet(U), NEW c \in Int, NEW g, NEW h,
         \A y \in U : g[y] \in Int /\ h[y] = c * g[y]
  PROVE  Over(h, U) = c * Over(g, U)
<1> DEFINE G == {T \in SUBSET U : Over(h, T) = c * Over(g, T)}
<1>1. \A y \in U : h[y] \in Int
  OBVIOUS
<1>sums. AddsUp(g, U) /\ AddsUp(h, U)
  BY <1>1, SumRules
<1>2. {} \in G
  <2>1. Over(g, {}) = 0 /\ Over(h, {}) = 0
    BY <1>1, <1>sums DEF AddsUp
  <2> QED
    BY <2>1
<1>3. ASSUME NEW T \in SUBSET U, NEW x \in T, T \ {x} \in G PROVE T \in G
  <2>1. Over(g, T \ {x}) \in Int /\ Over(g, T) = g[x] + Over(g, T \ {x})
    BY <1>sums DEF AddsUp
  <2>2. Over(h, T) = h[x] + Over(h, T \ {x})
    BY <1>1, <1>sums DEF AddsUp
  <2>3. \A a, b \in Int : c * (a + b) = c * a + c * b
    OBVIOUS
  <2> QED
    BY <1>3, <2>1, <2>2, <2>3
<1> HIDE DEF G
<1>4. \A T \in SUBSET U : T # {} => \E x \in T : T \ {x} \in G => T \in G
  BY <1>3
<1>5. \A T \in SUBSET U : T \in G
  BY <1>2, <1>4, SetInduction, Zenon
<1> QED
  BY <1>5 DEF G

\* What is nowhere more is not more in all.
LEMMA SumBounds ==
  ASSUME NEW U, IsFiniteSet(U), NEW f, NEW g,
         \A y \in U : f[y] \in Int /\ g[y] \in Int /\ f[y] <= g[y]
  PROVE  Over(f, U) <= Over(g, U)
<1> DEFINE G == {T \in SUBSET U : Over(f, T) <= Over(g, T)}
<1>sums. AddsUp(f, U) /\ AddsUp(g, U)
  BY SumRules
<1>1. {} \in G
  <2>1. Over(f, {}) = 0 /\ Over(g, {}) = 0
    BY <1>sums DEF AddsUp
  <2> QED
    BY <2>1
<1>2. ASSUME NEW T \in SUBSET U, NEW x \in T, T \ {x} \in G PROVE T \in G
  <2>1. Over(f, T \ {x}) \in Int /\ Over(f, T) = f[x] + Over(f, T \ {x})
    BY <1>sums DEF AddsUp
  <2>2. Over(g, T \ {x}) \in Int /\ Over(g, T) = g[x] + Over(g, T \ {x})
    BY <1>sums DEF AddsUp
  <2> QED
    BY <1>2, <2>1, <2>2
<1> HIDE DEF G
<1>3. \A T \in SUBSET U : T # {} => \E x \in T : T \ {x} \in G => T \in G
  BY <1>2
<1>4. \A T \in SUBSET U : T \in G
  BY <1>1, <1>3, SetInduction, Zenon
<1> QED
  BY <1>4 DEF G

\* Counting the elements of A.
LEMMA SumCounts ==
  ASSUME NEW U, IsFiniteSet(U), NEW A \in SUBSET U
  PROVE  Over([y \in U |-> IF y \in A THEN 1 ELSE 0], U) = Cardinality(A)
<1> DEFINE g == [y \in U |-> IF y \in A THEN 1 ELSE 0]
           G == {T \in SUBSET U : Over(g, T) = Cardinality(A \cap T)}
<1>1. \A y \in U : g[y] \in Int /\ (y \in A => g[y] = 1) /\ (y \notin A => g[y] = 0)
  OBVIOUS
<1> HIDE DEF g
<1>sums. AddsUp(g, U)
  BY <1>1, SumRules
<1>2. {} \in G
  <2>1. A \cap {} = {}
    OBVIOUS
  <2> QED
    BY <1>1, <2>1, <1>sums, FS_EmptySet DEF AddsUp
<1>3. ASSUME NEW T \in SUBSET U, NEW x \in T, T \ {x} \in G PROVE T \in G
  <2>1. Over(g, T) = g[x] + Over(g, T \ {x})
    BY <1>1, <1>sums DEF AddsUp
  <2>2. IsFiniteSet(A \cap T) /\ Cardinality(A \cap T) \in Nat
    BY FS_Subset, FS_CardinalityType
  <2>3. A \cap (T \ {x}) = (A \cap T) \ {x}
    OBVIOUS
  <2>4. Cardinality((A \cap T) \ {x}) =
          IF x \in A \cap T THEN Cardinality(A \cap T) - 1 ELSE Cardinality(A \cap T)
    BY <2>2, FS_RemoveElement
  <2>5. Over(g, T \ {x}) = Cardinality((A \cap T) \ {x})
    BY <1>3, <2>3
  <2>6. CASE x \in A
    BY <1>1, <2>1, <2>2, <2>4, <2>5, <2>6
  <2>7. CASE x \notin A
    BY <1>1, <2>1, <2>2, <2>4, <2>5, <2>7
  <2> QED
    BY <2>6, <2>7
<1> HIDE DEF G
<1>4. \A T \in SUBSET U : T # {} => \E x \in T : T \ {x} \in G => T \in G
  BY <1>3
<1>5. \A T \in SUBSET U : T \in G
  BY <1>2, <1>4, SetInduction, Zenon
<1>6. A \cap U = A
  OBVIOUS
<1> QED
  BY <1>5, <1>6 DEF G, g

\* The sum over two sets that share nothing.
LEMMA SumSplits ==
  ASSUME NEW A, NEW B, IsFiniteSet(A), IsFiniteSet(B), A \cap B = {}, NEW g,
         \A y \in A \cup B : g[y] \in Int
  PROVE  Over(g, A \cup B) = Over(g, A) + Over(g, B)
<1> DEFINE G == {T \in SUBSET B : Over(g, A \cup T) = Over(g, A) + Over(g, T)}
<1>1. IsFiniteSet(A \cup B)
  BY FS_Union
<1>sums. AddsUp(g, A \cup B)
  BY <1>1, SumRules
<1>2. {} \in G
  <2>1. Over(g, {}) = 0 /\ Over(g, A) \in Int
    BY <1>1, <1>sums DEF AddsUp
  <2>2. A \cup {} = A
    OBVIOUS
  <2> QED
    BY <2>1, <2>2
<1>3. ASSUME NEW T \in SUBSET B, NEW x \in T, T \ {x} \in G PROVE T \in G
  <2>1. (A \cup T) \ {x} = A \cup (T \ {x}) /\ A \cup T \in SUBSET (A \cup B)
    OBVIOUS
  <2>2. Over(g, A \cup T) = g[x] + Over(g, A \cup (T \ {x}))
    BY <1>1, <2>1, <1>sums DEF AddsUp
  <2>3. Over(g, T) = g[x] + Over(g, T \ {x}) /\ Over(g, T \ {x}) \in Int
    BY <1>sums DEF AddsUp
  <2>4. Over(g, A) \in Int /\ g[x] \in Int
    BY <1>1, <1>sums DEF AddsUp
  <2> QED
    BY <1>3, <2>2, <2>3, <2>4
<1> HIDE DEF G
<1>4. \A T \in SUBSET B : T # {} => \E x \in T : T \ {x} \in G => T \in G
  BY <1>3
<1>5. \A T \in SUBSET B : T \in G
  BY <1>2, <1>4, SetInduction, Zenon
<1> QED
  BY <1>5 DEF G
-----------------------------------------------------------------------------
(* The split of a price.                                                   *)

\* Division, for every divisor.
LEMMA Euclid ==
  ASSUME NEW x \in Int, NEW d \in Int, d > 0
  PROVE  /\ x \div d \in Int /\ x % d \in Int /\ (x >= 0 => x \div d >= 0)
         /\ x = d * (x \div d) + (x % d) /\ 0 <= x % d /\ x % d < d
  OBVIOUS

\* What is multiplied stays a number.
LEMMA Products ==
  /\ \A a, b \in Int : a * b \in Int
  /\ \A a, b \in Nat : a * b \in Nat
  OBVIOUS

\* A positive factor does not change an order.
LEMMA Cancels == \A s, a, b \in Int : s > 0 /\ s * a <= s * b => a <= b
  OBVIOUS

\* The numbers from 1 to n are n.
LEMMA UpTo ==
  ASSUME NEW n \in Nat
  PROVE  IsFiniteSet(1 .. n) /\ Cardinality(1 .. n) = n
<1>1. /\ IsFiniteSet(1 .. n)
      /\ Cardinality(1 .. n) = IF 1 > n THEN 0 ELSE n - 1 + 1
  BY FS_Interval
<1> QED
  BY <1>1

\* The total of a list is the sum over its places.
LEMMA TotalOver == \A U, g : g = [y \in U |-> g[y]] => Total(g) = Over(g, U)
  BY DEF Total, Over

\* The sums of natural numbers are.
LEMMA TotalIsNat ==
  ASSUME NEW U, IsFiniteSet(U), NEW g \in [U -> Nat]
  PROVE  Total(g) \in Nat
<1> DEFINE zero == [y \in U |-> 0]
<1>1. Over(zero, U) = 0 * Over(zero, U)
  BY SumScales
<1>2. AddsUp(g, U) /\ AddsUp(zero, U)
  BY SumRules
<1>3. Over(zero, U) <= Over(g, U)
  BY SumBounds
<1> HIDE DEF zero
<1>4. Over(zero, U) \in Int /\ Over(g, U) \in Int
  BY <1>2 DEF AddsUp
<1> QED
  BY <1>1, <1>3, <1>4, TotalOver

\* A weight is a number, or is not told.
Weighs(weights, n) == /\ DOMAIN weights = 1 .. n
                      /\ \A i \in 1 .. n : weights[i] = Null \/ weights[i] \in Int

\* The weights used are never negative, and never all zero.
LEMMA FinalWeighs ==
  ASSUME NEW n \in Nat \ {0}, NEW weights, Weighs(weights, n)
  PROVE  Final(weights) \in [1 .. n -> Nat] /\ Total(Final(weights)) \in Nat \ {0}
<1> DEFINE known == {i \in DOMAIN weights : weights[i] # Null}
           sum == Total([i \in known |-> AtLeastZero(weights[i])])
           one == [i \in 1 .. n |-> 1]
<1>1. IsFiniteSet(1 .. n) /\ Cardinality(1 .. n) = n
  BY UpTo
<1>2. known \in SUBSET (1 .. n) /\ IsFiniteSet(known) /\ Cardinality(known) \in Nat
  BY <1>1, FS_Subset, FS_CardinalityType DEF Weighs
<1>3. \A i \in known : AtLeastZero(weights[i]) \in Nat
  BY DEF AtLeastZero, Weighs
<1> HIDE DEF known
<1>4. \A U, g : IsFiniteSet(U) /\ g \in [U -> Nat] => Total(g) \in Nat
  BY TotalIsNat
<1>5. sum \in Nat
  BY <1>2, <1>3, <1>4
<1> HIDE DEF sum
<1>6. Useful(weights) = [i \in DOMAIN weights |->
         IF i \in known THEN Cardinality(known) * AtLeastZero(weights[i]) ELSE sum]
  BY DEF Useful, known, sum
<1>7. Useful(weights) \in [1 .. n -> Nat]
  BY <1>2, <1>3, <1>5, <1>6, Products DEF Weighs
<1>8. Total(one) = n
  <2>1. one = [y \in 1 .. n |-> IF y \in 1 .. n THEN 1 ELSE 0]
    OBVIOUS
  <2>2. Over(one, 1 .. n) = Cardinality(1 .. n)
    BY <1>1, <2>1, SumCounts
  <2> QED
    BY <1>1, <2>2, TotalOver
<1>9. Final(weights) = IF Total(Useful(weights)) > 0 THEN Useful(weights) ELSE one
  BY DEF Final, Weighs
<1>10. one \in [1 .. n -> Nat]
  OBVIOUS
<1> HIDE DEF one
<1>11. Total(Useful(weights)) \in Nat
  BY <1>1, <1>4, <1>7
<1>12. CASE Total(Useful(weights)) > 0
  BY <1>7, <1>9, <1>11, <1>12
<1>13. CASE ~ Total(Useful(weights)) > 0
  BY <1>8, <1>9, <1>10, <1>13
<1> QED
  BY <1>12, <1>13

\* Those a cent goes to before it goes to i.
Ahead(rest, n, i) == {j \in 1 .. n : rest[j] > rest[i] \/ (rest[j] = rest[i] /\ j < i)}

\* They queue: the first k are k.
LEMMA FirstOnes ==
  ASSUME NEW n \in Nat, NEW rest, \A i \in 1 .. n : rest[i] \in Int, NEW k \in 0 .. n
  PROVE  Cardinality({i \in 1 .. n : Cardinality(Ahead(rest, n, i)) < k}) = k
<1> DEFINE U == 1 .. n
           V == 0 .. n - 1
           r == [i \in U |-> Cardinality(Ahead(rest, n, i))]
           A == {i \in U : r[i] < k}
<1>1. IsFiniteSet(U) /\ Cardinality(U) = n
  BY UpTo
<1>2. IsFiniteSet(V) /\ Cardinality(V) = n
  <2>1. /\ IsFiniteSet(0 .. n - 1)
        /\ Cardinality(0 .. n - 1) = IF 0 > n - 1 THEN 0 ELSE n - 1 - 0 + 1
    BY FS_Interval
  <2> QED
    BY <2>1
<1>3. \A i \in U : /\ Ahead(rest, n, i) \in SUBSET U /\ i \notin Ahead(rest, n, i)
                   /\ IsFiniteSet(Ahead(rest, n, i)) /\ r[i] \in Nat
                   /\ r[i] = Cardinality(Ahead(rest, n, i))
  <2> SUFFICES ASSUME NEW i \in U
               PROVE  /\ Ahead(rest, n, i) \in SUBSET U /\ i \notin Ahead(rest, n, i)
                      /\ IsFiniteSet(Ahead(rest, n, i)) /\ r[i] \in Nat
                      /\ r[i] = Cardinality(Ahead(rest, n, i))
    OBVIOUS
  <2>1. Ahead(rest, n, i) \in SUBSET U /\ i \notin Ahead(rest, n, i)
    BY DEF Ahead
  <2> QED
    BY <1>1, <2>1, FS_Subset, FS_CardinalityType
<1>4. \A i, j \in U : j \in Ahead(rest, n, i) => r[j] < r[i]
  <2> SUFFICES ASSUME NEW i \in U, NEW j \in U, j \in Ahead(rest, n, i) PROVE r[j] < r[i]
    OBVIOUS
  <2>1. Ahead(rest, n, j) \in SUBSET (Ahead(rest, n, i) \ {j})
    BY DEF Ahead
  <2>2. /\ IsFiniteSet(Ahead(rest, n, i) \ {j})
        /\ Cardinality(Ahead(rest, n, i) \ {j}) = r[i] - 1
    BY <1>3, FS_RemoveElement
  <2>3. Cardinality(Ahead(rest, n, j)) <= Cardinality(Ahead(rest, n, i) \ {j})
    BY <2>1, <2>2, FS_Subset
  <2> QED
    BY <1>3, <2>2, <2>3
<1>5. \A i, j \in U : i # j => i \in Ahead(rest, n, j) \/ j \in Ahead(rest, n, i)
  BY DEF Ahead
<1>6. \A i \in U : r[i] \in V
  <2> SUFFICES ASSUME NEW i \in U PROVE r[i] \in V
    OBVIOUS
  <2>1. IsFiniteSet(U \ {i}) /\ Cardinality(U \ {i}) = n - 1
    BY <1>1, FS_RemoveElement
  <2>2. Ahead(rest, n, i) \in SUBSET (U \ {i})
    BY <1>3
  <2>3. r[i] <= n - 1
    BY <1>3, <2>1, <2>2, FS_Subset
  <2> QED
    BY <1>3, <2>3
<1> HIDE DEF r
<1>7. r \in [U -> V]
  BY <1>6 DEF r
<1>8. r \in Injection(U, V)
  <2>1. \A i, j \in U : r[i] = r[j] => i = j
    BY <1>3, <1>4, <1>5
  <2> QED
    BY <1>7, <2>1 DEF Injection, IsInjective
<1>9. r \in Surjection(U, V)
  BY <1>1, <1>2, <1>8, FS_Injection
<1> DEFINE f == [i \in A |-> r[i]]
           K == 1 .. k
           g == [i \in A |-> r[i] + 1]
<1>10. g \in Bijection(A, K)
  <2>1. g \in [A -> K]
    BY <1>6
  <2>2. \A i, j \in A : g[i] = g[j] => i = j
    <3>1. \A i, j \in U : r[i] = r[j] => i = j
      BY <1>8 DEF Injection, IsInjective
    <3> QED
      BY <1>6, <3>1
  <2>3. \A m \in K : \E i \in A : g[i] = m
    <3> SUFFICES ASSUME NEW m \in K PROVE \E i \in A : g[i] = m
      OBVIOUS
    <3>1. PICK i \in U : r[i] = m - 1
      BY <1>9 DEF Surjection
    <3> QED
      BY <3>1
  <2> HIDE DEF g, A, K
  <2>4. g \in Injection(A, K)
    BY <2>1, <2>2 DEF Injection, IsInjective
  <2>5. g \in Surjection(A, K)
    BY <2>1, <2>3 DEF Surjection
  <2> QED
    BY <2>4, <2>5 DEF Bijection
<1>11. IsFiniteSet(A) /\ IsFiniteSet(K) /\ Cardinality(K) = k
  BY <1>1, FS_Subset, UpTo
<1> HIDE DEF g, A, K
<1>12. Cardinality(A) = k
  <2>1. ExistsBijection(A, K)
    BY <1>10 DEF ExistsBijection
  <2> QED
    BY <1>11, <2>1, FS_Bijection
<1>13. A = {i \in 1 .. n : Cardinality(Ahead(rest, n, i)) < k}
  BY <1>3 DEF A
<1> QED
  BY <1>12, <1>13

\* The parts of a price: their sum is the price, whatever the weights, and none is a cent
\* or more away from its exact share.
THEOREM SplitIsExact ==
  ASSUME NEW n \in Nat \ {0}, NEW weights, Weighs(weights, n), NEW amount \in Int
  PROVE  LET parts == SplitCost(amount, weights)
             final == Final(weights)
             sum == Total(final)
         IN  /\ parts \in [1 .. n -> Int] /\ (amount >= 0 => parts \in [1 .. n -> Nat])
             /\ Total(parts) = amount
             /\ \A i \in 1 .. n : LET gap == parts[i] * sum - amount * final[i] IN
                                  gap < sum /\ -gap < sum
<1> DEFINE U == 1 .. n
           final == Final(weights)
           sum == Total(final)
           exact == [i \in U |-> amount * final[i]]
           floor == [i \in U |-> exact[i] \div sum]
           rest == [i \in U |-> exact[i] % sum]
           left == amount - Total(floor)
           first == {i \in U : Cardinality(Ahead(rest, n, i)) < left}
           cent == [i \in U |-> IF i \in first THEN 1 ELSE 0]
           parts == SplitCost(amount, weights)
<1>1. IsFiniteSet(U) /\ Cardinality(U) = n /\ DOMAIN weights = U
  BY UpTo DEF Weighs
<1>2. final \in [U -> Nat] /\ sum \in Int /\ sum > 0 /\ sum = Over(final, U)
  BY FinalWeighs, TotalOver
<1>3. parts = [i \in U |-> floor[i] + cent[i]]
  <2>1. parts = [i \in U |-> floor[i] + IF Cardinality(Ahead(rest, n, i)) < left THEN 1 ELSE 0]
    BY <1>1 DEF SplitCost, Ahead
  <2> HIDE DEF floor, left, rest, parts
  <2> QED
    BY <2>1
<1> HIDE DEF final, sum, parts
<1>4. \A i \in U : /\ exact[i] \in Int /\ floor[i] \in Int /\ rest[i] \in Int
                   /\ exact[i] = sum * floor[i] + rest[i] /\ 0 <= rest[i] /\ rest[i] < sum
                   /\ exact[i] = amount * final[i] /\ (amount >= 0 => floor[i] >= 0)
  <2> SUFFICES ASSUME NEW i \in U
               PROVE  /\ exact[i] \in Int /\ floor[i] \in Int /\ rest[i] \in Int
                      /\ exact[i] = sum * floor[i] + rest[i] /\ 0 <= rest[i] /\ rest[i] < sum
                      /\ exact[i] = amount * final[i] /\ (amount >= 0 => floor[i] >= 0)
    OBVIOUS
  <2>1. final[i] \in Nat /\ exact[i] = amount * final[i]
    BY <1>2
  <2>2. exact[i] \in Int /\ (amount >= 0 => exact[i] >= 0)
    BY <2>1, Products
  <2>3. floor[i] = exact[i] \div sum /\ rest[i] = exact[i] % sum
    OBVIOUS
  <2> HIDE DEF exact, floor, rest
  <2> DEFINE x == exact[i]
  <2>4. x \in Int /\ sum \in Int /\ sum > 0
    BY <1>2, <2>2
  <2> HIDE DEF x
  <2>5. /\ x \div sum \in Int /\ x % sum \in Int /\ (x >= 0 => x \div sum >= 0)
        /\ x = sum * (x \div sum) + (x % sum) /\ 0 <= x % sum /\ x % sum < sum
    BY <2>4, Euclid
  <2> QED
    BY <2>1, <2>2, <2>3, <2>5 DEF x
<1>5. floor = [y \in U |-> floor[y]] /\ cent = [y \in U |-> cent[y]]
  OBVIOUS
<1> HIDE DEF exact, floor, rest
<1> DEFINE rise == Over(floor, U)
<1>6. Total(floor) = rise
  BY <1>5, TotalOver
<1>7. rise \in Int /\ Over(rest, U) \in Int
  BY <1>1, <1>4, SumRules DEF AddsUp
<1>8. sum * left = Over(rest, U) /\ left \in Int
  <2> DEFINE whole == [i \in U |-> sum * floor[i]]
  <2>1. \A i \in U : whole[i] = sum * floor[i] /\ whole[i] \in Int
    BY <1>2, <1>4, Products
  <2> HIDE DEF whole
  <2>2. Over(whole, U) = sum * rise
    <3>1. sum \in Int /\ \A i \in U : floor[i] \in Int /\ whole[i] = sum * floor[i]
      BY <1>2, <1>4, <2>1
    <3> QED
      BY <1>1, <3>1, SumScales
  <2>3. Over(exact, U) = Over(whole, U) + Over(rest, U)
    BY <1>1, <1>4, <2>1, SumAdds
  <2>4. Over(exact, U) = amount * sum
    <3>1. \A i \in U : final[i] \in Int /\ exact[i] = amount * final[i]
      BY <1>2, <1>4
    <3> QED
      BY <1>1, <1>2, <3>1, SumScales
  <2>5. left = amount - rise
    BY <1>6
  <2> HIDE DEF left, rise
  <2>6. \A a, b, c \in Int : a * (b - c) = b * a - a * c
    OBVIOUS
  <2>7. sum * left = amount * sum - sum * rise
    BY <1>2, <1>7, <2>5, <2>6
  <2>8. amount * sum = sum * rise + Over(rest, U)
    BY <2>2, <2>3, <2>4
  <2>9. amount * sum \in Int /\ sum * rise \in Int
    BY <1>2, <1>7, Products
  <2> QED
    BY <1>7, <2>5, <2>7, <2>8, <2>9
<1> DEFINE over == {i \in U : rest[i] > 0}
           one == [i \in U |-> IF i \in over THEN 1 ELSE 0]
<1>9. over \in SUBSET U /\ IsFiniteSet(over) /\ Cardinality(over) \in Nat /\ Cardinality(over) <= n
  BY <1>1, FS_Subset, FS_CardinalityType
<1> HIDE DEF left, rise
<1>10. 0 <= left /\ left <= Cardinality(over)
  <2> DEFINE most == [i \in U |-> sum * one[i]]
             least == [i \in U |-> 0 * one[i]]
  <2>1. \A i \in U : /\ one[i] \in Int /\ most[i] = sum * one[i] /\ least[i] = 0 * one[i]
                     /\ most[i] \in Int /\ least[i] \in Int
                     /\ rest[i] <= most[i] /\ least[i] <= rest[i]
    BY <1>2, <1>4
  <2>2. Over(one, U) = Cardinality(over)
    BY <1>1, <1>9, SumCounts
  <2> HIDE DEF most, least, one, over
  <2>3. Over(most, U) = sum * Cardinality(over) /\ Over(least, U) = 0 * Cardinality(over)
    <3>1. sum \in Int /\ 0 \in Int
      BY <1>2
    <3>2. Over(most, U) = sum * Over(one, U)
      BY <1>1, <2>1, <3>1, SumScales
    <3>3. Over(least, U) = 0 * Over(one, U)
      BY <1>1, <2>1, <3>1, SumScales
    <3> QED
      BY <2>2, <3>2, <3>3
  <2>4. Over(rest, U) <= Over(most, U) /\ Over(least, U) <= Over(rest, U)
    BY <1>1, <1>4, <2>1, SumBounds
  <2>5. sum * left <= sum * Cardinality(over) /\ sum * 0 <= sum * left
    BY <1>2, <1>8, <1>9, <2>3, <2>4
  <2> QED
    BY <1>2, <1>8, <1>9, <2>5, Cancels
<1>11. Cardinality(first) = left
  <2>1. left \in 0 .. n /\ \A i \in 1 .. n : rest[i] \in Int
    BY <1>4, <1>8, <1>9, <1>10
  <2> QED
    BY <2>1, FirstOnes
<1>12. \A i \in first : rest[i] > 0
  <2> SUFFICES ASSUME NEW i \in first, ~ rest[i] > 0 PROVE FALSE
    OBVIOUS
  <2>1. Ahead(rest, n, i) \in SUBSET U /\ over \in SUBSET Ahead(rest, n, i)
    BY <1>4 DEF Ahead
  <2>2. IsFiniteSet(Ahead(rest, n, i)) /\ Cardinality(Ahead(rest, n, i)) \in Nat
    BY <1>1, <2>1, FS_Subset, FS_CardinalityType
  <2>3. Cardinality(over) <= Cardinality(Ahead(rest, n, i))
    BY <2>1, <2>2, FS_Subset
  <2>4. Cardinality(Ahead(rest, n, i)) < left
    OBVIOUS
  <2> HIDE DEF over
  <2> QED
    BY <1>8, <1>9, <1>10, <2>2, <2>3, <2>4
<1>13. \A i \in U : /\ cent[i] \in {0, 1} /\ (cent[i] = 1 => i \in first)
                    /\ parts[i] = floor[i] + cent[i]
  BY <1>3
<1>14. Total(parts) = amount
  <2>1. Over(cent, U) = left
    BY <1>1, <1>11, SumCounts
  <2> HIDE DEF cent
  <2>2. \A i \in U : floor[i] \in Int /\ cent[i] \in Int /\ parts[i] = floor[i] + cent[i]
    BY <1>4, <1>13
  <2>3. Over(parts, U) = rise + left
    BY <1>1, <2>1, <2>2, SumAdds DEF rise
  <2>4. parts = [y \in U |-> parts[y]]
    BY <1>3
  <2>5. left = amount - rise
    BY <1>6 DEF left
  <2> QED
    BY <1>7, <2>3, <2>4, <2>5, TotalOver
<1> HIDE DEF first, cent
<1>15. parts \in [U -> Int] /\ (amount >= 0 => parts \in [U -> Nat])
  BY <1>3, <1>4, <1>13
<1>16. \A i \in U : LET gap == parts[i] * sum - amount * final[i] IN gap < sum /\ -gap < sum
  <2> SUFFICES ASSUME NEW i \in U
               PROVE  LET gap == parts[i] * sum - amount * final[i] IN gap < sum /\ -gap < sum
    OBVIOUS
  <2>1. \A a, b, s, c, r \in Int : a = b + c => a * s - (s * b + r) = c * s - r
    OBVIOUS
  <2>2. parts[i] * sum - amount * final[i] = cent[i] * sum - rest[i]
    <3>1. /\ parts[i] \in Int /\ sum \in Int
          /\ floor[i] \in Int /\ cent[i] \in Int /\ rest[i] \in Int
          /\ parts[i] = floor[i] + cent[i] /\ amount * final[i] = sum * floor[i] + rest[i]
      BY <1>2, <1>4, <1>13, <1>15
    <3>2. parts[i] * sum - (sum * floor[i] + rest[i]) = cent[i] * sum - rest[i]
      BY <2>1, <3>1
    <3> QED
      BY <3>1, <3>2
  <2>3. CASE cent[i] = 0
    BY <1>2, <1>4, <2>2, <2>3
  <2>4. CASE cent[i] = 1
    BY <1>2, <1>4, <1>12, <1>13, <2>2, <2>4
  <2> QED
    BY <1>13, <2>3, <2>4
<1> QED
  BY <1>14, <1>15, <1>16 DEF parts, final, sum
-----------------------------------------------------------------------------
(* Sequences that are filtered, or put end to end.                         *)

\* A set of numbers up to n has a greatest one.
LEMMA Greatest ==
  ASSUME NEW n \in Nat, NEW T \in SUBSET (1 .. n), T # {}
  PROVE  Max(T) \in T /\ \A y \in T : Max(T) >= y
<1> DEFINE far == {n - y : y \in T}
<1>1. far \in SUBSET Nat /\ far # {}
  <2>1. \A y \in T : y \in 1 .. n /\ n - y \in Nat
    OBVIOUS
  <2> QED
    BY <2>1
<1>2. PICK m \in far : \A k \in far : m <= k
  BY <1>1, Least
<1>3. PICK x \in T : m = n - x
  OBVIOUS
<1>4. \A y \in T : x >= y
  <2> SUFFICES ASSUME NEW y \in T PROVE x >= y
    OBVIOUS
  <2>1. x \in Int /\ y \in Int /\ n - y \in far
    OBVIOUS
  <2>2. n - x <= n - y
    BY <1>2, <1>3, <2>1
  <2> HIDE DEF far
  <2> QED
    BY <2>1, <2>2
<1> QED
  BY <1>4 DEF Max

\* A filter gives a sequence of the elements that are wanted.
Keeps(v, s, S, D) ==
  v = [T \in SUBSET D |->
         IF T = {} THEN <<>>
         ELSE LET x == Max(T) IN
              IF s[x] \in S THEN Append(v[T \ {x}], s[x]) ELSE v[T \ {x}]]

\* There is such a thing.
LEMMA KeepsExists ==
  ASSUME NEW n \in Nat, NEW s, NEW S
  PROVE  \E v : Keeps(v, s, S, 1 .. n)
<1> DEFINE U == 1 .. n
           G == {V \in SUBSET U : \E v : Keeps(v, s, S, V)}
<1>1. {} \in G
  <2>1. Keeps([T \in SUBSET {} |-> <<>>], s, S, {})
    BY DEF Keeps
  <2> QED
    BY <2>1
<1>2. ASSUME NEW V \in SUBSET U, V # {}, V \ {Max(V)} \in G
      PROVE  V \in G
  <2> DEFINE m == Max(V)
  <2>1. m \in V /\ \A y \in V : m >= y
    BY <1>2, Greatest
  <2>2. PICK w : Keeps(w, s, S, V \ {m})
    BY <1>2
  <2> DEFINE last(k) == IF s[m] \in S THEN Append(k, s[m]) ELSE k
             h == [T \in SUBSET V |-> IF m \in T THEN last(w[T \ {m}]) ELSE w[T]]
  <2>3. \A T \in SUBSET V : m \in T => Max(T) = m
    <3> SUFFICES ASSUME NEW T \in SUBSET V, m \in T PROVE Max(T) = m
      OBVIOUS
    <3>1. Max(T) \in T /\ \A y \in T : Max(T) >= y
      BY Greatest
    <3> HIDE DEF m
    <3>2. Max(T) \in V /\ m >= Max(T) /\ Max(T) >= m
      BY <2>1, <3>1
    <3>3. m \in Int /\ Max(T) \in Int
      <4>1. \A y \in V : y \in Int
        OBVIOUS
      <4> QED
        BY <2>1, <3>2, <4>1
    <3> QED
      BY <3>2, <3>3
  <2> HIDE DEF m
  <2>4. ASSUME NEW T \in SUBSET V
        PROVE  h[T] = IF T = {} THEN <<>>
                      ELSE LET x == Max(T) IN
                           IF s[x] \in S THEN Append(h[T \ {x}], s[x]) ELSE h[T \ {x}]
    <3>1. CASE m \in T
      <4>1. h[T] = last(w[T \ {m}]) /\ h[T \ {m}] = w[T \ {m}] /\ Max(T) = m
        BY <2>3, <3>1
      <4> QED
        BY <3>1, <4>1
    <3>2. CASE m \notin T /\ T # {}
      <4>1. T \in SUBSET (V \ {m}) /\ h[T] = w[T] /\ h[T \ {Max(T)}] = w[T \ {Max(T)}]
        BY <3>2
      <4> HIDE DEF h
      <4> QED
        BY <2>2, <3>2, <4>1 DEF Keeps
    <3>3. CASE T = {}
      <4>1. h[T] = w[T] /\ T \in SUBSET (V \ {m})
        BY <3>3
      <4> HIDE DEF h
      <4> QED
        BY <2>2, <3>3, <4>1 DEF Keeps
    <3> QED
      BY <3>1, <3>2, <3>3
  <2>5. h = [T \in SUBSET V |-> h[T]]
    OBVIOUS
  <2> HIDE DEF h
  <2>6. Keeps(h, s, S, V)
    BY <2>4, <2>5 DEF Keeps
  <2> QED
    BY <2>6
<1> HIDE DEF G
<1>3. \A T \in SUBSET U : T # {} => \E x \in T : T \ {x} \in G => T \in G
  BY <1>2, Greatest
<1>4. IsFiniteSet(U)
  BY UpTo
<1>5. \A T \in SUBSET U : T \in G
  BY <1>1, <1>3, <1>4, SetInduction, Zenon
<1> QED
  BY <1>5 DEF G

\* It keeps elements of the sequence that are in the set.
LEMMA AmongRule ==
  ASSUME NEW X, NEW s \in Seq(X), NEW S
  PROVE  Among(s, S) \in Seq(X \cap S)
<1> DEFINE D == DOMAIN s
           n == Len(s)
           iter == CHOOSE v : Keeps(v, s, S, D)
<1>1. n \in Nat /\ D = 1 .. n /\ \A i \in D : s[i] \in X
  OBVIOUS
<1>2. Among(s, S) = iter[D]
  BY DEF Among, FoldLeft, MapThenFoldSet, Keeps
<1> HIDE DEF D, n
<1>3. Keeps(iter, s, S, D)
  BY <1>1, KeepsExists
<1> HIDE DEF iter
<1> DEFINE G == {T \in SUBSET D : iter[T] \in Seq(X \cap S)}
<1>4. {} \in G
  BY <1>3 DEF Keeps
<1>5. ASSUME NEW T \in SUBSET D, T # {}, T \ {Max(T)} \in G PROVE T \in G
  <2>1. Max(T) \in D /\ s[Max(T)] \in X
    <3>1. Max(T) \in T
      BY <1>1, <1>5, Greatest
    <3> QED
      BY <1>1, <3>1
  <2>2. iter[T] = IF s[Max(T)] \in S THEN Append(iter[T \ {Max(T)}], s[Max(T)])
                  ELSE iter[T \ {Max(T)}]
    BY <1>3, <1>5 DEF Keeps
  <2>3. iter[T \ {Max(T)}] \in Seq(X \cap S)
    BY <1>5
  <2>4. iter[T] \in Seq(X \cap S)
    <3>1. CASE s[Max(T)] \in S
      BY <2>1, <2>2, <2>3, <3>1
    <3>2. CASE s[Max(T)] \notin S
      BY <2>2, <2>3, <3>2
    <3> QED
      BY <3>1, <3>2
  <2> QED
    BY <2>4
<1> HIDE DEF G
<1>6. \A T \in SUBSET D : T # {} => \E x \in T : T \ {x} \in G => T \in G
  BY <1>1, <1>5, Greatest
<1>7. IsFiniteSet(D)
  BY <1>1, UpTo
<1>8. \A T \in SUBSET D : T \in G
  BY <1>4, <1>6, <1>7, SetInduction, Zenon
<1> QED
  BY <1>2, <1>8 DEF G

\* A filter loses nothing that is wanted.
LEMMA AmongAll ==
  ASSUME NEW X, NEW s \in Seq(X), NEW S
  PROVE  \A i \in DOMAIN s : s[i] \in S => \E k \in DOMAIN Among(s, S) : Among(s, S)[k] = s[i]
<1> DEFINE D == DOMAIN s
           n == Len(s)
           iter == CHOOSE v : Keeps(v, s, S, D)
           Has(q, i) == \E k \in DOMAIN q : q[k] = s[i]
<1>1. n \in Nat /\ D = 1 .. n /\ \A i \in D : s[i] \in X
  OBVIOUS
<1>2. Among(s, S) = iter[D]
  BY DEF Among, FoldLeft, MapThenFoldSet, Keeps
<1> HIDE DEF D, n
<1>3. Keeps(iter, s, S, D)
  BY <1>1, KeepsExists
<1> HIDE DEF iter
<1> DEFINE G == {T \in SUBSET D : /\ iter[T] \in Seq(X)
                                  /\ \A i \in T : s[i] \in S => Has(iter[T], i)}
<1>4. {} \in G
  BY <1>3 DEF Keeps
<1>5. ASSUME NEW T \in SUBSET D, T # {}, T \ {Max(T)} \in G PROVE T \in G
  <2> DEFINE m == Max(T)
             q == iter[T \ {m}]
  <2>1. m \in T /\ m \in D /\ s[m] \in X
    <3>1. m \in T
      BY <1>1, <1>5, Greatest
    <3> QED
      BY <1>1, <3>1
  <2>2. iter[T] = IF s[m] \in S THEN Append(q, s[m]) ELSE q
    BY <1>3, <1>5 DEF Keeps
  <2>3. q \in Seq(X) /\ \A i \in T \ {m} : s[i] \in S => Has(q, i)
    BY <1>5
  <2> HIDE DEF m, q
  <2>4. CASE s[m] \in S
    <3> DEFINE r == Append(q, s[m])
    <3>1. /\ r \in Seq(X) /\ Len(q) \in Nat /\ DOMAIN q = 1 .. Len(q)
          /\ DOMAIN r = 1 .. Len(q) + 1 /\ r[Len(q) + 1] = s[m]
          /\ \A k \in 1 .. Len(q) : r[k] = q[k]
      BY <2>1, <2>3
    <3> HIDE DEF r
    <3>2. \A k \in DOMAIN q : k \in DOMAIN r /\ r[k] = q[k]
      BY <3>1
    <3>3. Len(q) + 1 \in DOMAIN r
      BY <3>1
    <3>4. \A i \in T : s[i] \in S => Has(r, i)
      BY <2>3, <3>1, <3>2, <3>3
    <3>5. iter[T] = r
      BY <2>2, <2>4 DEF r
    <3> QED
      BY <3>1, <3>4, <3>5
  <2>5. CASE s[m] \notin S
    BY <2>2, <2>3, <2>5
  <2> QED
    BY <2>4, <2>5
<1> HIDE DEF G
<1>6. \A T \in SUBSET D : T # {} => \E x \in T : T \ {x} \in G => T \in G
  BY <1>1, <1>5, Greatest
<1>7. IsFiniteSet(D)
  BY <1>1, UpTo
<1>8. \A T \in SUBSET D : T \in G
  BY <1>4, <1>6, <1>7, SetInduction, Zenon
<1>9. D \in G
  BY <1>8
<1> QED
  BY <1>2, <1>9 DEF G, D

\* Two sets that agree on the elements of a sequence filter it alike.
LEMMA AmongSame ==
  ASSUME NEW X, NEW s \in Seq(X), NEW S, NEW R, \A i \in DOMAIN s : s[i] \in S <=> s[i] \in R
  PROVE  Among(s, S) = Among(s, R)
<1> DEFINE D == DOMAIN s
           n == Len(s)
           one == CHOOSE v : Keeps(v, s, S, D)
           two == CHOOSE v : Keeps(v, s, R, D)
<1>1. n \in Nat /\ D = 1 .. n
  OBVIOUS
<1>2. Among(s, S) = one[D] /\ Among(s, R) = two[D]
  BY DEF Among, FoldLeft, MapThenFoldSet, Keeps
<1>3. \A i \in D : s[i] \in S <=> s[i] \in R
  OBVIOUS
<1> HIDE DEF D, n
<1>4. Keeps(one, s, S, D) /\ Keeps(two, s, R, D)
  BY <1>1, KeepsExists
<1> HIDE DEF one, two
<1> DEFINE G == {T \in SUBSET D : one[T] = two[T]}
<1>5. {} \in G
  BY <1>4 DEF Keeps
<1>6. ASSUME NEW T \in SUBSET D, T # {}, T \ {Max(T)} \in G PROVE T \in G
  <2>1. Max(T) \in D
    <3>1. Max(T) \in T
      BY <1>1, <1>6, Greatest
    <3> QED
      BY <3>1
  <2>2. one[T] = IF s[Max(T)] \in S THEN Append(one[T \ {Max(T)}], s[Max(T)])
                 ELSE one[T \ {Max(T)}]
    BY <1>4, <1>6 DEF Keeps
  <2>3. two[T] = IF s[Max(T)] \in R THEN Append(two[T \ {Max(T)}], s[Max(T)])
                 ELSE two[T \ {Max(T)}]
    BY <1>4, <1>6 DEF Keeps
  <2>4. one[T \ {Max(T)}] = two[T \ {Max(T)}]
    BY <1>6
  <2> QED
    BY <1>3, <2>1, <2>2, <2>3, <2>4
<1> HIDE DEF G
<1>7. \A T \in SUBSET D : T # {} => \E x \in T : T \ {x} \in G => T \in G
  BY <1>1, <1>6, Greatest
<1>8. IsFiniteSet(D)
  BY <1>1, UpTo
<1>9. \A T \in SUBSET D : T \in G
  BY <1>5, <1>7, <1>8, SetInduction, Zenon
<1> QED
  BY <1>2, <1>9 DEF G
-----------------------------------------------------------------------------
\* Sequences put end to end.
Flattens(f, seqs, n) == f = [i \in 1 .. n |-> IF i = 1 THEN seqs[i] ELSE f[i - 1] \o seqs[i]]

\* There is such a thing.
LEMMA FlattensExists ==
  ASSUME NEW n \in Nat, NEW seqs
  PROVE  \E f : Flattens(f, seqs, n)
<1> DEFINE bad == {k \in Nat : ~ \E f : Flattens(f, seqs, k)}
<1> SUFFICES ASSUME bad # {} PROVE FALSE
  OBVIOUS
<1>1. PICK k \in bad : \A m \in bad : k <= m
  BY Least
<1>2. k \in Nat \ {0}
  <2>1. Flattens([i \in 1 .. 0 |-> i], seqs, 0)
    BY DEF Flattens
  <2> QED
    BY <2>1
<1>3. PICK f : Flattens(f, seqs, k - 1)
  <2>1. k - 1 \in Nat /\ k - 1 \notin bad
    BY <1>1, <1>2
  <2> QED
    BY <2>1
<1> DEFINE h == [i \in 1 .. k |-> IF i < k THEN f[i]
                                  ELSE IF i = 1 THEN seqs[i] ELSE f[i - 1] \o seqs[i]]
<1>4. \A i \in 1 .. k : h[i] = IF i = 1 THEN seqs[i] ELSE h[i - 1] \o seqs[i]
  <2> SUFFICES ASSUME NEW i \in 1 .. k
               PROVE  h[i] = IF i = 1 THEN seqs[i] ELSE h[i - 1] \o seqs[i]
    OBVIOUS
  <2>1. i # 1 => i - 1 \in 1 .. k /\ i - 1 < k /\ h[i - 1] = f[i - 1]
    BY <1>2
  <2>2. CASE i < k
    <3>1. h[i] = f[i] /\ i \in 1 .. k - 1
      BY <1>2, <2>2
    <3> HIDE DEF h
    <3>2. f[i] = IF i = 1 THEN seqs[i] ELSE f[i - 1] \o seqs[i]
      BY <1>3, <3>1 DEF Flattens
    <3> QED
      BY <2>1, <3>1, <3>2
  <2>3. CASE i = k
    <3>1. h[i] = IF i = 1 THEN seqs[i] ELSE f[i - 1] \o seqs[i]
      BY <2>3
    <3> HIDE DEF h
    <3>2. CASE i = 1
      BY <3>1, <3>2
    <3>3. CASE i # 1
      BY <2>1, <3>1, <3>3
    <3> QED
      BY <3>2, <3>3
  <2> QED
    BY <2>2, <2>3
<1>5. h = [i \in 1 .. k |-> h[i]]
  OBVIOUS
<1> HIDE DEF h
<1>6. Flattens(h, seqs, k)
  BY <1>4, <1>5 DEF Flattens
<1> QED
  BY <1>6

\* Where the k-th of n sequences put end to end ends, when it is c[k] long.
Ends(u, c, n) == u = [k \in 0 .. n |-> IF k = 0 THEN 0 ELSE u[k - 1] + c[k]]

\* There is such a thing.
LEMMA EndsExist ==
  ASSUME NEW n \in Nat, NEW c
  PROVE  \E u : Ends(u, c, n)
<1> DEFINE bad == {k \in Nat : ~ \E u : Ends(u, c, k)}
<1> SUFFICES ASSUME bad # {} PROVE FALSE
  OBVIOUS
<1>1. PICK k \in bad : \A m \in bad : k <= m
  BY Least
<1>2. k \in Nat \ {0}
  <2>1. Ends([i \in 0 .. 0 |-> 0], c, 0)
    BY DEF Ends
  <2> QED
    BY <2>1
<1>3. PICK f : Ends(f, c, k - 1)
  <2>1. k - 1 \in Nat /\ k - 1 \notin bad
    BY <1>1, <1>2
  <2> QED
    BY <2>1
<1> DEFINE h == [i \in 0 .. k |-> IF i < k THEN f[i] ELSE f[i - 1] + c[i]]
<1>4. \A i \in 0 .. k : h[i] = IF i = 0 THEN 0 ELSE h[i - 1] + c[i]
  <2> SUFFICES ASSUME NEW i \in 0 .. k
               PROVE  h[i] = IF i = 0 THEN 0 ELSE h[i - 1] + c[i]
    OBVIOUS
  <2>1. i # 0 => i - 1 \in 0 .. k /\ i - 1 < k /\ h[i - 1] = f[i - 1]
    BY <1>2
  <2>2. CASE i < k
    <3>1. h[i] = f[i] /\ i \in 0 .. k - 1
      BY <1>2, <2>2
    <3> HIDE DEF h
    <3>2. f[i] = IF i = 0 THEN 0 ELSE f[i - 1] + c[i]
      BY <1>3, <3>1 DEF Ends
    <3> QED
      BY <2>1, <3>1, <3>2
  <2>3. CASE i = k
    <3>1. h[i] = f[i - 1] + c[i] /\ i # 0
      BY <1>2, <2>3
    <3> HIDE DEF h
    <3> QED
      BY <2>1, <3>1
  <2> QED
    BY <2>2, <2>3
<1>5. h = [i \in 0 .. k |-> h[i]]
  OBVIOUS
<1> HIDE DEF h
<1>6. Ends(h, c, k)
  BY <1>4, <1>5 DEF Ends
<1> QED
  BY <1>6

\* Each end is its length after the one before it.
Ordered(u, c, n) ==
  /\ u[0] = 0 /\ \A k \in 0 .. n : u[k] \in Nat
  /\ \A k \in 1 .. n : u[k] = u[k - 1] + c[k] /\ u[k - 1] <= u[k] /\ u[k - 1] \in Nat
  /\ \A i, j \in 0 .. n : i <= j => u[i] <= u[j]

\* The ends of sequences are.
LEMMA EndsGrow ==
  ASSUME NEW n \in Nat, NEW c, \A k \in 1 .. n : c[k] \in Nat, NEW u, Ends(u, c, n)
  PROVE  Ordered(u, c, n)
<1>1. \A k \in 0 .. n : u[k] = IF k = 0 THEN 0 ELSE u[k - 1] + c[k]
  BY DEF Ends
<1>2. u[0] = 0 /\ \A k \in 1 .. n : u[k] = u[k - 1] + c[k] /\ k - 1 \in 0 .. n
  BY <1>1
<1>3. \A k \in 0 .. n : u[k] \in Nat
  <2> DEFINE bad == {k \in 0 .. n : u[k] \notin Nat}
  <2> SUFFICES ASSUME bad # {} PROVE FALSE
    OBVIOUS
  <2>0. bad \in SUBSET Nat
    OBVIOUS
  <2>1. PICK k \in bad : \A m \in bad : k <= m
    BY <2>0, Least
  <2>2. k \in 1 .. n
    BY <1>2
  <2>3. k - 1 \notin bad
    BY <2>1, <2>2
  <2>4. u[k - 1] \in Nat
    BY <2>2, <2>3
  <2> QED
    BY <1>2, <2>2, <2>4
<1>4. \A k \in 1 .. n : u[k - 1] <= u[k] /\ u[k - 1] \in Nat
  <2> SUFFICES ASSUME NEW k \in 1 .. n PROVE u[k - 1] <= u[k] /\ u[k - 1] \in Nat
    OBVIOUS
  <2>1. u[k - 1] \in Nat /\ c[k] \in Nat /\ u[k] = u[k - 1] + c[k]
    BY <1>2, <1>3
  <2> QED
    BY <2>1
<1>5. ASSUME NEW i \in 0 .. n PROVE \A j \in 0 .. n : i <= j => u[i] <= u[j]
  <2> DEFINE bad == {j \in 0 .. n : i <= j /\ ~ u[i] <= u[j]}
  <2> SUFFICES ASSUME bad # {} PROVE FALSE
    OBVIOUS
  <2>0. bad \in SUBSET Nat
    OBVIOUS
  <2>1. PICK j \in bad : \A m \in bad : j <= m
    BY <2>0, Least
  <2>2. j # i /\ j \in 1 .. n /\ j - 1 \in 0 .. n /\ i <= j - 1
    BY <1>3
  <2>3. j - 1 \notin bad
    BY <2>1, <2>2
  <2>4. u[i] <= u[j - 1] /\ u[j - 1] <= u[j]
    BY <1>4, <2>2, <2>3
  <2>5. u[i] \in Nat /\ u[j - 1] \in Nat /\ u[j] \in Nat
    BY <1>3, <2>2
  <2> QED
    BY <2>4, <2>5
<1> QED
  BY <1>2, <1>3, <1>4, <1>5 DEF Ordered

\* The places of the k-th one.
Block(u, k) == u[k - 1] + 1 .. u[k]

\* Each place is in one of them.
LEMMA BlockOf ==
  ASSUME NEW n \in Nat, NEW c, NEW u, Ordered(u, c, n), NEW p \in 1 .. u[n]
  PROVE  \E k \in 1 .. n : p \in Block(u, k)
<1> DEFINE far == {k \in 0 .. n : p <= u[k]}
<1>0. u[n] \in Nat /\ p \in Nat /\ p >= 1 /\ p <= u[n] /\ n \in 0 .. n
  BY DEF Ordered
<1>1. far \in SUBSET Nat /\ far # {}
  BY <1>0
<1>2. PICK k \in far : \A m \in far : k <= m
  BY <1>1, Least
<1>3. k \in 1 .. n
  <2>1. k # 0
    BY <1>0, <1>2 DEF Ordered
  <2> QED
    BY <2>1
<1>4. k - 1 \in 0 .. n /\ k - 1 \notin far
  BY <1>2, <1>3
<1>5. ~ p <= u[k - 1] /\ u[k - 1] \in Nat /\ u[k] \in Nat
  BY <1>3, <1>4 DEF Ordered
<1>6. p \in Block(u, k)
  BY <1>0, <1>5 DEF Block
<1> QED
  BY <1>3, <1>6

\* Its rank there.
LEMMA RankInBlock ==
  ASSUME NEW n \in Nat, NEW c, \A k \in 1 .. n : c[k] \in Nat, NEW u, Ordered(u, c, n),
         NEW k \in 1 .. n, NEW p \in Block(u, k)
  PROVE  \E q \in 1 .. c[k] : u[k - 1] + q = p
<1>1. u[k - 1] \in Nat /\ u[k] = u[k - 1] + c[k] /\ c[k] \in Nat
  BY DEF Ordered
<1>2. p \in u[k - 1] + 1 .. u[k]
  BY DEF Block
<1>3. p - u[k - 1] \in 1 .. c[k] /\ u[k - 1] + (p - u[k - 1]) = p
  BY <1>1, <1>2
<1> QED
  BY <1>3

\* And in one only.
LEMMA BlocksApart ==
  ASSUME NEW n \in Nat, NEW c, NEW u, Ordered(u, c, n), NEW k \in 1 .. n, NEW l \in 1 .. n,
         NEW p \in Block(u, k), p \in Block(u, l)
  PROVE  k = l
<1>1. \A i, j \in 1 .. n : p \in Block(u, i) /\ p \in Block(u, j) => ~ i < j
  <2> SUFFICES ASSUME NEW i \in 1 .. n, NEW j \in 1 .. n, i < j,
                      p \in Block(u, i), p \in Block(u, j)
               PROVE  FALSE
    OBVIOUS
  <2>1. i \in 0 .. n /\ j - 1 \in 0 .. n /\ i <= j - 1
    OBVIOUS
  <2>2. u[i] <= u[j - 1] /\ u[i] \in Nat /\ u[j - 1] \in Nat /\ u[i - 1] \in Nat /\ u[j] \in Nat
    BY <2>1 DEF Ordered
  <2> QED
    BY <2>2 DEF Block
<1> QED
  BY <1>1

\* The k-th sequence is at its places.
Lays(r, seqs, c, u, n) == \A k \in 1 .. n : \A q \in 1 .. c[k] : r[u[k - 1] + q] = seqs[k][q]

\* n sequences of elements of X, the k-th one c[k] long.
Pieces(seqs, c, n, X) ==
  /\ Len(seqs) = n /\ seqs = [i \in 1 .. n |-> seqs[i]]
  /\ \A k \in 1 .. n : seqs[k] \in Seq(X) /\ Len(seqs[k]) = c[k]

\* Sequences put end to end are each at their places.
LEMMA FlattenLays ==
  ASSUME NEW X, NEW n \in Nat, NEW seqs, NEW c, Pieces(seqs, c, n, X), NEW u, Ends(u, c, n)
  PROVE  /\ FlattenSeq(seqs) \in Seq(X) /\ Len(FlattenSeq(seqs)) = u[n]
         /\ Lays(FlattenSeq(seqs), seqs, c, u, n) /\ Ordered(u, c, n)
<1>a. /\ Len(seqs) = n /\ seqs = [i \in 1 .. n |-> seqs[i]]
      /\ \A k \in 1 .. n : seqs[k] \in Seq(X) /\ Len(seqs[k]) = c[k]
  BY DEF Pieces
<1>0. \A k \in 1 .. n : c[k] \in Nat
  <2>1. \A s \in Seq(X) : Len(s) \in Nat
    OBVIOUS
  <2> QED
    BY <1>a, <2>1
<1>ord. Ordered(u, c, n)
  BY <1>0, EndsGrow
<1>1. CASE n = 0
  <2>1. FlattenSeq(seqs) = seqs /\ u[0] = 0
    BY <1>1, <1>a, <1>ord DEF FlattenSeq, Ordered
  <2>2. seqs \in Seq(X) /\ Len(seqs) = 0
    BY <1>1, <1>a
  <2>3. 1 .. n = {}
    BY <1>1
  <2> QED
    BY <1>1, <1>ord, <2>1, <2>2, <2>3 DEF Lays
<1>2. CASE n # 0
  <2> DEFINE f == CHOOSE f : Flattens(f, seqs, n)
             Good(i) == f[i] \in Seq(X) /\ Len(f[i]) = u[i] /\ Lays(f[i], seqs, c, u, i)
             bad == {i \in 1 .. n : ~Good(i)}
  <2>1. FlattenSeq(seqs) = f[n]
    BY <1>2, <1>a DEF FlattenSeq, Flattens
  <2>2. Flattens(f, seqs, n)
    BY FlattensExists
  <2> HIDE DEF f
  <2>3. bad = {}
    <3> SUFFICES ASSUME bad # {} PROVE FALSE
      OBVIOUS
    <3>0. bad \in SUBSET Nat
      OBVIOUS
    <3>1. PICK i \in bad : \A j \in bad : i <= j
      BY <3>0, Least
    <3>2. i \in 1 .. n /\ f[i] = IF i = 1 THEN seqs[i] ELSE f[i - 1] \o seqs[i]
      BY <2>2 DEF Flattens
    <3>3. /\ u[0] = 0 /\ u[i] = u[i - 1] + c[i] /\ u[i - 1] \in Nat /\ u[i] \in Nat
          /\ seqs[i] \in Seq(X) /\ Len(seqs[i]) = c[i] /\ c[i] \in Nat
      BY <1>0, <1>a, <1>ord, <3>2 DEF Ordered
    <3>4. CASE i = 1
      <4>1. f[i] = seqs[i] /\ u[i] = c[i] /\ u[i - 1] = 0
        BY <3>2, <3>3, <3>4
      <4>2. Lays(f[i], seqs, c, u, i)
        <5> SUFFICES ASSUME NEW k \in 1 .. i, NEW q \in 1 .. c[k]
                     PROVE  f[i][u[k - 1] + q] = seqs[k][q]
          BY DEF Lays
        <5>1. k = i /\ u[k - 1] + q = q
          BY <3>4, <4>1
        <5> QED
          BY <4>1, <5>1
      <4>3. f[i] \in Seq(X) /\ Len(f[i]) = u[i]
        BY <3>3, <4>1
      <4> QED
        BY <4>2, <4>3
    <3>5. CASE i # 1
      <4> DEFINE a == f[i - 1]
                 b == seqs[i]
                 r == a \o b
      <4>1. i - 1 \in 1 .. n /\ i - 1 \notin bad
        <5>1. i - 1 \in 1 .. n /\ ~ i <= i - 1
          BY <3>2, <3>5
        <5> HIDE DEF bad
        <5> QED
          BY <3>1, <5>1
      <4>2. a \in Seq(X) /\ Len(a) = u[i - 1] /\ Lays(a, seqs, c, u, i - 1)
        <5>1. \A j \in 1 .. n : j \notin bad => Good(j)
          OBVIOUS
        <5> HIDE DEF bad, Good
        <5>2. Good(i - 1)
          BY <4>1, <5>1
        <5> QED
          BY <5>2 DEF Good
      <4>3. f[i] = r /\ b \in Seq(X) /\ Len(b) = c[i]
        BY <3>2, <3>3, <3>5
      <4> HIDE DEF a, b
      <4>4. /\ r \in Seq(X) /\ Len(r) = Len(a) + Len(b)
            /\ \A p \in 1 .. Len(a) : r[p] = a[p]
            /\ \A p \in 1 .. Len(b) : r[Len(a) + p] = b[p]
        <5>1. \A s, t \in Seq(X) : /\ s \o t \in Seq(X) /\ Len(s \o t) = Len(s) + Len(t)
                                   /\ \A p \in 1 .. Len(s) : (s \o t)[p] = s[p]
                                   /\ \A p \in 1 .. Len(t) : (s \o t)[Len(s) + p] = t[p]
          OBVIOUS
        <5> QED
          BY <4>2, <4>3, <5>1
      <4> HIDE DEF r
      <4>5. Lays(r, seqs, c, u, i)
        <5> SUFFICES ASSUME NEW k \in 1 .. i, NEW q \in 1 .. c[k]
                     PROVE  r[u[k - 1] + q] = seqs[k][q]
          BY DEF Lays
        <5>1. CASE k = i
          <6>1. q \in 1 .. Len(b) /\ r[Len(a) + q] = b[q]
            BY <4>3, <4>4, <5>1
          <6> QED
            BY <4>2, <5>1, <6>1 DEF b
        <5>2. CASE k # i
          <6>1. k \in 1 .. i - 1 /\ k \in 1 .. n
            BY <3>2, <5>2
          <6>2. a[u[k - 1] + q] = seqs[k][q]
            BY <4>2, <6>1 DEF Lays
          <6>3. u[k] = u[k - 1] + c[k] /\ u[k - 1] \in Nat /\ u[k] <= u[i - 1]
                /\ u[i - 1] \in Nat /\ c[k] \in Nat /\ u[k] \in Nat
            <7>1. k \in 0 .. n /\ i - 1 \in 0 .. n /\ k <= i - 1
              BY <4>1, <6>1
            <7> QED
              BY <1>0, <1>ord, <6>1, <7>1 DEF Ordered
          <6>4. u[k - 1] + q \in 1 .. Len(a)
            BY <4>2, <6>3
          <6> QED
            BY <4>4, <6>2, <6>4
        <5> QED
          BY <5>1, <5>2
      <4>6. Len(r) = u[i]
        BY <3>3, <4>2, <4>3, <4>4
      <4> QED
        BY <4>3, <4>4, <4>5, <4>6
    <3> QED
      BY <3>4, <3>5
  <2>4. Good(n)
    <3>1. n \in 1 .. n /\ n \notin bad
      BY <1>2, <2>3
    <3> QED
      BY <3>1
  <2> QED
    BY <1>ord, <2>1, <2>4
<1> QED
  BY <1>1, <1>2
-----------------------------------------------------------------------------
(* An article is once in a basket.                                         *)

\* A list is told from its entries, all of them values.
IsList(s) == s \in Seq({s[i] : i \in DOMAIN s})

\* A basket of lines, and no article in two of them.
BasketHolds ==
  /\ IsList(basket)
  /\ \A i \in DOMAIN basket :
       basket[i] = [article |-> basket[i].article, price |-> basket[i].price]
  /\ \A i, j \in DOMAIN basket : basket[i].article = basket[j].article => i = j
-----------------------------------------------------------------------------
(* The basket.                                                             *)

\* A list is told from its entries.
LEMMA ListShape == \A s : IsList(s) <=> \E n \in Nat : s = [i \in 1 .. n |-> s[i]]
<1> SUFFICES ASSUME NEW s PROVE IsList(s) <=> \E n \in Nat : s = [i \in 1 .. n |-> s[i]]
  OBVIOUS
<1>1. ASSUME IsList(s) PROVE s = [i \in 1 .. Len(s) |-> s[i]] /\ Len(s) \in Nat
  BY <1>1 DEF IsList
<1>2. ASSUME NEW n \in Nat, s = [i \in 1 .. n |-> s[i]] PROVE IsList(s)
  <2>1. s \in [1 .. n -> {s[i] : i \in DOMAIN s}]
    BY <1>2
  <2> QED
    BY <2>1 DEF IsList
<1> QED
  BY <1>1, <1>2

\* A basket of as many lines as it has articles.
LEMMA NoTwins == BasketHolds => NoTwinsInBasket
<1> SUFFICES ASSUME BasketHolds PROVE NoTwinsInBasket
  OBVIOUS
<1> DEFINE n == Len(basket)
           f == [i \in 1 .. n |-> basket[i].article]
<1>1. n \in Nat /\ DOMAIN basket = 1 .. n
  BY DEF BasketHolds, IsList
<1>2. f \in Bijection(1 .. n, InBasket)
  <2>1. InBasket = {basket[i].article : i \in 1 .. n}
    BY <1>1 DEF InBasket
  <2>2. f \in [1 .. n -> InBasket]
    BY <2>1
  <2>3. \A i, j \in 1 .. n : f[i] = f[j] => i = j
    BY <1>1 DEF BasketHolds
  <2>4. \A a \in InBasket : \E i \in 1 .. n : f[i] = a
    BY <2>1
  <2> HIDE DEF f, n
  <2>5. f \in Injection(1 .. n, InBasket)
    BY <2>2, <2>3 DEF Injection, IsInjective
  <2>6. f \in Surjection(1 .. n, InBasket)
    BY <2>2, <2>4 DEF Surjection
  <2> QED
    BY <2>5, <2>6 DEF Bijection
<1> HIDE DEF f, n
<1>3. IsFiniteSet(1 .. n) /\ Cardinality(1 .. n) = n
  <2>1. 1 \in Int /\ n \in Int /\ (1 > n => n = 0)
    BY <1>1
  <2>2. /\ IsFiniteSet(1 .. n)
        /\ Cardinality(1 .. n) = IF 1 > n THEN 0 ELSE n - 1 + 1
    BY <2>1, FS_Interval
  <2> QED
    BY <2>1, <2>2
<1>4. Cardinality(InBasket) = Cardinality(1 .. n)
  <2>1. ExistsBijection(1 .. n, InBasket)
    BY <1>2 DEF ExistsBijection
  <2> QED
    BY <1>3, <2>1, FS_Bijection
<1> QED
  BY <1>3, <1>4 DEF NoTwinsInBasket, n

\* Whatever is added, it is added once.
LEMMA AddingHolds ==
  ASSUME BasketHolds, NEW a, basket' = Added(a)
  PROVE  BasketHolds'
<1>1. CASE a \in InBasket
  BY <1>1 DEF Added, BasketHolds, IsList
<1>2. CASE a \notin InBasket
  <2> DEFINE n == Len(basket)
             line == [article |-> a, price |-> Null]
  <2>1. n \in Nat /\ DOMAIN basket = 1 .. n
    BY DEF BasketHolds, IsList
  <2>2. basket' = [i \in 1 .. n + 1 |-> IF i = n + 1 THEN line ELSE basket[i]]
    BY <1>2, <2>1 DEF Added, BasketHolds, IsList
  <2>3. \A i \in 1 .. n : basket[i].article # a
    BY <1>2, <2>1 DEF InBasket
  <2>4. line = [article |-> line.article, price |-> line.price] /\ line.article = a
    OBVIOUS
  <2> HIDE DEF n, line
  <2>5. n + 1 \in Nat /\ DOMAIN basket' = 1 .. n + 1
    BY <2>1, <2>2
  <2>6. IsList(basket')
    BY <2>2, <2>5, ListShape
  <2>7. \A i \in DOMAIN basket' :
          (i = n + 1 /\ basket'[i] = line) \/ (i \in 1 .. n /\ basket'[i] = basket[i])
    BY <2>1, <2>2, <2>5
  <2>8. \A i \in DOMAIN basket' :
          basket'[i] = [article |-> basket'[i].article, price |-> basket'[i].price]
    BY <2>1, <2>4, <2>7 DEF BasketHolds
  <2>9. \A i, j \in DOMAIN basket' : basket'[i].article = basket'[j].article => i = j
    BY <2>1, <2>3, <2>4, <2>7 DEF BasketHolds
  <2> QED
    BY <2>6, <2>8, <2>9 DEF BasketHolds, IsList
<1> QED
  BY <1>1, <1>2

\* What is left of a list when a place of it goes.
LEMMA Removed ==
  ASSUME NEW S, NEW s \in Seq(S), NEW i \in DOMAIN s
  PROVE  /\ RemoveAt(s, i) \in Seq(S)
         /\ RemoveAt(s, i) = [k \in 1 .. Len(s) - 1 |-> IF k < i THEN s[k] ELSE s[k + 1]]
<1> DEFINE n == Len(s)
           before == SubSeq(s, 1, i - 1)
           after == SubSeq(s, i + 1, n)
           left == before \o after
<1>1. n \in Nat /\ i \in 1 .. n
  OBVIOUS
<1>2. before = [k \in 1 .. i - 1 |-> s[k]] /\ before \in Seq(S) /\ Len(before) = i - 1
  BY <1>1
<1>3. after = [k \in 1 .. n - i |-> s[k + i]] /\ after \in Seq(S) /\ Len(after) = n - i
  BY <1>1
<1>4. RemoveAt(s, i) = left
  BY DEF RemoveAt
<1> HIDE DEF before, after, n
<1>5. left \in Seq(S) /\ Len(left) = n - 1
  <2>1. \A q, r \in Seq(S) : q \o r \in Seq(S) /\ Len(q \o r) = Len(q) + Len(r)
    OBVIOUS
  <2>2. left \in Seq(S) /\ Len(left) = Len(before) + Len(after)
    BY <1>2, <1>3, <2>1
  <2> HIDE DEF left
  <2>3. i \in Int /\ n \in Int
    BY <1>1
  <2> QED
    BY <1>2, <1>3, <2>2, <2>3
<1>6. \A k \in 1 .. n - 1 : left[k] = IF k < i THEN s[k] ELSE s[k + 1]
  <2> SUFFICES ASSUME NEW k \in 1 .. n - 1
               PROVE  left[k] = IF k < i THEN s[k] ELSE s[k + 1]
    OBVIOUS
  <2>1. CASE k < i
    <3>1. k \in 1 .. i - 1
      BY <1>1, <2>1
    <3>2. left[k] = before[k]
      BY <1>2, <1>3, <3>1
    <3> QED
      BY <1>2, <2>1, <3>1, <3>2
  <2>2. CASE ~ k < i
    <3>1. k \in 1 .. Len(before) + Len(after) /\ k > Len(before)
      BY <1>1, <1>2, <1>3, <2>2
    <3>2. left[k] = after[k - (i - 1)]
      <4>1. before \in Seq(S) /\ after \in Seq(S) /\ Len(before) = i - 1
        BY <1>2, <1>3
      <4>2. left[k] = after[k - Len(before)]
        BY <3>1, <4>1
      <4> QED
        BY <4>1, <4>2
    <3>3. k - (i - 1) \in 1 .. n - i /\ k - (i - 1) + i = k + 1
      BY <1>1, <2>2
    <3> QED
      BY <1>3, <2>2, <3>2, <3>3
  <2> QED
    BY <2>1, <2>2
<1> HIDE DEF left
<1>7. left = [k \in 1 .. n - 1 |-> left[k]]
  BY <1>5
<1> QED
  BY <1>4, <1>5, <1>6, <1>7 DEF n

\* What is left when a line goes.
LEMMA RemovingHolds ==
  ASSUME BasketHolds, NEW i \in DOMAIN basket, basket' = RemoveAt(basket, i)
  PROVE  BasketHolds'
<1> DEFINE n == Len(basket)
<1>1. n \in Nat /\ DOMAIN basket = 1 .. n /\ i \in 1 .. n
  BY DEF BasketHolds, IsList
<1>2. basket' = [k \in 1 .. n - 1 |-> IF k < i THEN basket[k] ELSE basket[k + 1]]
  BY Removed DEF BasketHolds, IsList
<1> HIDE DEF n
<1>3. n - 1 \in Nat /\ DOMAIN basket' = 1 .. n - 1
  BY <1>1, <1>2
<1>4. IsList(basket')
  BY <1>2, <1>3, ListShape
<1>5. \A k \in DOMAIN basket' : \E u \in 1 .. n :
        basket'[k] = basket[u] /\ u = IF k < i THEN k ELSE k + 1
  BY <1>1, <1>2, <1>3
<1>6. \A k \in DOMAIN basket' :
        basket'[k] = [article |-> basket'[k].article, price |-> basket'[k].price]
  BY <1>1, <1>5 DEF BasketHolds
<1>7. \A k, l \in DOMAIN basket' : basket'[k].article = basket'[l].article => k = l
  <2> SUFFICES ASSUME NEW k \in DOMAIN basket', NEW l \in DOMAIN basket',
                      basket'[k].article = basket'[l].article
               PROVE  k = l
    OBVIOUS
  <2>1. k \in Int /\ l \in Int
    BY <1>3
  <2>2. PICK u \in 1 .. n : basket'[k] = basket[u] /\ u = IF k < i THEN k ELSE k + 1
    BY <1>1, <1>5
  <2>3. PICK v \in 1 .. n : basket'[l] = basket[v] /\ v = IF l < i THEN l ELSE l + 1
    BY <1>1, <1>5
  <2>4. u = v
    BY <1>1, <2>2, <2>3 DEF BasketHolds
  <2> QED
    BY <1>1, <2>1, <2>2, <2>3, <2>4
<1> QED
  BY <1>4, <1>6, <1>7 DEF BasketHolds, IsList

\* What each step does to the basket.
LEMMA BasketOf ==
  ASSUME BasketHolds, Next
  PROVE  BasketHolds'
<1>1. ASSUME UNCHANGED basket PROVE BasketHolds'
  BY <1>1 DEF BasketHolds, IsList
<1>2. ASSUME basket' = <<>> PROVE BasketHolds'
  <2>1. basket' = [i \in 1 .. 0 |-> basket'[i]] /\ DOMAIN basket' = {}
    BY <1>2
  <2>2. IsList(basket')
    BY <2>1, ListShape
  <2> QED
    BY <2>1, <2>2 DEF BasketHolds, IsList
<1>3. ASSUME NEW i \in DOMAIN basket, NEW price,
             basket' = [basket EXCEPT ![i].price = price]
      PROVE  BasketHolds'
  <2> DEFINE n == Len(basket)
  <2>1. n \in Nat /\ DOMAIN basket = 1 .. n
    BY DEF BasketHolds, IsList
  <2>2. DOMAIN basket' = 1 .. n /\ basket' = [k \in 1 .. n |-> basket'[k]]
    BY <1>3, <2>1 DEF BasketHolds, IsList
  <2>3. \A k \in 1 .. n : k # i => basket'[k] = basket[k]
    BY <1>3, <2>1
  <2>4. /\ basket'[i] = [article |-> basket'[i].article, price |-> basket'[i].price]
        /\ basket'[i].article = basket[i].article
    BY <1>3, <2>1 DEF BasketHolds
  <2> HIDE DEF n
  <2>5. IsList(basket')
    BY <2>1, <2>2, ListShape
  <2>6. \A k \in DOMAIN basket' :
          basket'[k] = [article |-> basket'[k].article, price |-> basket'[k].price]
    BY <2>1, <2>2, <2>3, <2>4 DEF BasketHolds
  <2>7. \A k \in DOMAIN basket' : basket'[k].article = basket[k].article
    BY <2>2, <2>3, <2>4
  <2>8. \A k, l \in DOMAIN basket' : basket'[k].article = basket'[l].article => k = l
    BY <2>1, <2>2, <2>7 DEF BasketHolds
  <2> QED
    BY <2>5, <2>6, <2>8 DEF BasketHolds, IsList
<1>4. ASSUME NEW a, Ajouter(a) PROVE BasketHolds'
  BY <1>4, AddingHolds DEF Ajouter
<1>5. ASSUME NEW term, NEW found, NEW taken, Decide(term, found, taken) PROVE BasketHolds'
  BY <1>1, <1>4, <1>5 DEF Decide
<1>6. CASE OpenLot
  BY <1>2, <1>6 DEF OpenLot, Clear
<1>7. CASE LotGesture
  BY <1>1, <1>7 DEF LotGesture, till, counter
<1>8. CASE Reload
  BY <1>2, <1>8 DEF Reload, Clear
<1>9. CASE Pay
  BY <1>1, <1>9 DEF Pay, till, counter
<1>10. CASE Api
  BY <1>1, <1>10 DEF Api, Serves, SellMany, CommitSale, FailSale, counter
<1>11. CASE Sale
  <2>1. CASE Enter
    BY <1>1, <1>4, <1>5, <2>1 DEF Enter
  <2>2. CASE Click
    BY <1>4, <2>2 DEF Click
  <2>3. CASE Glance
    BY <1>1, <2>1, <2>2, <2>3 DEF Glance, Arrow, Point, Escape
  <2>4. CASE FinishEntering
    BY <1>1, <1>5, <2>4 DEF FinishEntering
  <2>5. CASE Answered
    BY <1>1, <1>2, <2>5 DEF Answered
  <2>6. CASE Network
    BY <1>1, <2>4, <2>5, <2>6 DEF Network, Propose, Unanswered, counter
  <2>7. CASE Bargain
    <3>1. ASSUME NEW i \in DOMAIN basket, RemoveFromBasket(i) PROVE BasketHolds'
      BY <3>1, RemovingHolds DEF RemoveFromBasket
    <3>2. ASSUME NEW i \in DOMAIN basket, NEW p, EditPrice(i, p) PROVE BasketHolds'
      BY <1>3, <3>2 DEF EditPrice
    <3> QED
      BY <1>1, <2>7, <3>1, <3>2 DEF Bargain, Negotiate, counter
  <2>8. CASE Keystroke
    BY <1>1, <2>8 DEF Keystroke, Type, ChangePlace, Submit, counter
  <2>9. CASE \E r \in Requests, a \in Known : OtherSells(r, a)
    BY <1>1, <2>9 DEF OtherSells, counter
  <2> QED
    BY <1>11, <2>3, <2>6, <2>7, <2>8, <2>9 DEF Sale
<1> QED
  BY <1>6, <1>7, <1>8, <1>9, <1>10, <1>11 DEF Next

\* No article is twice in a basket, however the answers of an Enter, the proposals and the
\* clicks interleave: what adds one looks for it in the basket of that moment.
THEOREM BasketHasNoTwins == Spec => []NoTwinsInBasket
<1>1. Init => BasketHolds
  <2> SUFFICES ASSUME Init PROVE BasketHolds
    OBVIOUS
  <2>1. basket = [i \in 1 .. 0 |-> basket[i]] /\ DOMAIN basket = {}
    BY DEF Init, Empty
  <2>2. IsList(basket)
    BY <2>1, ListShape
  <2> QED
    BY <2>1, <2>2 DEF BasketHolds
<1>2. BasketHolds /\ [Next]_vars => BasketHolds'
  BY BasketOf DEF vars, till, counter, BasketHolds, IsList
<1> QED
  BY <1>1, <1>2, NoTwins, PTL DEF Spec
-----------------------------------------------------------------------------
(* What everything is.                                                     *)
Line == [named: BOOLEAN, price: PriceCells \cup {Null}, count: CountCells \cup {Null}]
BasketLine == [article: Known, price: Prices]
SaleLine == [article: Known, price: Nat]

ArticlesTyped == article \in [Known -> Row] /\ Known \subseteq Range(Articles)
TableTyped == /\ lines = Null \/ lines \in Seq(Line)
              /\ paid \in PaidCells \cup {Null}
FieldTyped == /\ place \in Places /\ typed \in Terms \cup {Nothing}
              /\ proposals \in Seq(Known) /\ hovered \in Int /\ hovered >= -1
              /\ asked \in (Terms \ Short) \cup {Null}
BasketTyped == basket \in Seq(BasketLine) /\ total \in Totals \cup {Null}
Sent == [lines: Seq(SaleLine), due: Nat, checked: BOOLEAN]
SaleTyped == /\ sending \in Requests \cup {Null, "sold", "refused"}
             /\ sale = [r \in Requests |-> sale[r]]
             /\ \A r \in Requests : sale[r] = Null \/ sale[r] \in Sent
CountsTyped == lots \in 0 .. MaxLots /\ strokes \in 0 .. MaxStrokes /\ cashed \in Nat

\* Everything is what it should be, the sales on their way and the table of the lot too.
TradeTyped ==
  ArticlesTyped /\ TableTyped /\ FieldTyped /\ BasketTyped /\ SaleTyped /\ CountsTyped

\* What the constants are.
LEMMA Constants ==
  /\ Null \notin Int /\ MaxLots \in Nat /\ MaxStrokes \in Nat
  /\ Articles \in Seq(Range(Articles)) /\ Deposited \subseteq Range(Articles)
  /\ Labels \cup Totals \cup Prices \subseteq Nat \cup {Null} /\ Null \in Prices
  /\ PriceCells \cup CountCells \cup PaidCells \subseteq Int \cup {Null, Junk}
  BY TradeAssumption DEF TradeAssumption

\* A list of things is a list of more things.
LEMMA SeqGrows == \A S, T : S \subseteq T => Seq(S) \subseteq Seq(T)
<1> SUFFICES ASSUME NEW S, NEW T, S \subseteq T, NEW s \in Seq(S) PROVE s \in Seq(T)
  OBVIOUS
<1>1. s = [i \in 1 .. Len(s) |-> s[i]] /\ Len(s) \in Nat /\ \A i \in 1 .. Len(s) : s[i] \in T
  OBVIOUS
<1> QED
  BY <1>1

\* What the searches find.
LEMMA Found ==
  ASSUME NEW from, NEW term, NEW taken, NEW found \in Seq(Known)
  PROVE  /\ Search(from, term) \in Seq(Known)
         /\ Without(found, taken) \in Seq(Known)
         /\ \A t : Among(found, {t}) \in Seq(Known)
<1>1. \A S : Among(found, S) \in Seq(Known)
  <2> SUFFICES ASSUME NEW S PROVE Among(found, S) \in Seq(Known)
    OBVIOUS
  <2>1. Among(found, S) \in Seq(Known \cap S)
    BY AmongRule
  <2> QED
    BY <2>1, SeqGrows
<1>2. Page(from, term) \in Seq(Known)
  <2> DEFINE S == {a \in Known : Matches(term, a) /\ (from = "online" => article[a].listed)}
             all == Among(Articles, S)
  <2>1. all \in Seq(Range(Articles) \cap S)
    BY Constants, AmongRule
  <2>2. Range(Articles) \cap S \subseteq Known
    OBVIOUS
  <2>3. Page(from, term) = SubSeq(all, 1, IF Len(all) < PerPage THEN Len(all) ELSE PerPage)
    BY DEF Page
  <2> HIDE DEF S, all
  <2>4. all \in Seq(Known)
    BY <2>1, <2>2, SeqGrows
  <2>5. PerPage \in Nat
    BY FieldsDiffer DEF FieldsDiffer
  <2> QED
    BY <2>3, <2>4, <2>5
<1>3. Search(from, term) \in Seq(Known)
  <2>1. Search(from, term) \in Seq(Known \cap InStock)
    BY <1>2, AmongRule DEF Search
  <2> QED
    BY <2>1, SeqGrows
<1> QED
  BY <1>1, <1>3 DEF Without

\* What the counter shows is articles, and the line it points at is one of them or none.
LEMMA ShownTyped ==
  ASSUME FieldTyped
  PROVE  /\ Shown \in Seq(Known)
         /\ Active \in Int /\ Active >= -1 /\ Active < Len(Shown)
         /\ Active >= 0 => Shown[Active + 1] \in Known
<1>1. Shown \in Seq(Known)
  BY Found DEF Shown, FieldTyped
<1>2. Active \in Int /\ Active >= -1 /\ Active < Len(Shown)
  BY <1>1 DEF Active, FieldTyped
<1>3. Active >= 0 => Active + 1 \in 1 .. Len(Shown)
  BY <1>1, <1>2
<1> QED
  BY <1>1, <1>2, <1>3

\* An article without a label counts for nothing.
LEMMA LabelTyped == ArticlesTyped => \A a \in Known : Label(a) \in Nat
  BY DEF ArticlesTyped, Row, Label

\* The prices before a total is negotiated: what is typed, or else the label.
LEMMA RawTyped ==
  ASSUME ArticlesTyped, BasketTyped
  PROVE  Raw \in [1 .. Len(basket) -> Nat] /\ Len(basket) \in Nat
         /\ DOMAIN basket = 1 .. Len(basket)
<1>0. basket \in Seq(BasketLine)
  BY DEF BasketTyped
<1>1. Len(basket) \in Nat /\ DOMAIN basket = 1 .. Len(basket)
  BY <1>0
<1>2. \A i \in 1 .. Len(basket) : basket[i].article \in Known /\ basket[i].price \in Prices
  <2>1. \A i \in 1 .. Len(basket) : basket[i] \in BasketLine
    BY <1>0
  <2> QED
    BY <2>1 DEF BasketLine
<1>3. \A i \in 1 .. Len(basket) :
        (IF basket[i].price = Null THEN Label(basket[i].article) ELSE basket[i].price) \in Nat
  BY <1>2, LabelTyped, Constants
<1> QED
  BY <1>1, <1>3 DEF Raw

\* The prices charged: those, or the parts of the total, which they add up to.
LEMMA ChargedTyped ==
  ASSUME ArticlesTyped, BasketTyped
  PROVE  /\ Charged \in [1 .. Len(basket) -> Nat]
         /\ basket # <<>> /\ Negotiated => Total(Charged) = total /\ total \in Nat
<1> DEFINE n == Len(basket)
<1>1. Raw \in [1 .. n -> Nat] /\ n \in Nat
  BY RawTyped
<1>2. CASE ~Negotiated
  BY <1>1, <1>2 DEF Charged
<1>3. CASE Negotiated
  <2>1. total \in Nat /\ Charged = SplitCost(total, Raw)
    BY <1>3, Constants DEF Charged, Negotiated, BasketTyped
  <2>2. CASE basket = <<>>
    <3>1. n = 0 /\ DOMAIN Raw = {}
      BY <1>1, <2>2
    <3>2. DOMAIN Charged = {} /\ Charged = [i \in {} |-> Charged[i]]
      BY <2>1, <3>1 DEF SplitCost
    <3> QED
      BY <2>2, <3>1, <3>2
  <2>3. CASE basket # <<>>
    <3>1. n \in Nat \ {0}
      BY <1>1, <2>3 DEF BasketTyped
    <3>2. Weighs(Raw, n)
      BY <1>1 DEF Weighs
    <3> HIDE DEF n
    <3> DEFINE parts == SplitCost(total, Raw)
               final == Final(Raw)
               sum == Total(final)
    <3>a. total \in Int /\ total >= 0
      BY <2>1
    <3>b. /\ parts \in [1 .. n -> Int] /\ (total >= 0 => parts \in [1 .. n -> Nat])
          /\ Total(parts) = total
          /\ \A i \in 1 .. n : LET gap == parts[i] * sum - total * final[i] IN
                                  gap < sum /\ -gap < sum
      BY <3>1, <3>2, <3>a, SplitIsExact
    <3>3. SplitCost(total, Raw) \in [1 .. n -> Nat] /\ Total(SplitCost(total, Raw)) = total
      BY <3>a, <3>b
    <3> QED
      BY <2>1, <3>3 DEF n
  <2> QED
    BY <2>2, <2>3
<1> QED
  BY <1>2, <1>3

\* The lines of a sale are articles there are, at a price.
LEMMA LinesTyped ==
  ASSUME SaleTyped, NEW r \in Requests, sale[r] # Null
  PROVE  sale[r] \in Sent /\ Lines(r) \subseteq SaleLine /\ Sells(r) \subseteq Known
<1>1. sale[r] \in Sent
  BY DEF SaleTyped
<1>2. sale[r].lines \in Seq(SaleLine)
  BY <1>1 DEF Sent
<1>3. Lines(r) \subseteq SaleLine
  BY <1>2 DEF Lines, Range
<1> QED
  BY <1>1, <1>3 DEF Sells, SaleLine

\* The types the run checks are among them.
LEMMA TypesMeanTypes == TradeTyped /\ crossed \subseteq Sold => TypeOK
<1> SUFFICES ASSUME TradeTyped, crossed \subseteq Sold PROVE TypeOK
  OBVIOUS
<1>1. \A s \in Seq(Known) : Range(s) \subseteq Known
  BY DEF Range
<1>2. \A s \in {proposals, Shown} : Range(s) \subseteq Known
  BY <1>1, ShownTyped DEF TradeTyped, FieldTyped
<1>3. Active \in -1 .. Len(Shown) - 1
  BY ShownTyped DEF TradeTyped
<1>4. Range(Charged) \subseteq Nat
  BY ChargedTyped DEF TradeTyped, Range
<1>5. \A i \in DOMAIN basket : basket[i] \in [article: Known, price: Prices]
  <2>1. basket \in Seq(BasketLine)
    BY DEF TradeTyped, BasketTyped
  <2>2. \A i \in DOMAIN basket : basket[i] \in BasketLine
    BY <2>1
  <2> QED
    BY <2>2 DEF BasketLine
<1>6. \A r \in Requests : sale[r] # Null => Lines(r) \subseteq [article: Known, price: Nat]
  BY LinesTyped DEF TradeTyped, SaleLine
<1> QED
  BY <1>2, <1>3, <1>4, <1>5, <1>6
     DEF TypeOK, TradeTyped, ArticlesTyped, FieldTyped, CountsTyped, SaleTyped
-----------------------------------------------------------------------------
(* What the customer pays.                                                 *)
\* Weights that are all told count for what they are.
LEMMA ToldWeights ==
  ASSUME NEW n \in Nat \ {0}, NEW w \in [1 .. n -> Nat], Total(w) > 0
  PROVE  /\ Total(w) \in Int
         /\ \A i \in 1 .. n : Final(w)[i] = n * w[i]
         /\ Total(Final(w)) = n * Total(w)
<1> DEFINE U == 1 .. n
           f == [i \in U |-> n * w[i]]
<1>1. IsFiniteSet(U) /\ Cardinality(U) = n
  BY UpTo
<1>2. {i \in DOMAIN w : w[i] # Null} = U
  BY Constants
<1>3. \A i \in U : AtLeastZero(w[i]) = w[i]
  BY DEF AtLeastZero
<1>4. Useful(w) = f
  <2>1. Useful(w) = [i \in U |-> n * AtLeastZero(w[i])]
    BY <1>1, <1>2 DEF Useful
  <2> QED
    BY <1>3, <2>1
<1>5. \A i \in U : f[i] = n * w[i] /\ w[i] \in Int /\ f[i] \in Int
  OBVIOUS
<1>6. f = [y \in U |-> f[y]] /\ w = [y \in U |-> w[y]]
  OBVIOUS
<1> HIDE DEF f
<1>7. Over(f, U) = n * Over(w, U)
  BY <1>1, <1>5, SumScales
<1>8. Total(f) = n * Total(w) /\ Total(w) \in Int
  <2>1. Over(w, U) \in Int
    BY <1>1, <1>5, SumRules DEF AddsUp
  <2> QED
    BY <1>6, <1>7, <2>1, TotalOver
<1>9. Total(f) > 0
  BY <1>8
<1>10. Final(w) = f
  BY <1>4, <1>9 DEF Final
<1> QED
  BY <1>5, <1>8, <1>10

\* A negotiated total is what the lines add up to, each within a cent of its share.
LEMMA TotalIsPaid == TradeTyped => CustomerPaysTheTotal
<1> SUFFICES ASSUME TradeTyped, basket # <<>>, Negotiated,
                    NEW i \in DOMAIN basket
             PROVE  /\ Displayed = total
                    /\ LET gap == Charged[i] * Total(Raw) - total * Raw[i] IN
                       Total(Raw) > 0 => gap < Total(Raw) /\ -gap < Total(Raw)
  <2>1. ASSUME TradeTyped, basket # <<>>, Negotiated PROVE \E i \in DOMAIN basket : TRUE
    <3>1. basket \in Seq(BasketLine)
      BY <2>1 DEF TradeTyped, BasketTyped
    <3>2. 1 \in DOMAIN basket
      BY <2>1, <3>1
    <3> QED
      BY <3>2
  <2> QED
    BY <2>1 DEF CustomerPaysTheTotal
<1> DEFINE n == Len(basket)
           sum == Total(Final(Raw))
           T == Total(Raw)
<1>1. ArticlesTyped /\ BasketTyped
  BY DEF TradeTyped
<1>2. Raw \in [1 .. n -> Nat] /\ n \in Nat /\ DOMAIN basket = 1 .. n
  BY <1>1, RawTyped
<1>3. n \in Nat \ {0} /\ i \in 1 .. n
  BY <1>2
<1>4. Charged \in [1 .. n -> Nat] /\ Total(Charged) = total /\ total \in Nat
  BY <1>1, ChargedTyped
<1>5. Charged = SplitCost(total, Raw)
  BY DEF Charged
<1> HIDE DEF n
<1>6. ASSUME T > 0 PROVE LET gap == Charged[i] * T - total * Raw[i] IN gap < T /\ -gap < T
  <2>1. Weighs(Raw, n) /\ total \in Int
    BY <1>2, <1>4 DEF Weighs
  <2> DEFINE parts == SplitCost(total, Raw)
             final == Final(Raw)
             all == Total(final)
  <2>2. /\ parts \in [1 .. n -> Int] /\ (total >= 0 => parts \in [1 .. n -> Nat])
        /\ Total(parts) = total
        /\ \A k \in 1 .. n : LET gap == parts[k] * all - total * final[k] IN
                             gap < all /\ -gap < all
    BY <1>3, <2>1, SplitIsExact
  <2>3. final[i] = n * Raw[i] /\ all = n * T /\ T \in Int
    BY <1>2, <1>3, <1>6, ToldWeights
  <2> HIDE DEF parts, final, all, T
  <2>4. LET gap == parts[i] * all - total * final[i] IN gap < all /\ -gap < all
    BY <1>3, <2>2
  <2>5. parts[i] = Charged[i] /\ Charged[i] \in Int /\ Raw[i] \in Int /\ total \in Int
    BY <1>2, <1>3, <1>4, <1>5 DEF parts
  <2>6. \A c, m, t, a, r \in Int : c * (m * t) - a * (m * r) = m * (c * t - a * r)
    OBVIOUS
  <2> DEFINE gap == Charged[i] * T - total * Raw[i]
  <2>7. gap \in Int /\ -gap \in Int
    BY <2>3, <2>5
  <2>8. parts[i] * all - total * final[i] = n * gap
    BY <1>3, <2>3, <2>5, <2>6
  <2> HIDE DEF gap
  <2>9. n * gap < n * T /\ n * (-gap) < n * T
    BY <1>3, <2>3, <2>4, <2>7, <2>8
  <2>10. \A m, a, b \in Int : m > 0 /\ m * a < m * b => a < b
    OBVIOUS
  <2>11. gap < T /\ -gap < T
    BY <1>3, <2>3, <2>7, <2>9, <2>10
  <2> QED
    BY <2>11 DEF gap
<1> QED
  BY <1>4, <1>6 DEF Displayed
-----------------------------------------------------------------------------
(* The steps.                                                              *)
\* What the sale of an article makes of its row.
LEMMA SoldTyped == \A row \in Row, price \in Nat : Sell(row, price) \in Row
  BY DEF Row, Sell

\* The lines the API keeps of an acceptable lot: each has a name, and reads as the page reads it.
LEMMA UsableRead ==
  ASSUME TableTyped, lines # Null, Acceptable
  PROVE  /\ UsableLines \in Seq(Line) /\ Len(UsableLines) \in Nat \ {0}
         /\ DOMAIN UsableLines = 1 .. Len(UsableLines)
         /\ \A k \in DOMAIN UsableLines :
              LET line == UsableLines[k] IN
              /\ line.named /\ cellNumber(line.price) \in Nat \cup {Null}
              /\ prix(line.price) = cellNumber(line.price)
              /\ exemplaires(line.count) = Copies(line) /\ Copies(line) \in Nat \ {0}
<1> DEFINE U == UsableLines
<1>1. U \in Seq(Line)
  <2>1. lines \in Seq(Line)
    BY DEF TableTyped
  <2>2. Among(lines, {l \in Range(lines) : ~isBlank(l)})
          \in Seq(Line \cap {l \in Range(lines) : ~isBlank(l)})
    BY <2>1, AmongRule
  <2>3. Line \cap {l \in Range(lines) : ~isBlank(l)} \subseteq Line
    OBVIOUS
  <2>4. Among(lines, {l \in Range(lines) : ~isBlank(l)}) \in Seq(Line)
    BY <2>2, <2>3, SeqGrows
  <2> QED
    BY <2>4 DEF UsableLines
<1>2. ASSUME NEW k \in DOMAIN U
      PROVE  LET line == U[k] IN
             /\ line.named /\ cellNumber(line.price) \in Nat \cup {Null}
             /\ prix(line.price) = cellNumber(line.price)
             /\ exemplaires(line.count) = Copies(line) /\ Copies(line) \in Nat \ {0}
  <2> DEFINE line == U[k]
  <2>1. line \in Line
    BY <1>1
  <2>2. /\ line.named
        /\ cellNumber(line.price) # Null => line.price >= 0
        /\ cellNumber(line.count) # Null => line.count >= 1
    BY DEF Acceptable
  <2> HIDE DEF line
  <2>3. line.price \in Int \cup {Null, Junk} /\ line.count \in Int \cup {Null, Junk}
    BY <2>1, Constants DEF Line
  <2>4. cellNumber(line.price) \in Nat \cup {Null} /\ prix(line.price) = cellNumber(line.price)
    BY <2>2, <2>3, Constants DEF cellNumber, Reads, prix
  <2>5. exemplaires(line.count) = Copies(line) /\ Copies(line) \in Nat \ {0}
    BY <2>2, <2>3, Constants DEF Copies, cellNumber, Reads, exemplaires
  <2> QED
    BY <2>2, <2>4, <2>5 DEF line
<1>3. Len(U) \in Nat \ {0} /\ DOMAIN U = 1 .. Len(U)
  <2>1. U # <<>>
    BY DEF Acceptable
  <2> QED
    BY <1>1, <2>1
<1> QED
  BY <1>1, <1>2, <1>3

\* The articles of the lot, and the weights of the page, place by place.
LEMMA LotLays ==
  ASSUME TableTyped, lines # Null, Acceptable,
         NEW n, n = Len(UsableLines), NEW c, c = [k \in 1 .. n |-> Copies(UsableLines[k])],
         NEW u, Ends(u, c, n)
  PROVE  /\ LotArticles \in Seq([index: Nat, label: Nat \cup {Null}]) /\ Ordered(u, c, n)
         /\ DOMAIN LotArticles = 1 .. u[n] /\ Len(LotArticles) = u[n]
         /\ \A k \in 1 .. n : \A q \in 1 .. c[k] :
              LotArticles[u[k - 1] + q]
                = [index |-> k, label |-> cellNumber(UsableLines[k].price)]
         /\ Weights(UsableLines) = [p \in DOMAIN LotArticles |-> LotArticles[p].label]
<1> DEFINE U == UsableLines
           X == [index: Nat, label: Nat \cup {Null}]
           Y == Nat \cup {Null}
           arts == [k \in DOMAIN U |->
                     [m \in 1 .. Copies(U[k]) |->
                        [index |-> k, label |-> cellNumber(U[k].price)]]]
           wts == [k \in DOMAIN U |->
                     [m \in 1 .. exemplaires(U[k].count) |-> prix(U[k].price)]]
<1>1. /\ n \in Nat \ {0} /\ DOMAIN U = 1 .. n
      /\ \A k \in 1 .. n : /\ cellNumber(U[k].price) \in Y
                           /\ prix(U[k].price) = cellNumber(U[k].price)
                           /\ exemplaires(U[k].count) = c[k] /\ Copies(U[k]) = c[k]
                           /\ c[k] \in Nat
  BY UsableRead
<1>2. LotArticles = FlattenSeq(arts) /\ Weights(U) = FlattenSeq(wts)
  BY DEF LotArticles, Weights
<1> HIDE DEF U
<1>3. \A k \in 1 .. n :
        /\ arts[k] = [m \in 1 .. c[k] |-> [index |-> k, label |-> cellNumber(U[k].price)]]
        /\ wts[k] = [m \in 1 .. c[k] |-> cellNumber(U[k].price)]
  BY <1>1
<1>4. arts = [k \in 1 .. n |-> arts[k]] /\ wts = [k \in 1 .. n |-> wts[k]]
      /\ Len(arts) = n /\ Len(wts) = n
  BY <1>1
<1> HIDE DEF arts, wts, X, Y
<1>5. \A k \in 1 .. n : /\ arts[k] \in Seq(X) /\ Len(arts[k]) = c[k]
                        /\ wts[k] \in Seq(Y) /\ Len(wts[k]) = c[k]
  <2> SUFFICES ASSUME NEW k \in 1 .. n
               PROVE  /\ arts[k] \in Seq(X) /\ Len(arts[k]) = c[k]
                      /\ wts[k] \in Seq(Y) /\ Len(wts[k]) = c[k]
    OBVIOUS
  <2> DEFINE x == [index |-> k, label |-> cellNumber(U[k].price)]
             y == cellNumber(U[k].price)
             len == c[k]
  <2>1. x \in X /\ y \in Y /\ len \in Nat
    BY <1>1 DEF X, Y
  <2>2. arts[k] = [m \in 1 .. len |-> x] /\ wts[k] = [m \in 1 .. len |-> y]
    BY <1>3
  <2> HIDE DEF x, y, len
  <2>3. /\ arts[k] \in Seq(X) /\ Len(arts[k]) = len
        /\ wts[k] \in Seq(Y) /\ Len(wts[k]) = len
    BY <2>1, <2>2
  <2> QED
    BY <2>3 DEF len
<1> DEFINE a == FlattenSeq(arts)
           w == FlattenSeq(wts)
<1>6. n \in Nat
  BY <1>1
<1>7. a \in Seq(X) /\ Len(a) = u[n] /\ Lays(a, arts, c, u, n) /\ Ordered(u, c, n)
  <2>1. Pieces(arts, c, n, X)
    BY <1>4, <1>5 DEF Pieces
  <2> QED
    BY <1>6, <2>1, FlattenLays
<1>8. w \in Seq(Y) /\ Len(w) = u[n] /\ Lays(w, wts, c, u, n)
  <2>1. Pieces(wts, c, n, Y)
    BY <1>4, <1>5 DEF Pieces
  <2> QED
    BY <1>6, <2>1, FlattenLays
<1> HIDE DEF a, w
<1>9. /\ DOMAIN a = 1 .. u[n] /\ w = [p \in 1 .. u[n] |-> w[p]]
  BY <1>7, <1>8
<1>10. \A k \in 1 .. n : \A q \in 1 .. c[k] :
         /\ a[u[k - 1] + q] = [index |-> k, label |-> cellNumber(U[k].price)]
         /\ w[u[k - 1] + q] = cellNumber(U[k].price)
  <2> SUFFICES ASSUME NEW k \in 1 .. n, NEW q \in 1 .. c[k]
               PROVE  /\ a[u[k - 1] + q] = [index |-> k, label |-> cellNumber(U[k].price)]
                      /\ w[u[k - 1] + q] = cellNumber(U[k].price)
    OBVIOUS
  <2>1. a[u[k - 1] + q] = arts[k][q] /\ w[u[k - 1] + q] = wts[k][q]
    BY <1>7, <1>8 DEF Lays
  <2>2. arts[k] = [m \in 1 .. c[k] |-> [index |-> k, label |-> cellNumber(U[k].price)]]
        /\ wts[k] = [m \in 1 .. c[k] |-> cellNumber(U[k].price)]
    BY <1>3
  <2> QED
    BY <2>1, <2>2
<1>11. \A p \in 1 .. u[n] : w[p] = a[p].label
  <2> SUFFICES ASSUME NEW p \in 1 .. u[n] PROVE w[p] = a[p].label
    OBVIOUS
  <2>1. PICK k \in 1 .. n : p \in Block(u, k)
    BY <1>6, <1>7, BlockOf
  <2>2. PICK q \in 1 .. c[k] : u[k - 1] + q = p
    <3>1. \A l \in 1 .. n : c[l] \in Nat
      BY <1>1
    <3>2. Ordered(u, c, n)
      BY <1>7
    <3> QED
      BY <1>6, <2>1, <3>1, <3>2, RankInBlock
  <2>3. a[u[k - 1] + q] = [index |-> k, label |-> cellNumber(U[k].price)]
        /\ w[u[k - 1] + q] = cellNumber(U[k].price)
    BY <1>10, <2>2
  <2> QED
    BY <2>2, <2>3
<1>12. w = [p \in DOMAIN a |-> a[p].label]
  BY <1>9, <1>11
<1> QED
  BY <1>2, <1>7, <1>9, <1>10, <1>12 DEF U, a, w, X

\* The articles of a lot that the API takes.
LEMMA LotTyped ==
  ASSUME TableTyped, lines # Null, Acceptable
  PROVE  /\ LotArticles \in Seq([index: Nat, label: Nat \cup {Null}])
         /\ LotArticles # <<>> => /\ LotParts \in [DOMAIN LotArticles -> Nat]
                                  /\ Total(LotParts) = SentPaid
<1> DEFINE X == [index: Nat, label: Nat \cup {Null}]
           U == UsableLines
           m == Len(U)
           c == [k \in 1 .. m |-> Copies(U[k])]
<1>1. m \in Nat
  BY UsableRead
<1> HIDE DEF c
<1>2. PICK u : Ends(u, c, m)
  BY <1>1, EndsExist
<1> HIDE DEF X
<1>7. LotArticles \in Seq(X)
  BY <1>2, LotLays DEF c, X
<1>8. ASSUME LotArticles # <<>>
      PROVE  LotParts \in [DOMAIN LotArticles -> Nat] /\ Total(LotParts) = SentPaid
  <2> DEFINE n == Len(LotArticles)
             w == [i \in DOMAIN LotArticles |-> LotArticles[i].label]
  <2>1. n \in Nat \ {0} /\ DOMAIN LotArticles = 1 .. n
    BY <1>7, <1>8
  <2>2. \A i \in 1 .. n : LotArticles[i] \in X
    BY <1>7, <2>1
  <2>3. \A i \in 1 .. n : LotArticles[i].label \in Nat \cup {Null}
    BY <2>2 DEF X
  <2>4. Weighs(w, n)
    BY <2>1, <2>3 DEF Weighs
  <2>5. SentPaid \in Int /\ SentPaid >= 0
    BY Constants DEF SentPaid, Reads, Acceptable, TableTyped
  <2>6. LotParts = SplitCost(SentPaid, w)
    BY DEF LotParts
  <2> HIDE DEF n, w
  <2> DEFINE parts == SplitCost(SentPaid, w)
             final == Final(w)
             sum == Total(final)
  <2>7. /\ parts \in [1 .. n -> Int] /\ (SentPaid >= 0 => parts \in [1 .. n -> Nat])
        /\ Total(parts) = SentPaid
        /\ \A i \in 1 .. n : LET gap == parts[i] * sum - SentPaid * final[i] IN
                             gap < sum /\ -gap < sum
    BY <2>1, <2>4, <2>5, SplitIsExact
  <2> QED
    BY <2>1, <2>5, <2>6, <2>7
<1> QED
  BY <1>7, <1>8 DEF X

\* Articles are added, and none goes; a sale writes a price that is a number.
LEMMA ArticlesStep ==
  ASSUME TradeTyped, Next
  PROVE  ArticlesTyped' /\ Known \subseteq Known'
<1> DEFINE Kept == ArticlesTyped' /\ Known \subseteq Known'
<1>0. article \in [Known -> Row] /\ Known \subseteq Range(Articles)
  BY DEF TradeTyped, ArticlesTyped
<1>1. ASSUME UNCHANGED article PROVE Kept
  BY <1>0, <1>1 DEF ArticlesTyped, Known
<1>2. ASSUME article' \in [Known -> Row] PROVE Kept
  BY <1>0, <1>2 DEF ArticlesTyped, Known
<1>3. ASSUME lines # Null, CreateLot PROVE Kept
  <2> DEFINE new == [n \in DOMAIN LotArticles |-> Fresh[n]]
             K == Known \cup Range(new)
  <2>1. TableTyped /\ Acceptable /\ Len(LotArticles) <= Len(Fresh)
    BY <1>3 DEF TradeTyped, CreateLot
  <2>2. article' = [a \in K |->
                      IF a \in Known THEN article[a]
                      ELSE LET n == CHOOSE n \in DOMAIN new : new[n] = a
                           IN  Bought(LotArticles[n].label, LotParts[n])]
    BY <1>3 DEF CreateLot
  <2>3. \A n \in DOMAIN LotArticles : LotArticles[n].label \in Nat \cup {Null}
    <3> DEFINE X == [index: Nat, label: Nat \cup {Null}]
    <3>1. LotArticles \in Seq(X)
      BY <1>3, <2>1, LotTyped
    <3>2. \A x \in X : x.label \in Nat \cup {Null}
      OBVIOUS
    <3> HIDE DEF X
    <3>3. \A n \in DOMAIN LotArticles : LotArticles[n] \in X
      BY <3>1
    <3> QED
      BY <3>2, <3>3
  <2>a. Len(LotArticles) \in Nat /\ DOMAIN LotArticles = 1 .. Len(LotArticles)
    BY <1>3, <2>1, LotTyped
  <2>4. Range(new) \subseteq Range(Articles)
    <3>1. Fresh \in Seq(Range(Articles))
      <4>1. Fresh \in Seq(Range(Articles) \cap (Range(Articles) \ Known))
        BY Constants, AmongRule DEF Fresh
      <4>2. Range(Articles) \cap (Range(Articles) \ Known) \subseteq Range(Articles)
        OBVIOUS
      <4> QED
        BY <4>1, <4>2, SeqGrows
    <3>2. \A n \in DOMAIN LotArticles : n \in DOMAIN Fresh
      BY <2>1, <2>a, <3>1
    <3>3. \A n \in DOMAIN LotArticles : Fresh[n] \in Range(Articles)
      BY <3>1, <3>2
    <3> QED
      BY <3>3 DEF Range
  <2>5. \A a \in K : article'[a] \in Row
    <3> SUFFICES ASSUME NEW a \in K PROVE article'[a] \in Row
      OBVIOUS
    <3>1. CASE a \in Known
      BY <1>0, <2>2, <3>1
    <3>2. CASE a \notin Known
      <4> DEFINE n == CHOOSE n \in DOMAIN new : new[n] = a
      <4>1. article'[a] = Bought(LotArticles[n].label, LotParts[n])
        BY <2>2, <3>2
      <4>2. n \in DOMAIN LotArticles
        BY <3>2 DEF Range
      <4> HIDE DEF n
      <4>3. LotArticles # <<>>
        BY <4>2
      <4>4. LotParts[n] \in Nat
        BY <1>3, <2>1, <4>2, <4>3, LotTyped
      <4>5. LotArticles[n].label \in Nat \cup {Null}
        BY <2>3, <4>2
      <4> HIDE DEF new, K
      <4> QED
        BY <4>1, <4>4, <4>5 DEF Bought, Row
    <3> QED
      BY <3>1, <3>2
  <2> HIDE DEF new
  <2>6. article' = [a \in K |-> article'[a]]
    BY <2>2
  <2> QED
    BY <1>0, <2>4, <2>5, <2>6 DEF ArticlesTyped, Known
<1>4. ASSUME NEW r \in Requests, CommitSale(r) PROVE Kept
  <2>1. article' = [a \in Known |->
                      IF a \in Sells(r)
                        THEN Sell(article[a], (CHOOSE l \in Lines(r) : l.article = a).price)
                        ELSE article[a]]
    BY <1>4 DEF CommitSale
  <2>2. \A l \in Lines(r) : l \in SaleLine
    BY <1>4, LinesTyped DEF TradeTyped, CommitSale, Checked
  <2>3. \A a \in Known : article'[a] \in Row
    <3> SUFFICES ASSUME NEW a \in Known PROVE article'[a] \in Row
      OBVIOUS
    <3>1. CASE a \in Sells(r)
      <4> DEFINE l == CHOOSE l \in Lines(r) : l.article = a
      <4>1. article'[a] = Sell(article[a], l.price)
        BY <2>1, <3>1
      <4>2. l \in Lines(r)
        BY <3>1 DEF Sells
      <4> HIDE DEF l
      <4>3. l.price \in Nat
        BY <2>2, <4>2 DEF SaleLine
      <4> QED
        BY <1>0, <4>1, <4>3, SoldTyped
    <3>2. CASE a \notin Sells(r)
      BY <1>0, <2>1, <3>2
    <3> QED
      BY <3>1, <3>2
  <2>4. article' = [a \in Known |-> article'[a]]
    BY <2>1
  <2> QED
    BY <1>2, <2>3, <2>4
<1>5. CASE Api
  BY <1>1, <1>4, <1>5 DEF Api, Serves, SellMany, FailSale
<1>6. ASSUME NEW a, ToggleDepositorPayment(a) PROVE Kept
  <2>1. a \in Known /\ article' = [article EXCEPT ![a].paid = ~@]
    BY <1>6 DEF ToggleDepositorPayment, Sold
  <2>2. [article[a] EXCEPT !.paid = ~@] \in Row
    BY <1>0, <2>1 DEF Row
  <2>3. article' \in [Known -> Row]
    BY <1>0, <2>1, <2>2
  <2> QED
    BY <1>2, <2>3
<1>7. CASE OpenLot
  BY <1>1, <1>7 DEF OpenLot
<1>8. CASE LotGesture
  BY <1>1, <1>3, <1>8 DEF LotGesture, Patch, AddLine, RemoveLine, TypePaid, GiveUp
<1>9. CASE Reload
  BY <1>1, <1>9 DEF Reload
<1>10. CASE Pay
  BY <1>6, <1>10 DEF Pay
<1>11. CASE Sale
  <2>1. CASE Glance
    BY <1>1, <2>1 DEF Glance, Arrow, Point, Escape, Enter, Click
  <2>2. CASE Network
    BY <1>1, <2>2 DEF Network, Propose, FinishEntering, Answered, Unanswered
  <2>3. CASE Bargain \/ Keystroke
    BY <1>1, <2>3 DEF Bargain, Keystroke, Type, ChangePlace, RemoveFromBasket, EditPrice, Negotiate,
                      Submit
  <2>4. CASE \E r \in Requests, a \in Known : OtherSells(r, a)
    BY <1>1, <2>4 DEF OtherSells
  <2> QED
    BY <1>11, <2>1, <2>2, <2>3, <2>4 DEF Sale
<1> QED
  BY <1>5, <1>7, <1>8, <1>9, <1>10, <1>11 DEF Next

\* What each step leaves in the table of the lot.
LEMMA TableStep ==
  ASSUME TradeTyped, Next
  PROVE  TableTyped'
<1>0. TableTyped
  BY DEF TradeTyped
<1>1. ASSUME UNCHANGED <<lines, paid>> PROVE TableTyped'
  BY <1>0, <1>1 DEF TableTyped
<1>2. ASSUME NEW t \in Seq(Line), lines' = t, UNCHANGED paid PROVE TableTyped'
  BY <1>0, <1>2 DEF TableTyped
<1>3. BlankLine \in Line
  BY DEF BlankLine, Line
<1>4. CASE OpenLot
  <2>1. <<BlankLine, BlankLine>> \in Seq(Line)
    BY <1>3
  <2> QED
    BY <1>4, <2>1 DEF OpenLot, OpenTable, TableTyped
<1>5. CASE LotGesture
  <2>1. lines \in Seq(Line)
    BY <1>0, <1>5 DEF LotGesture, TableTyped
  <2>2. ASSUME NEW i \in DOMAIN lines, NEW line \in Line, Patch(i, line) PROVE TableTyped'
    <3> DEFINE t == [lines EXCEPT ![i] = line]
    <3>1. t \in Seq(Line) /\ Append(t, BlankLine) \in Seq(Line)
      BY <1>3, <2>1
    <3>2. lines' = WithBlankEnd(t) /\ UNCHANGED paid
      BY <2>2 DEF Patch
    <3> HIDE DEF t
    <3>3. WithBlankEnd(t) \in Seq(Line)
      BY <3>1 DEF WithBlankEnd
    <3> QED
      BY <1>2, <3>2, <3>3
  <2>3. \A i \in DOMAIN lines : lines[i] \in Line
    BY <2>1
  <2>4. ASSUME NEW i \in DOMAIN lines, NEW named \in BOOLEAN,
               Patch(i, [lines[i] EXCEPT !.named = named])
        PROVE  TableTyped'
    <3>1. [lines[i] EXCEPT !.named = named] \in Line
      BY <2>3 DEF Line
    <3> QED
      BY <2>2, <2>4, <3>1
  <2>5. ASSUME NEW i \in DOMAIN lines, NEW cell \in PriceCells,
               Patch(i, [lines[i] EXCEPT !.price = cell])
        PROVE  TableTyped'
    <3>1. [lines[i] EXCEPT !.price = cell] \in Line
      BY <2>3 DEF Line
    <3> QED
      BY <2>2, <2>5, <3>1
  <2>6. ASSUME NEW i \in DOMAIN lines, NEW cell \in CountCells,
               Patch(i, [lines[i] EXCEPT !.count = cell])
        PROVE  TableTyped'
    <3>1. [lines[i] EXCEPT !.count = cell] \in Line
      BY <2>3 DEF Line
    <3> QED
      BY <2>2, <2>6, <3>1
  <2>7. ASSUME AddLine PROVE TableTyped'
    <3>1. Append(lines, BlankLine) \in Seq(Line)
      BY <1>3, <2>1
    <3> QED
      BY <1>2, <2>7, <3>1 DEF AddLine
  <2>8. ASSUME NEW i \in DOMAIN lines, RemoveLine(i) PROVE TableTyped'
    <3>1. RemoveAt(lines, i) \in Seq(Line)
      BY <2>1, Removed
    <3> QED
      BY <1>2, <2>8, <3>1 DEF RemoveLine
  <2>9. ASSUME NEW p \in PaidCells, TypePaid(p) PROVE TableTyped'
    BY <1>0, <2>9 DEF TypePaid, TableTyped
  <2>10. ASSUME Leave PROVE TableTyped'
    BY <2>10 DEF Leave, TableTyped
  <2> QED
    BY <1>5, <2>4, <2>5, <2>6, <2>7, <2>8, <2>9, <2>10 DEF LotGesture, CreateLot, GiveUp
<1>6. CASE Reload \/ Pay \/ Sale \/ Api
  BY <1>1, <1>6 DEF Reload, Pay, Sale, Api
<1> QED
  BY <1>4, <1>5, <1>6 DEF Next

\* What an Enter, or a click, leaves in the field.
LEMMA AddedTyped ==
  ASSUME FieldTyped, BasketTyped, Known \subseteq Known', UNCHANGED <<place, total>>
  PROVE  /\ \A a \in Known : Ajouter(a) => FieldTyped' /\ BasketTyped'
         /\ \A term, taken : \A found \in Seq(Known) :
              Decide(term, found, taken) => FieldTyped' /\ BasketTyped'
<1>1. Seq(Known) \subseteq Seq(Known')
  BY SeqGrows
<1>2. basket \in Seq(BasketLine) /\ basket \in Seq(BasketLine')
  <2>1. BasketLine \subseteq BasketLine'
    BY DEF BasketLine
  <2> QED
    BY <2>1, SeqGrows DEF BasketTyped
<1>3. ASSUME NEW a \in Known, Ajouter(a) PROVE FieldTyped' /\ BasketTyped'
  <2>1. [article |-> a, price |-> Null] \in BasketLine'
    BY Constants DEF BasketLine
  <2>2. Added(a) \in Seq(BasketLine')
    BY <1>2, <2>1 DEF Added
  <2>3. FieldTyped'
    BY <1>3 DEF Ajouter, FieldTyped
  <2> QED
    BY <1>3, <2>2, <2>3 DEF Ajouter, BasketTyped
<1>4. ASSUME NEW term, NEW taken, NEW found \in Seq(Known), Decide(term, found, taken)
      PROVE  FieldTyped' /\ BasketTyped'
  <2> DEFINE free == Without(found, taken)
             exact == Among(free, {term})
  <2>1. free \in Seq(Known) /\ exact \in Seq(Known)
    BY Found
  <2>2. \/ exact # <<>> /\ Ajouter(Head(exact))
        \/ Len(free) = 1 /\ Ajouter(Head(free))
        \/ /\ proposals' = IF free = <<>> THEN <<>> ELSE found
           /\ UNCHANGED <<typed, hovered, asked, basket>>
    BY <1>4 DEF Decide
  <2> HIDE DEF free, exact
  <2>3. CASE exact # <<>> /\ Ajouter(Head(exact))
    <3>1. Head(exact) \in Known
      BY <2>1, <2>3
    <3> QED
      BY <1>3, <2>3, <3>1
  <2>4. CASE Len(free) = 1 /\ Ajouter(Head(free))
    <3>1. Head(free) \in Known
      <4>1. free # <<>>
        <5>1. Len(<<>>) = 0
          OBVIOUS
        <5>2. Len(free) # Len(<<>>)
          BY <2>4, <5>1
        <5> QED
          BY <5>2
      <4> QED
        BY <2>1, <4>1
    <3> QED
      BY <1>3, <2>4, <3>1
  <2>5. CASE /\ proposals' = IF free = <<>> THEN <<>> ELSE found
             /\ UNCHANGED <<typed, hovered, asked, basket>>
    <3>1. proposals' \in Seq(Known')
      <4>1. CASE free = <<>>
        BY <2>5, <4>1
      <4>2. CASE free # <<>>
        BY <1>1, <2>5, <4>2
      <4> QED
        BY <4>1, <4>2
    <3> QED
      BY <1>2, <2>5, <3>1 DEF FieldTyped, BasketTyped
  <2> QED
    BY <2>2, <2>3, <2>4, <2>5
<1> QED
  BY <1>3, <1>4

\* What each step leaves in the field and in the basket.
LEMMA FieldStep ==
  ASSUME TradeTyped, Next
  PROVE  FieldTyped' /\ BasketTyped'
<1> DEFINE Kept == FieldTyped' /\ BasketTyped'
<1>0. FieldTyped /\ BasketTyped /\ ArticlesTyped /\ Known \subseteq Known'
  BY ArticlesStep DEF TradeTyped
<1>1. Seq(Known) \subseteq Seq(Known')
  BY <1>0, SeqGrows
<1>2. basket \in Seq(BasketLine) /\ BasketLine \subseteq BasketLine'
  BY <1>0 DEF BasketTyped, BasketLine
<1>3. Seq(BasketLine) \subseteq Seq(BasketLine')
  BY <1>2, SeqGrows
<1>4. ASSUME UNCHANGED <<basket, total>> PROVE BasketTyped'
  BY <1>0, <1>2, <1>3, <1>4 DEF BasketTyped
<1>5. ASSUME UNCHANGED <<place, field>> PROVE FieldTyped'
  BY <1>0, <1>1, <1>5 DEF FieldTyped, field
<1>6. ASSUME Clear, place' \in Places PROVE Kept
  BY <1>6 DEF Clear, FieldTyped, BasketTyped
<1>7. CASE OpenLot \/ Reload
  BY <1>0, <1>6, <1>7 DEF OpenLot, Reload, FieldTyped
<1>8. CASE LotGesture \/ Pay
  BY <1>4, <1>5, <1>8 DEF LotGesture, Pay, till, counter
<1>9. CASE Api
  BY <1>4, <1>5, <1>9 DEF Api, Serves, SellMany, CommitSale, FailSale, counter
<1>10. CASE Sale
  <2>1. \A a \in Known : Ajouter(a) /\ UNCHANGED <<place, total>> => Kept
    BY <1>0, AddedTyped
  <2>2. \A term, taken : \A found \in Seq(Known) :
          Decide(term, found, taken) /\ UNCHANGED <<place, total>> => Kept
    BY <1>0, AddedTyped
  <2>3. /\ Shown \in Seq(Known) /\ Active \in Int
        /\ Active >= 0 => Shown[Active + 1] \in Known
    BY <1>0, ShownTyped
  <2>4. \A from, term : Search(from, term) \in Seq(Known)
    BY <1>0, Found DEF FieldTyped
  <2>5. ASSUME NEW step \in {1, -1}, Arrow(step) PROVE Kept
    <3> DEFINE m == Len(Shown) + 1
               x == hovered + 1 + step + Len(Shown) + 1
    <3>1. m \in Int /\ m > 0 /\ x \in Int
      BY <1>0, <2>3 DEF FieldTyped
    <3>2. hovered' = (x % m) - 1
      BY <2>5 DEF Arrow
    <3> HIDE DEF x, m
    <3>3. hovered' \in Int /\ hovered' >= -1
      BY <3>1, <3>2, Euclid
    <3> QED
      BY <1>0, <1>1, <1>4, <2>5, <3>3 DEF Arrow, FieldTyped
  <2>6. ASSUME NEW i \in DOMAIN Shown, Point(i) PROVE Kept
    <3>1. i \in Nat /\ i >= 1
      BY <2>3
    <3>2. hovered' \in Int /\ hovered' >= -1
      BY <2>6, <3>1 DEF Point
    <3> QED
      BY <1>0, <1>1, <1>4, <2>6, <3>2 DEF Point, FieldTyped
  <2>7. CASE Escape
    BY <1>0, <1>4, <2>7 DEF Escape, FieldTyped
  <2>8. CASE Enter
    BY <1>0, <1>4, <1>5, <2>1, <2>2, <2>3, <2>8 DEF Enter, FieldTyped
  <2>9. CASE Click
    BY <2>1, <2>3, <2>9 DEF Click
  <2>10. CASE Glance
    BY <2>5, <2>6, <2>7, <2>8, <2>9, <2>10 DEF Glance
  <2>11. CASE Propose
    <3>1. proposals' \in Seq(Known')
      <4>1. proposals' = Search(place, asked) \/ proposals' = <<>> \/ proposals' = proposals
        BY <2>11 DEF Propose
      <4>2. Search(place, asked) \in Seq(Known) /\ proposals \in Seq(Known) /\ <<>> \in Seq(Known)
        BY <1>0, <2>4 DEF FieldTyped
      <4> QED
        BY <1>1, <4>1, <4>2
    <3> QED
      BY <1>0, <1>4, <2>11, <3>1 DEF Propose, FieldTyped
  <2>12. CASE FinishEntering
    BY <1>4, <1>5, <2>2, <2>4, <2>12 DEF FinishEntering
  <2>13. CASE Unanswered
    BY <1>4, <1>5, <2>13 DEF Unanswered, counter
  <2>14. CASE Answered
    <3>1. CASE sending = "sold"
      BY <1>0, <2>14, <3>1 DEF Answered, FieldTyped, BasketTyped
    <3>2. CASE sending # "sold"
      BY <1>4, <1>5, <2>14, <3>2 DEF Answered
    <3> QED
      BY <3>1, <3>2
  <2>15. CASE Network
    BY <2>11, <2>12, <2>13, <2>14, <2>15 DEF Network
  <2>16. \A term \in Terms \cup {Nothing} : Awaited(term) \in (Terms \ Short) \cup {Null}
    BY DEF Awaited
  <2>17. ASSUME NEW term \in Terms \cup {Nothing}, Type(term) PROVE Kept
    BY <1>0, <1>1, <1>4, <2>16, <2>17 DEF Type, FieldTyped
  <2>18. ASSUME NEW p \in Places, ChangePlace(p) PROVE Kept
    BY <1>0, <1>1, <1>4, <2>16, <2>18 DEF ChangePlace, FieldTyped
  <2>19. ASSUME NEW i \in DOMAIN basket, RemoveFromBasket(i) PROVE Kept
    <3>1. RemoveAt(basket, i) \in Seq(BasketLine)
      BY <1>2, Removed
    <3> QED
      BY <1>0, <1>3, <1>5, <2>19, <3>1 DEF RemoveFromBasket, BasketTyped
  <2>20. ASSUME NEW i \in DOMAIN basket, NEW p \in Prices, EditPrice(i, p) PROVE Kept
    <3>1. [basket[i] EXCEPT !.price = p] \in BasketLine
      <4>1. basket[i] \in BasketLine
        BY <1>2
      <4> QED
        BY <4>1 DEF BasketLine
    <3>2. [basket EXCEPT ![i].price = p] \in Seq(BasketLine)
      BY <1>2, <3>1
    <3> QED
      BY <1>0, <1>3, <1>5, <2>20, <3>2 DEF EditPrice, BasketTyped
  <2>21. ASSUME NEW t \in Totals, Negotiate(t) PROVE Kept
    BY <1>0, <1>2, <1>3, <1>5, <2>21 DEF Negotiate, BasketTyped
  <2>22. ASSUME NEW r \in Requests, Submit(r) PROVE Kept
    BY <1>4, <1>5, <2>22 DEF Submit, counter
  <2>23. CASE Bargain \/ Keystroke
    BY <2>17, <2>18, <2>19, <2>20, <2>21, <2>22, <2>23 DEF Bargain, Keystroke
  <2>24. CASE \E r \in Requests, a \in Known : OtherSells(r, a)
    BY <1>4, <1>5, <2>24 DEF OtherSells, counter
  <2> QED
    BY <1>10, <2>10, <2>15, <2>23, <2>24 DEF Sale
<1> QED
  BY <1>7, <1>8, <1>9, <1>10 DEF Next

\* The price of a sale is that of its lines.
Adds(x) == x.due = Total([i \in DOMAIN x.lines |-> x.lines[i].price])

DueHolds == \A r \in Requests : sale[r] # Null => Adds(sale[r])

\* What the till sends: the lines of the basket at the prices charged, and their sum.
LEMMA SubmitHolds ==
  ASSUME TradeTyped, NEW r \in Requests, Submit(r)
  PROVE  \E x \in Sent : sale' = [sale EXCEPT ![r] = x] /\ Adds(x) /\ ~x.checked
<1> DEFINE n == Len(basket)
           ls == [i \in DOMAIN basket |-> [article |-> basket[i].article, price |-> Charged[i]]]
           due == IF Negotiated THEN total ELSE Total(Raw)
           x == [lines |-> ls, due |-> due, checked |-> FALSE]
<1>1. sale' = [sale EXCEPT ![r] = x] /\ basket # <<>>
  BY DEF Submit
<1>2. ArticlesTyped /\ BasketTyped
  BY DEF TradeTyped
<1>3. /\ Charged \in [1 .. n -> Nat] /\ DOMAIN basket = 1 .. n /\ n \in Nat
      /\ Raw \in [1 .. n -> Nat]
      /\ basket # <<>> /\ Negotiated => Total(Charged) = total /\ total \in Nat
  BY <1>2, ChargedTyped, RawTyped
<1>4. \A i \in 1 .. n : basket[i].article \in Known
  <2>1. \A i \in 1 .. n : basket[i] \in BasketLine
    BY <1>2 DEF BasketTyped
  <2> QED
    BY <2>1 DEF BasketLine
<1> HIDE DEF n
<1>5. ls \in Seq(SaleLine)
  <2>1. \A i \in 1 .. n : [article |-> basket[i].article, price |-> Charged[i]] \in SaleLine
    BY <1>3, <1>4 DEF SaleLine
  <2> QED
    BY <1>3, <2>1
<1>6. due = Total(Charged) /\ due \in Nat
  <2>1. CASE Negotiated
    BY <1>1, <1>3, <2>1
  <2>2. CASE ~Negotiated
    <3>1. Charged = Raw /\ IsFiniteSet(1 .. n)
      BY <1>3, <2>2, UpTo DEF Charged
    <3> QED
      BY <1>3, <2>2, <3>1, TotalIsNat
  <2> QED
    BY <2>1, <2>2
<1>7. [i \in DOMAIN ls |-> ls[i].price] = Charged
  BY <1>3
<1> HIDE DEF ls, due
<1>8. x \in Sent /\ x.lines = ls /\ x.due = due /\ ~x.checked
  BY <1>5, <1>6 DEF Sent
<1> HIDE DEF x
<1> QED
  BY <1>1, <1>6, <1>7, <1>8 DEF Adds

\* What another counter sends: one line, and its price.
LEMMA OtherHolds ==
  ASSUME TradeTyped, NEW r \in Requests, NEW a \in Known, OtherSells(r, a)
  PROVE  \E x \in Sent : sale' = [sale EXCEPT ![r] = x] /\ Adds(x) /\ ~x.checked
<1> DEFINE line == [article |-> a, price |-> Label(a)]
           x == [lines |-> <<line>>, due |-> Label(a), checked |-> FALSE]
           g == [i \in 1 .. 1 |-> Label(a)]
<1>1. sale' = [sale EXCEPT ![r] = x]
  BY DEF OtherSells
<1>2. Label(a) \in Nat
  BY LabelTyped DEF TradeTyped
<1>3. line \in SaleLine /\ line.price = Label(a)
  BY <1>2 DEF SaleLine
<1>4. x.lines = <<line>> /\ x.due = Label(a) /\ ~x.checked
  OBVIOUS
<1>5. x \in Sent
  <2> HIDE DEF line
  <2> QED
    BY <1>2, <1>3 DEF Sent
<1>6. [i \in DOMAIN x.lines |-> x.lines[i].price] = g
  <2>1. DOMAIN <<line>> = 1 .. 1 /\ <<line>>[1] = line
    OBVIOUS
  <2>2. \A i \in 1 .. 1 : <<line>>[i].price = Label(a)
    BY <1>3, <2>1
  <2> HIDE DEF line
  <2> QED
    BY <1>4, <2>1, <2>2
<1>7. Total(g) = Label(a)
  <2>1. g = [y \in 1 .. 1 |-> g[y]] /\ g[1] = Label(a) /\ \A y \in 1 .. 1 : g[y] \in Int
    BY <1>2
  <2> HIDE DEF g
  <2>2. IsFiniteSet(1 .. 1)
    BY UpTo
  <2>3. AddsUp(g, 1 .. 1)
    BY <2>1, <2>2, SumRules
  <2>4. 1 \in 1 .. 1 /\ (1 .. 1) \ {1} = {}
    OBVIOUS
  <2>5. Over(g, 1 .. 1) = g[1] + Over(g, {}) /\ Over(g, {}) = 0
    BY <2>3, <2>4 DEF AddsUp
  <2>6. Over(g, 1 .. 1) = Total(g)
    BY <2>1, TotalOver
  <2> QED
    BY <1>2, <2>1, <2>5, <2>6
<1> HIDE DEF x, g
<1> QED
  BY <1>1, <1>4, <1>5, <1>6, <1>7 DEF Adds

\* One request takes the place of another, or goes.
LEMMA RequestKept ==
  ASSUME SaleTyped, DueHolds, Known \subseteq Known', NEW r \in Requests,
         NEW x, x = Null \/ (x \in Sent /\ Adds(x)), sale' = [sale EXCEPT ![r] = x],
         sending' \in Requests \cup {Null, "sold", "refused"}
  PROVE  SaleTyped' /\ DueHolds'
<1>1. Sent \subseteq Sent'
  <2>1. SaleLine \subseteq SaleLine'
    BY DEF SaleLine
  <2> QED
    BY <2>1, SeqGrows DEF Sent
<1>2. /\ sale' = [q \in Requests |-> sale'[q]] /\ sale'[r] = x
      /\ \A q \in Requests : q # r => sale'[q] = sale[q]
  BY DEF SaleTyped
<1> QED
  BY <1>1, <1>2 DEF SaleTyped, DueHolds, Adds

\* What each step leaves on its way.
LEMMA SaleStep ==
  ASSUME TradeTyped, DueHolds, Next
  PROVE  SaleTyped' /\ DueHolds' /\ cashed' \in Nat
<1> DEFINE Kept == SaleTyped' /\ DueHolds'
           Answers == Requests \cup {Null, "sold", "refused"}
<1>0. SaleTyped /\ DueHolds /\ ArticlesTyped /\ Known \subseteq Known' /\ cashed \in Nat
  BY ArticlesStep DEF TradeTyped, CountsTyped
<1>1. Sent \subseteq Sent'
  <2>1. SaleLine \subseteq SaleLine'
    BY <1>0 DEF SaleLine
  <2> QED
    BY <2>1, SeqGrows DEF Sent
<1>2. ASSUME UNCHANGED sale, sending' \in Answers PROVE Kept
  BY <1>0, <1>1, <1>2 DEF SaleTyped, DueHolds, Adds
<1>3. sending \in Answers
  BY <1>0 DEF SaleTyped
<1>4. ASSUME NEW r \in Requests, Submit(r) PROVE Kept /\ UNCHANGED cashed
  BY <1>0, <1>4, SubmitHolds, RequestKept DEF Submit
<1>5. ASSUME NEW r \in Requests, NEW a \in Known, OtherSells(r, a) PROVE Kept /\ UNCHANGED cashed
  BY <1>0, <1>3, <1>5, OtherHolds, RequestKept DEF OtherSells
<1>6. ASSUME NEW r \in Requests, NEW answer \in {"sold", "refused"}, Answer(r, answer) PROVE Kept
  BY <1>0, <1>3, <1>6, RequestKept DEF Answer
<1>7. CASE Api
  <2>1. PICK r \in Requests : Serves(r)
    BY <1>7 DEF Api
  <2>2. CASE SellMany(r)
    <3>1. cashed' = cashed
      BY <2>2 DEF SellMany
    <3>2. CASE Answer(r, "refused")
      BY <1>0, <1>6, <3>1, <3>2
    <3>3. CASE sale' = [sale EXCEPT ![r].checked = TRUE] /\ UNCHANGED sending
      <4> DEFINE x == [sale[r] EXCEPT !.checked = TRUE]
      <4>1. sale[r] \in Sent /\ Adds(sale[r])
        BY <1>0, <2>2, LinesTyped DEF SellMany, DueHolds
      <4>2. x \in Sent /\ x.lines = sale[r].lines /\ x.due = sale[r].due
        BY <4>1 DEF Sent
      <4>3. sale' = [sale EXCEPT ![r] = x]
        BY <3>3
      <4> HIDE DEF x
      <4>4. Adds(x)
        BY <4>1, <4>2 DEF Adds
      <4> QED
        BY <1>0, <1>3, <3>1, <3>3, <4>2, <4>3, <4>4, RequestKept
    <3> QED
      BY <2>2, <3>2, <3>3 DEF SellMany
  <2>3. CASE CommitSale(r)
    <3>1. sale[r] \in Sent
      BY <1>0, <2>3, LinesTyped DEF CommitSale, Checked
    <3>2. cashed' = cashed + sale[r].due /\ sale[r].due \in Nat
      BY <2>3, <3>1 DEF CommitSale, Sent
    <3> QED
      BY <1>0, <1>6, <2>3, <3>2 DEF CommitSale
  <2>4. CASE FailSale(r)
    BY <1>0, <1>6, <2>4 DEF FailSale
  <2> QED
    BY <2>1, <2>2, <2>3, <2>4 DEF Serves
<1>8. CASE OpenLot \/ Reload
  BY <1>0, <1>2, <1>8 DEF OpenLot, Reload, Clear, api
<1>9. CASE LotGesture \/ Pay
  BY <1>0, <1>2, <1>3, <1>9 DEF LotGesture, Pay, till, api
<1>10. CASE Sale
  <2>1. CASE Glance
    BY <1>0, <1>2, <1>3, <2>1 DEF Glance, Arrow, Point, Escape, Enter, Click, api
  <2>2. CASE Network
    BY <1>0, <1>2, <1>3, <2>2 DEF Network, Propose, FinishEntering, Answered, Unanswered, api
  <2>3. CASE Bargain \/ Keystroke
    BY <1>0, <1>2, <1>3, <1>4, <2>3
       DEF Bargain, Keystroke, Type, ChangePlace, RemoveFromBasket, EditPrice, Negotiate, api
  <2> QED
    BY <1>0, <1>5, <1>10, <2>1, <2>2, <2>3 DEF Sale
<1> QED
  BY <1>7, <1>8, <1>9, <1>10 DEF Next

\* The bounds of the run are kept.
LEMMA CountsStep ==
  ASSUME TradeTyped, DueHolds, Next
  PROVE  CountsTyped'
<1>1. lots \in 0 .. MaxLots /\ strokes \in 0 .. MaxStrokes /\ MaxLots \in Nat /\ MaxStrokes \in Nat
  BY Constants DEF TradeTyped, CountsTyped
<1>2. cashed' \in Nat
  BY SaleStep
<1>3. lots' \in 0 .. MaxLots /\ strokes' \in 0 .. MaxStrokes
  BY <1>1 DEF Next, OpenLot, LotGesture, Sale, Api, Reload, Pay
<1> QED
  BY <1>2, <1>3 DEF CountsTyped

\* It begins so.
LEMMA TradeInit == Init => TradeTyped /\ DueHolds
<1> SUFFICES ASSUME Init PROVE TradeTyped /\ DueHolds
  OBVIOUS
<1>1. ArticlesTyped
  <2> DEFINE R == {[label |-> l, cost |-> Null, sold |-> Null, paid |-> FALSE,
                    listed |-> TRUE] : l \in Labels}
  <2>1. article \in [Deposited -> R]
    BY DEF Init
  <2>2. R \subseteq Row
    <3>1. \A l \in Labels : l \in Nat \cup {Null}
      BY Constants
    <3>2. \A l \in Nat \cup {Null} :
            [label |-> l, cost |-> Null, sold |-> Null, paid |-> FALSE, listed |-> TRUE] \in Row
      BY DEF Row
    <3> QED
      BY <3>1, <3>2
  <2>3. Known = Deposited
    BY <2>1 DEF Known
  <2> HIDE DEF R
  <2> QED
    BY <2>1, <2>2, <2>3, Constants DEF ArticlesTyped
<1>2. TableTyped /\ CountsTyped
  BY Constants DEF Init, Empty, TableTyped, CountsTyped
<1>3. FieldTyped /\ BasketTyped /\ SaleTyped /\ DueHolds
  <2>1. \A S : <<>> \in Seq(S)
    OBVIOUS
  <2> QED
    BY <2>1 DEF Init, Empty, FieldTyped, BasketTyped, SaleTyped, DueHolds
<1> QED
  BY <1>1, <1>2, <1>3 DEF TradeTyped

\* And stays so.
LEMMA TradeHolds == Spec => [](TradeTyped /\ DueHolds)
<1>1. TradeTyped /\ DueHolds /\ [Next]_vars => (TradeTyped /\ DueHolds)'
  <2>1. ASSUME TradeTyped, DueHolds, Next PROVE (TradeTyped /\ DueHolds)'
    BY <2>1, ArticlesStep, TableStep, FieldStep, SaleStep, CountsStep DEF TradeTyped
  <2>2. ASSUME TradeTyped, DueHolds, UNCHANGED vars PROVE (TradeTyped /\ DueHolds)'
    BY <2>2 DEF vars, till, counter, field, api, TradeTyped, ArticlesTyped, TableTyped,
                FieldTyped, BasketTyped, SaleTyped, CountsTyped, DueHolds, Adds, Known,
                BasketLine, SaleLine, Sent
  <2> QED
    BY <2>1, <2>2
<1> QED
  BY <1>1, TradeInit, PTL DEF Spec

\* When a total is negotiated at the counter, the customer pays that total to the cent, and
\* each line is charged within a cent of its share, whatever the prices and the total.
THEOREM NegotiatedTotalIsPaid == Spec => []CustomerPaysTheTotal
  BY TradeHolds, TotalIsPaid, PTL
-----------------------------------------------------------------------------
(* What is sold.                                                           *)
\* The articles a sale was checked for are still in stock when it is written, but for those
\* that another one, checked at the same time, has sold since.
CheckedHolds ==
  /\ crossed \subseteq Sold
  /\ \A r \in Requests : Checked(r) =>
       Cardinality(Sells(r)) = Len(sale[r].lines) /\ Sells(r) \cap Sold \subseteq crossed

\* Nothing of what was sold changes.
SoldKept == Sold' = Sold /\ \A a \in Sold : a \in DOMAIN article' /\ article'[a].sold = article[a].sold

\* A step that writes no sale sells nothing.
LEMMA OnlySalesSell ==
  ASSUME TradeTyped, Next, \A r \in Requests : ~CommitSale(r)
  PROVE  SoldKept /\ UNCHANGED <<cashed, crossed>>
<1> DEFINE Kept == SoldKept /\ UNCHANGED <<cashed, crossed>>
<1>0. article \in [Known -> Row]
  BY DEF TradeTyped, ArticlesTyped
<1>1. ASSUME UNCHANGED article PROVE SoldKept
  BY <1>1 DEF SoldKept, Sold, Known
<1>2. ASSUME CreateLot PROVE SoldKept
  <2> DEFINE new == [n \in DOMAIN LotArticles |-> Fresh[n]]
             K == Known \cup Range(new)
  <2>1. article' = [a \in K |->
                      IF a \in Known THEN article[a]
                      ELSE LET n == CHOOSE n \in DOMAIN new : new[n] = a
                           IN  Bought(LotArticles[n].label, LotParts[n])]
    BY <1>2 DEF CreateLot
  <2>2. \A label, cost : Bought(label, cost).sold = Null
    BY DEF Bought
  <2> HIDE DEF K, new
  <2>3. \A a \in Known : article'[a] = article[a]
    BY <2>1 DEF K
  <2>4. \A a \in K : a \notin Known => article'[a].sold = Null
    <3> SUFFICES ASSUME NEW a \in K, a \notin Known PROVE article'[a].sold = Null
      OBVIOUS
    <3> DEFINE n == CHOOSE n \in DOMAIN new : new[n] = a
    <3>1. article'[a] = Bought(LotArticles[n].label, LotParts[n])
      BY <2>1
    <3> HIDE DEF n
    <3> QED
      BY <2>2, <3>1
  <2>5. Known' = K /\ Known \subseteq K
    BY <2>1 DEF Known, K
  <2> QED
    BY <2>3, <2>4, <2>5 DEF SoldKept, Sold, Known
<1>3. ASSUME NEW a, ToggleDepositorPayment(a) PROVE SoldKept
  <2>1. a \in Known /\ article' = [article EXCEPT ![a].paid = ~@]
    BY <1>3 DEF ToggleDepositorPayment, Sold
  <2>2. Known' = Known /\ \A b \in Known : b # a => article'[b] = article[b]
    BY <1>0, <2>1 DEF Known
  <2>3. article'[a] = [article[a] EXCEPT !.paid = ~@] /\ article[a] \in Row
    BY <1>0, <2>1
  <2>4. article'[a].sold = article[a].sold
    BY <2>3 DEF Row
  <2> QED
    BY <2>2, <2>4 DEF SoldKept, Sold, Known
<1>4. CASE OpenLot \/ Reload
  BY <1>1, <1>4 DEF OpenLot, Reload, api
<1>5. CASE LotGesture
  BY <1>1, <1>2, <1>5
     DEF LotGesture, Patch, AddLine, RemoveLine, TypePaid, GiveUp, till, api
<1>6. CASE Pay
  BY <1>3, <1>6 DEF Pay, till, api
<1>7. CASE Api
  BY <1>1, <1>7 DEF Api, Serves, SellMany, FailSale
<1>8. CASE Sale
  <2>1. CASE Glance
    BY <1>1, <2>1 DEF Glance, Arrow, Point, Escape, Enter, Click, api
  <2>2. CASE Network
    BY <1>1, <2>2 DEF Network, Propose, FinishEntering, Answered, Unanswered, api
  <2>3. CASE Bargain \/ Keystroke
    BY <1>1, <2>3
       DEF Bargain, Keystroke, Type, ChangePlace, RemoveFromBasket, EditPrice, Negotiate, Submit, api
  <2>4. CASE \E r \in Requests, a \in Known : OtherSells(r, a)
    BY <1>1, <2>4 DEF OtherSells
  <2> QED
    BY <1>8, <2>1, <2>2, <2>3, <2>4 DEF Sale
<1> QED
  BY <1>4, <1>5, <1>6, <1>7, <1>8 DEF Next

\* A sale sells its articles, and does nothing to the others.
LEMMA SaleSells ==
  ASSUME TradeTyped, NEW r \in Requests, CommitSale(r)
  PROVE  /\ Known' = Known /\ Sells(r) \subseteq Known /\ Sold' = Sold \cup Sells(r)
         /\ \A a \in Known \ Sells(r) : article'[a] = article[a]
<1>1. article' = [a \in Known |->
                    IF a \in Sells(r)
                      THEN Sell(article[a], (CHOOSE l \in Lines(r) : l.article = a).price)
                      ELSE article[a]]
  BY DEF CommitSale
<1>2. Lines(r) \subseteq SaleLine /\ Sells(r) \subseteq Known
  BY LinesTyped DEF TradeTyped, CommitSale, Checked
<1>3. Known' = Known /\ \A a \in Known \ Sells(r) : article'[a] = article[a]
  BY <1>1 DEF Known
<1>4. ASSUME NEW a \in Sells(r) PROVE article'[a].sold # Null
  <2> DEFINE l == CHOOSE l \in Lines(r) : l.article = a
  <2>1. l \in Lines(r)
    BY <1>4 DEF Sells
  <2>2. article'[a] = Sell(article[a], l.price)
    BY <1>1, <1>2
  <2> HIDE DEF l
  <2>3. l.price \in Nat
    BY <1>2, <2>1 DEF SaleLine
  <2>4. article[a] \in Row
    BY <1>2 DEF TradeTyped, ArticlesTyped
  <2>5. article'[a].sold = l.price
    BY <2>2, <2>4 DEF Sell, Row
  <2> QED
    BY <2>3, <2>5, Constants
<1> QED
  BY <1>2, <1>3, <1>4 DEF Sold

\* What is checked stays so, and what is crossed is sold.
LEMMA CheckedStep ==
  ASSUME TradeTyped, CheckedHolds, Next
  PROVE  CheckedHolds'
<1> DEFINE Good(q) == Checked(q) =>
             Cardinality(Sells(q)) = Len(sale[q].lines) /\ Sells(q) \cap Sold \subseteq crossed
<1>0. SaleTyped
  BY DEF TradeTyped
<1>1. ASSUME NEW q \in Requests, sale'[q] = sale[q], Sold' = Sold, crossed' = crossed
      PROVE  Good(q)'
  BY <1>1 DEF CheckedHolds, Checked, Sells, Lines
<1>2. CASE \E r \in Requests : CommitSale(r)
  <2>1. PICK r \in Requests : CommitSale(r)
    BY <1>2
  <2>2. Sold' = Sold \cup Sells(r)
    BY <2>1, SaleSells
  <2>3. crossed' = crossed \cup
          UNION {Sells(r) \cap Sells(q) : q \in {o \in Requests \ {r} : Checked(o)}}
    BY <2>1 DEF CommitSale
  <2>4. sale'[r] = Null /\ \A q \in Requests : q # r => sale'[q] = sale[q]
    BY <1>0, <2>1 DEF CommitSale, Answer, SaleTyped
  <2>5. crossed' \subseteq Sold'
    BY <2>2, <2>3 DEF CheckedHolds
  <2>6. ASSUME NEW q \in Requests PROVE Good(q)'
    <3>1. CASE q = r
      BY <2>4, <3>1 DEF Checked
    <3>2. CASE q # r /\ Checked(q)
      <4>1. Sells(q)' = Sells(q) /\ sale'[q] = sale[q]
        BY <2>4, <3>2 DEF Sells, Lines
      <4>2. Sells(r) \cap Sells(q) \subseteq crossed' /\ crossed \subseteq crossed'
        BY <2>3, <3>2
      <4>3. /\ Cardinality(Sells(q)) = Len(sale[q].lines)
            /\ Sells(q) \cap Sold \subseteq crossed
        BY <3>2 DEF CheckedHolds
      <4> QED
        BY <2>2, <4>1, <4>2, <4>3
    <3>3. CASE q # r /\ ~Checked(q)
      BY <2>4, <3>3 DEF Checked
    <3> QED
      BY <3>1, <3>2, <3>3
  <2> QED
    BY <2>5, <2>6 DEF CheckedHolds
<1>3. CASE \A r \in Requests : ~CommitSale(r)
  <2>1. Sold' = Sold /\ crossed' = crossed
    BY <1>3, OnlySalesSell DEF SoldKept
  <2>2. ASSUME UNCHANGED sale PROVE \A q \in Requests : Good(q)'
    BY <1>1, <2>1, <2>2
  <2>3. ASSUME NEW r \in Requests, NEW x, sale' = [sale EXCEPT ![r] = x],
               x = Null \/ ~x.checked
        PROVE  \A q \in Requests : Good(q)'
    <3>1. sale'[r] = x /\ \A q \in Requests : q # r => sale'[q] = sale[q]
      BY <1>0, <2>3 DEF SaleTyped
    <3>2. Good(r)'
      BY <2>3, <3>1 DEF Checked
    <3> QED
      BY <1>1, <2>1, <3>1, <3>2
  <2>4. ASSUME NEW r \in Requests, Submit(r) PROVE \A q \in Requests : Good(q)'
    BY <2>3, <2>4, SubmitHolds
  <2>5. ASSUME NEW r \in Requests, NEW a \in Known, OtherSells(r, a)
        PROVE  \A q \in Requests : Good(q)'
    BY <2>3, <2>5, OtherHolds
  <2>6. ASSUME NEW r \in Requests, NEW answer, Answer(r, answer)
        PROVE  \A q \in Requests : Good(q)'
    BY <2>3, <2>6 DEF Answer
  <2>7. ASSUME NEW r \in Requests, SellMany(r) PROVE \A q \in Requests : Good(q)'
    <3>1. CASE Answer(r, "refused")
      BY <2>6, <3>1
    <3>2. CASE SaleIsLegal(r) /\ sale' = [sale EXCEPT ![r].checked = TRUE]
      <4>1. sale[r] \in Sent
        BY <1>0, <2>7, LinesTyped DEF SellMany
      <4>2. /\ sale'[r].lines = sale[r].lines
            /\ \A q \in Requests : q # r => sale'[q] = sale[q]
        BY <1>0, <3>2, <4>1 DEF SaleTyped, Sent
      <4>3. Sells(r)' = Sells(r)
        BY <4>2 DEF Sells, Lines
      <4>4. Cardinality(Sells(r)) = Len(sale[r].lines) /\ Sells(r) \cap Sold = {}
        BY <3>2 DEF SaleIsLegal, InStock
      <4>5. Good(r)'
        BY <2>1, <4>2, <4>3, <4>4
      <4> QED
        BY <1>1, <2>1, <4>2, <4>5
    <3> QED
      BY <2>7, <3>1, <3>2 DEF SellMany
  <2>8. \A q \in Requests : Good(q)'
    <3>1. CASE OpenLot \/ Reload \/ LotGesture \/ Pay
      BY <2>2, <3>1 DEF OpenLot, Reload, LotGesture, Pay, till, api
    <3>2. CASE Api
      BY <1>3, <2>6, <2>7, <3>2 DEF Api, Serves, FailSale
    <3>3. CASE Sale
      <4>1. CASE Glance \/ Network
        BY <2>2, <4>1 DEF Glance, Arrow, Point, Escape, Enter, Click, Network, Propose,
                          FinishEntering, Answered, Unanswered, api
      <4>2. CASE Bargain \/ Keystroke
        BY <2>2, <2>4, <4>2
           DEF Bargain, Keystroke, Type, ChangePlace, RemoveFromBasket, EditPrice, Negotiate, api
      <4> QED
        BY <2>5, <3>3, <4>1, <4>2 DEF Sale
    <3> QED
      BY <3>1, <3>2, <3>3 DEF Next
  <2>9. crossed' \subseteq Sold'
    BY <2>1 DEF CheckedHolds
  <2> QED
    BY <2>8, <2>9 DEF CheckedHolds
<1> QED
  BY <1>2, <1>3

\* The sales on their way are what they were checked for, unless they crossed.
LEMMA SalesHold == Spec => []CheckedHolds
<1>1. Init => CheckedHolds
  BY DEF Init, Empty, CheckedHolds, Checked
<1>2. TradeTyped /\ CheckedHolds /\ [Next]_vars => CheckedHolds'
  <2>1. ASSUME CheckedHolds, UNCHANGED vars PROVE CheckedHolds'
    BY <2>1 DEF vars, till, api, CheckedHolds, Checked, Sells, Lines, Sold, Known
  <2> QED
    BY <2>1, CheckedStep
<1> QED
  BY <1>1, <1>2, TradeHolds, PTL DEF Spec

\* However many sales the API has on its hands, of whatever counters, sent twice or not: an
\* article that is sold keeps its price, unless two sales were checked on it before either
\* was written.
THEOREM ArticlesAreSoldOnce == Spec => SoldOnceUnlessCrossed
<1> DEFINE Once == \A a \in Sold \ crossed :
                     a \in DOMAIN article' /\ article'[a].sold = article[a].sold
<1>1. ASSUME TradeTyped, CheckedHolds, Next PROVE Once
  <2>1. CASE \A r \in Requests : ~CommitSale(r)
    BY <1>1, <2>1, OnlySalesSell DEF SoldKept
  <2>2. ASSUME NEW r \in Requests, CommitSale(r) PROVE Once
    <3>1. Sells(r) \cap Sold \subseteq crossed
      BY <1>1, <2>2 DEF CheckedHolds, CommitSale
    <3>2. Sold \subseteq Known /\ Known' = Known /\ DOMAIN article' = Known'
      BY <1>1, <2>2, SaleSells DEF Sold, Known
    <3>3. \A a \in Known \ Sells(r) : article'[a] = article[a]
      BY <1>1, <2>2, SaleSells
    <3> QED
      BY <3>1, <3>2, <3>3
  <2> QED
    BY <2>1, <2>2
<1>2. TradeTyped /\ CheckedHolds /\ [Next]_vars => [Once]_vars
  BY <1>1
<1> QED
  BY <1>2, TradeHolds, SalesHold, PTL DEF Spec, SoldOnceUnlessCrossed

\* Everything is of its type: every article shown, searched for, in the basket or hovered is
\* one there is, a price charged is never negative, and what sales crossed on is sold.
THEOREM TradeTypeCorrect == Spec => []TypeOK
<1>1. TradeTyped /\ CheckedHolds => TypeOK
  BY TypesMeanTypes DEF CheckedHolds
<1> QED
  BY <1>1, TradeHolds, SalesHold, PTL

-----------------------------------------------------------------------------
(* What the money adds up to.                                              *)
\* What a finite set is mapped to is finite.
LEMMA ImageIsFinite ==
  ASSUME NEW U, IsFiniteSet(U), NEW f
  PROVE  IsFiniteSet({f[i] : i \in U})
<1> DEFINE im == {f[i] : i \in U}
           h == [i \in U |-> f[i]]
<1>1. h \in Surjection(U, im)
  BY DEF Surjection
<1> HIDE DEF h, im
<1>2. IsFiniteSet(im)
  BY <1>1, FS_Surjection
<1> QED
  BY <1>2 DEF im

\* The terms of a sum, filed under other names.
Renames(f, g, h, U) == /\ \A i, j \in U : f[i] = f[j] => i = j
                       /\ \A i \in U : h[i] \in Int /\ g[f[i]] = h[i]

\* The sum over the new names is the sum over the old ones.
LEMMA SumRenames ==
  ASSUME NEW U, IsFiniteSet(U), NEW f, NEW g, NEW h, Renames(f, g, h, U)
  PROVE  Over(h, U) = Over(g, {f[i] : i \in U})
<1>0. /\ \A i, j \in U : f[i] = f[j] => i = j
      /\ \A i \in U : h[i] \in Int /\ g[f[i]] = h[i]
  BY DEF Renames
<1> DEFINE im(T) == {f[i] : i \in T}
           G == {T \in SUBSET U : Over(h, T) = Over(g, im(T))}
<1>1. IsFiniteSet(im(U))
  BY ImageIsFinite
<1>2. \A y \in im(U) : g[y] \in Int
  BY <1>0
<1> HIDE DEF im
<1>3. AddsUp(h, U) /\ AddsUp(g, im(U))
  BY <1>0, <1>1, <1>2, SumRules
<1>4. {} \in G
  <2>1. im({}) = {}
    BY DEF im
  <2> QED
    BY <1>3, <2>1 DEF AddsUp
<1>5. ASSUME NEW T \in SUBSET U, NEW x \in T, T \ {x} \in G PROVE T \in G
  <2>1. im(T) \in SUBSET im(U) /\ f[x] \in im(T) /\ im(T \ {x}) = im(T) \ {f[x]}
    BY <1>0 DEF im
  <2>2. Over(h, T) = h[x] + Over(h, T \ {x})
    BY <1>3 DEF AddsUp
  <2>3. Over(g, im(T)) = g[f[x]] + Over(g, im(T) \ {f[x]})
    BY <1>3, <2>1 DEF AddsUp
  <2>4. Over(h, T \ {x}) = Over(g, im(T \ {x}))
    BY <1>5
  <2> QED
    BY <1>0, <2>1, <2>2, <2>3, <2>4
<1> HIDE DEF G
<1>6. \A T \in SUBSET U : T # {} => \E x \in T : T \ {x} \in G => T \in G
  BY <1>5
<1>7. \A T \in SUBSET U : T \in G
  BY <1>4, <1>6, SetInduction, Zenon
<1> QED
  BY <1>7 DEF G, im

\* What has come in, as the rows tell it.
Revenue == SumFunction([a \in Sold |-> article[a].sold])

\* There are finitely many articles.
LEMMA ArticlesAreFinite == IsFiniteSet(Range(Articles))
<1>1. Range(Articles) = {Articles[i] : i \in 1 .. Len(Articles)} /\ Len(Articles) \in Nat
  BY Constants DEF Range
<1>2. IsFiniteSet({Articles[i] : i \in 1 .. Len(Articles)})
  BY <1>1, UpTo, ImageIsFinite
<1> QED
  BY <1>1, <1>2

\* The articles of A are sold, and no other; the prices of those that were sold already are lost.
LEMMA RevenueGrows ==
  ASSUME ArticlesTyped, ArticlesTyped', NEW A, Sold' = Sold \cup A,
         \A a \in Sold \ A : article'[a].sold = article[a].sold
  PROVE  \E lost \in Nat :
           /\ Revenue \in Int /\ SumFunction([a \in A |-> article'[a].sold]) \in Int
           /\ Revenue' = Revenue + SumFunction([a \in A |-> article'[a].sold]) - lost
           /\ Sold \cap A = {} => lost = 0
<1> DEFINE f == [a \in Sold |-> article[a].sold]
           g == [a \in Sold' |-> article'[a].sold]
           B == Sold \ A
           C == Sold \cap A
           h == [y \in C |-> f[y]]
<1>1. /\ IsFiniteSet(Sold) /\ IsFiniteSet(Sold')
      /\ IsFiniteSet(A) /\ IsFiniteSet(B) /\ IsFiniteSet(C)
  <2>1. Sold \in SUBSET Range(Articles) /\ Sold' \in SUBSET Range(Articles)
    BY DEF ArticlesTyped, Sold
  <2>2. \A T : T \subseteq Range(Articles) => IsFiniteSet(T)
    BY ArticlesAreFinite, FS_Subset
  <2>3. A \subseteq Range(Articles) /\ B \subseteq Range(Articles) /\ C \subseteq Range(Articles)
    BY <2>1
  <2> QED
    BY <2>1, <2>2, <2>3
<1>2. /\ \A a \in Sold : f[a] \in Nat
      /\ \A a \in Sold' : g[a] \in Nat
  BY DEF ArticlesTyped, Row, Sold
<1>3. /\ [y \in A |-> g[y]] = [a \in A |-> article'[a].sold]
      /\ [y \in B |-> g[y]] = [y \in B |-> f[y]]
      /\ [y \in Sold |-> f[y]] = f /\ [y \in Sold' |-> g[y]] = g
  OBVIOUS
<1>4. h \in [C -> Nat] /\ h = [y \in C |-> h[y]]
  BY <1>2
<1>5. B \cup A = Sold' /\ B \cap A = {} /\ B \cup C = Sold /\ B \cap C = {}
  OBVIOUS
<1>6. Revenue = SumFunction(f) /\ Revenue' = SumFunction(g)
  BY DEF Revenue
<1>7. C = Sold \cap A
  OBVIOUS
<1>8. Total(h) = Over(f, C)
  BY Zenon DEF Total, Over, h
<1> HIDE DEF f, g, h, B, C
<1>9. \A y \in B \cup A : g[y] \in Int
  BY <1>2, <1>5
<1>10. \A y \in B \cup C : f[y] \in Int
  BY <1>2, <1>5
<1>11. Over(g, B \cup A) = Over(g, B) + Over(g, A)
  BY <1>1, <1>5, <1>9, SumSplits
<1>12. Over(f, B \cup C) = Over(f, B) + Over(f, C)
  BY <1>1, <1>5, <1>10, SumSplits
<1>13. /\ Over(g, A) = SumFunction([a \in A |-> article'[a].sold])
       /\ Over(g, B) = Over(f, B)
       /\ Over(f, Sold) = SumFunction(f) /\ Over(g, Sold') = SumFunction(g)
  BY <1>3 DEF Over
<1>14. Total(h) \in Nat
  BY <1>1, <1>4, TotalIsNat
<1>15. /\ Over(f, B) \in Int /\ Over(g, A) \in Int
       /\ C = {} => Over(f, C) = 0
  <2>1. AddsUp(f, B \cup C)
    BY <1>1, <1>5, <1>10, SumRules
  <2>2. AddsUp(g, B \cup A)
    BY <1>1, <1>5, <1>9, SumRules
  <2> QED
    BY <2>1, <2>2 DEF AddsUp
<1>16. /\ Revenue = Over(f, B) + Over(f, C) /\ Over(f, C) \in Nat
       /\ Revenue' = Over(f, B) + Over(g, A)
  BY <1>5, <1>6, <1>8, <1>11, <1>12, <1>13, <1>14
<1>17. /\ Revenue \in Int /\ SumFunction([a \in A |-> article'[a].sold]) \in Int
       /\ Revenue' = Revenue + SumFunction([a \in A |-> article'[a].sold]) - Over(f, C)
       /\ Sold \cap A = {} => Over(f, C) = 0
  BY <1>7, <1>13, <1>15, <1>16
<1> QED
  BY <1>16, <1>17

\* A sale brings in what its customer owes, less the prices it writes over.
LEMMA RevenueOfSale ==
  ASSUME TradeTyped, DueHolds, CheckedHolds, NEW r \in Requests, CommitSale(r), ArticlesTyped'
  PROVE  \E lost \in Nat : /\ Revenue \in Int /\ sale[r].due \in Int
                           /\ Revenue' = Revenue + sale[r].due - lost
                           /\ Sells(r) \cap Sold = {} => lost = 0
<1> DEFINE ls == sale[r].lines
           n == Len(ls)
           f == [i \in 1 .. n |-> ls[i].article]
           p == [i \in 1 .. n |-> ls[i].price]
           A == {f[i] : i \in 1 .. n}
           ByArticle(a) == CHOOSE l \in Lines(r) : l.article = a
<1>0. ArticlesTyped /\ SaleTyped
  BY DEF TradeTyped
<1>1. ls \in Seq(SaleLine) /\ sale[r] # Null /\ sale[r].due \in Int
  BY <1>0, LinesTyped DEF CommitSale, Checked, Sent
<1>2. n \in Nat /\ DOMAIN ls = 1 .. n /\ \A i \in 1 .. n : ls[i] \in SaleLine
  BY <1>1
<1>3. Lines(r) = {ls[i] : i \in 1 .. n}
  BY <1>2 DEF Lines, Range
<1>4. A = Sells(r)
  BY <1>3 DEF Sells
<1>5. A \subseteq Known /\ Cardinality(A) = n
  BY <1>4, SaleSells DEF CheckedHolds, CommitSale
<1>6. IsFiniteSet(1 .. n) /\ Cardinality(1 .. n) = n
  BY <1>2, UpTo
<1>7. \A i, j \in 1 .. n : f[i] = f[j] => i = j
  <2>1. IsFiniteSet(A)
    BY <1>6, ImageIsFinite
  <2>2. f \in Surjection(1 .. n, A)
    BY DEF Surjection
  <2>3. f \in Injection(1 .. n, A)
    BY <1>5, <1>6, <2>1, <2>2, FS_Surjection
  <2> QED
    BY <2>3 DEF Injection, IsInjective
<1>8. article' = [a \in Known |->
                    IF a \in Sells(r) THEN Sell(article[a], ByArticle(a).price) ELSE article[a]]
  BY DEF CommitSale
<1>9. \A i \in 1 .. n : ByArticle(f[i]) = ls[i]
  <2> SUFFICES ASSUME NEW i \in 1 .. n PROVE ByArticle(f[i]) = ls[i]
    OBVIOUS
  <2>1. ls[i] \in Lines(r) /\ ls[i].article = f[i]
    BY <1>3
  <2>2. ByArticle(f[i]) \in Lines(r) /\ ByArticle(f[i]).article = f[i]
    BY <2>1
  <2>3. PICK j \in 1 .. n : ByArticle(f[i]) = ls[j]
    BY <1>3, <2>2
  <2>4. f[j] = f[i]
    BY <2>2, <2>3
  <2> QED
    BY <1>7, <2>3, <2>4
<1> HIDE DEF ByArticle
<1>10. \A i \in 1 .. n : p[i] = ls[i].price /\ p[i] \in Nat
  BY <1>2 DEF SaleLine
<1>11. \A i \in 1 .. n : f[i] \in Known /\ article'[f[i]].sold = p[i]
  <2> SUFFICES ASSUME NEW i \in 1 .. n PROVE f[i] \in Known /\ article'[f[i]].sold = p[i]
    OBVIOUS
  <2>1. f[i] \in A /\ f[i] \in Known
    BY <1>5
  <2>2. article'[f[i]] = Sell(article[f[i]], p[i])
    BY <1>4, <1>8, <1>9, <1>10, <2>1
  <2>3. article[f[i]] \in Row
    BY <1>0, <2>1 DEF ArticlesTyped
  <2> HIDE DEF f, p
  <2> QED
    BY <2>1, <2>2, <2>3 DEF Sell, Row
<1>12. Sold' = Sold \cup A /\ \A a \in Known : a \notin A => article'[a] = article[a]
  BY <1>4, SaleSells
<1>13. \A a \in Sold \ A : article'[a].sold = article[a].sold
  BY <1>12 DEF Sold
<1> HIDE DEF f, p, A
<1> DEFINE g == [a \in A |-> article'[a].sold]
<1>14. PICK lost \in Nat : /\ Revenue \in Int /\ Revenue' = Revenue + SumFunction(g) - lost
                           /\ Sold \cap A = {} => lost = 0
  BY <1>0, <1>12, <1>13, RevenueGrows
<1>15. \A i \in 1 .. n : p[i] \in Int /\ g[f[i]] = p[i]
  BY <1>10, <1>11 DEF A
<1>16. g = [y \in A |-> g[y]] /\ p = [y \in 1 .. n |-> p[y]]
  BY DEF p
<1> HIDE DEF g
<1>17. Over(p, 1 .. n) = Over(g, A)
  <2>1. Renames(f, g, p, 1 .. n)
    BY <1>7, <1>15 DEF Renames
  <2>2. Over(p, 1 .. n) = Over(g, {f[i] : i \in 1 .. n})
    BY <1>6, <2>1, SumRenames
  <2> QED
    BY <2>2 DEF A
<1>18. sale[r].due = Total(p)
  <2>1. [i \in DOMAIN ls |-> ls[i].price] = p
    BY <1>2 DEF p
  <2> QED
    BY <1>1, <2>1 DEF DueHolds, Adds
<1>19. SumFunction(g) = Over(g, A) /\ Total(p) = Over(p, 1 .. n)
  <2>1. SumFunction(g) = Over(g, A)
    BY <1>16, Zenon DEF Over
  <2> HIDE DEF n
  <2>2. Total(p) = Over(p, 1 .. n)
    BY <1>16, TotalOver
  <2> QED
    BY <2>1, <2>2
<1>20. SumFunction(g) = sale[r].due
  BY <1>17, <1>18, <1>19
<1> QED
  BY <1>1, <1>4, <1>14, <1>20

\* Nothing comes in as long as nothing is sold.
LEMMA RevenueKept ==
  ASSUME SoldKept
  PROVE  Revenue' = Revenue
<1>1. [a \in Sold' |-> article'[a].sold] = [a \in Sold |-> article[a].sold]
  BY DEF SoldKept
<1> QED
  BY <1>1 DEF Revenue

\* What was cashed in is what the rows tell, or more where sales crossed.
RevenueHolds == Revenue \in Int /\ Revenue <= cashed /\ (crossed = {} => Revenue = cashed)

\* Each sale cashes in what it writes.
LEMMA RevenueStep ==
  ASSUME TradeTyped, DueHolds, CheckedHolds, RevenueHolds, Next
  PROVE  RevenueHolds'
<1>1. CASE \A r \in Requests : ~CommitSale(r)
  BY <1>1, OnlySalesSell, RevenueKept DEF RevenueHolds
<1>2. ASSUME NEW r \in Requests, CommitSale(r) PROVE RevenueHolds'
  <2>1. PICK lost \in Nat : /\ Revenue \in Int /\ sale[r].due \in Int
                            /\ Revenue' = Revenue + sale[r].due - lost
                            /\ Sells(r) \cap Sold = {} => lost = 0
    BY <1>2, ArticlesStep, RevenueOfSale
  <2>2. cashed' = cashed + sale[r].due /\ crossed \subseteq crossed'
    BY <1>2 DEF CommitSale
  <2>3. Sells(r) \cap Sold \subseteq crossed
    BY <1>2 DEF CommitSale, CheckedHolds
  <2>4. cashed \in Int
    BY DEF TradeTyped, CountsTyped
  <2>5. crossed' = {} => crossed = {} /\ lost = 0
    BY <2>1, <2>2, <2>3
  <2> QED
    BY <2>1, <2>2, <2>4, <2>5 DEF RevenueHolds
<1> QED
  BY <1>1, <1>2

\* Rounding to the cent moves a sum by half a cent at most.
LEMMA RoundIsNear ==
  ASSUME NEW n \in Int
  PROVE  /\ Round(n, 100) \in Int
         /\ -50 <= n - 100 * Round(n, 100) /\ n - 100 * Round(n, 100) < 50
<1> DEFINE x == 2 * n + 100
           q == x \div 200
           r == x % 200
<1>1. x \in Int
  OBVIOUS
<1>2. Round(n, 100) = q
  BY DEF Round
<1> HIDE DEF x
<1>3. q \in Int /\ r \in Int /\ x = 200 * q + r /\ 0 <= r /\ r < 200
  BY <1>1, Euclid
<1> HIDE DEF q, r
<1> QED
  BY <1>2, <1>3 DEF x

\* What the sums that are compared are, line by line.
LEMMA SharesHold ==
  ASSUME ArticlesTyped
  PROVE  /\ \A a \in Sold : Price(a) \in Int
         /\ \A a \in Sold \cap OnDeposit :
              /\ ShopShare(a) \in Int /\ DepositorShare(a) \in Int /\ MargeDe(a) \in Int
              /\ Price(a) = ShopShare(a) + DepositorShare(a)
              /\ -50 <= MargeDe(a) - 100 * ShopShare(a)
              /\ MargeDe(a) - 100 * ShopShare(a) <= 50
         /\ \A a \in Sold \ OnDeposit :
              /\ Price(a) - article[a].cost \in Int /\ MargeDe(a) \in Int
              /\ MargeDe(a) = 100 * (Price(a) - article[a].cost)
<1>1. \A a \in Sold : a \in Known /\ article[a] \in Row /\ Price(a) \in Nat
  BY DEF ArticlesTyped, Sold, Price, Row
<1>2. ASSUME NEW a \in Sold \cap OnDeposit
      PROVE  /\ ShopShare(a) \in Int /\ DepositorShare(a) \in Int /\ MargeDe(a) \in Int
             /\ Price(a) = ShopShare(a) + DepositorShare(a)
             /\ -50 <= MargeDe(a) - 100 * ShopShare(a)
             /\ MargeDe(a) - 100 * ShopShare(a) <= 50
  <2> DEFINE n == Price(a) * Rate
  <2>1. n \in Int /\ MargeDe(a) = n /\ ShopShare(a) = Round(n, 100)
    <3>1. Rate \in Int
      BY RateIsPercent DEF RateIsPercent
    <3> QED
      BY <1>1, <3>1, Products DEF MargeDe, ShopShare
  <2>2. DepositorShare(a) = Price(a) - ShopShare(a) /\ Price(a) \in Int
    BY <1>1 DEF DepositorShare
  <2> HIDE DEF n
  <2>3. Round(n, 100) \in Int /\ -50 <= n - 100 * Round(n, 100) /\ n - 100 * Round(n, 100) < 50
    BY <2>1, RoundIsNear
  <2> QED
    BY <2>1, <2>2, <2>3
<1>3. ASSUME NEW a \in Sold \ OnDeposit
      PROVE  /\ Price(a) - article[a].cost \in Int /\ MargeDe(a) \in Int
             /\ MargeDe(a) = 100 * (Price(a) - article[a].cost)
  <2>1. article[a].cost \in Nat
    BY <1>1 DEF OnDeposit, Row
  <2> QED
    BY <1>1, <2>1 DEF MargeDe
<1> QED
  BY <1>1, <1>2, <1>3

\* The figures are sums of these.
LEMMA BooksAddUp == ArticlesTyped /\ RevenueHolds => BooksAgree
<1> SUFFICES ASSUME ArticlesTyped, RevenueHolds PROVE BooksAgree
  OBVIOUS
<1> DEFINE S == Sold \cap OnDeposit
           B == Sold \ OnDeposit
           P == {a \in S : article[a].paid}
           price == [a \in Sold |-> Price(a)]
           shop == [a \in S |-> ShopShare(a)]
           depositor == [a \in S |-> DepositorShare(a)]
           marge == [a \in Sold |-> MargeDe(a)]
           gain == [a \in B |-> Price(a) - article[a].cost]
<1>1. /\ IsFiniteSet(Known) /\ IsFiniteSet(Sold) /\ IsFiniteSet(S) /\ IsFiniteSet(B)
      /\ IsFiniteSet(P) /\ IsFiniteSet(S \ P)
  <2>1. \A T : T \subseteq Range(Articles) => IsFiniteSet(T)
    BY ArticlesAreFinite, FS_Subset
  <2>2. Known \subseteq Range(Articles) /\ Sold \subseteq Known
    BY DEF ArticlesTyped, Sold
  <2> QED
    BY <2>1, <2>2
<1>2. /\ \A a \in Sold : price[a] \in Int /\ marge[a] \in Int
      /\ \A a \in S : /\ shop[a] \in Int /\ depositor[a] \in Int
                      /\ price[a] = shop[a] + depositor[a]
                      /\ -50 <= marge[a] - 100 * shop[a] /\ marge[a] - 100 * shop[a] <= 50
      /\ \A a \in B : gain[a] \in Int /\ marge[a] = 100 * gain[a]
  BY SharesHold
<1>3. /\ Sum(Sold, Price) = Over(price, Sold) /\ Sum(S, Price) = Over(price, S)
      /\ Sum(S, ShopShare) = Over(shop, S)
      /\ Sum(Sold, MargeDe) = Over(marge, Sold)
      /\ Sum(B, LAMBDA a : Price(a) - article[a].cost) = Over(gain, B)
  <2>1. /\ [a \in Sold |-> Price(a)] = [y \in Sold |-> price[y]]
        /\ [a \in S |-> Price(a)] = [y \in S |-> price[y]]
        /\ [a \in S |-> ShopShare(a)] = [y \in S |-> shop[y]]
        /\ [a \in Sold |-> MargeDe(a)] = [y \in Sold |-> marge[y]]
        /\ [a \in B |-> Price(a) - article[a].cost] = [y \in B |-> gain[y]]
    OBVIOUS
  <2> HIDE DEF price, shop, marge, gain, S, B
  <2> QED
    BY <2>1 DEF Sum, Over
<1>4. /\ Sum(S, DepositorShare) = Over(depositor, S)
      /\ Sum(P, DepositorShare) = Over(depositor, P)
      /\ Sum(S \ P, DepositorShare) = Over(depositor, S \ P)
  <2>1. /\ [a \in S |-> DepositorShare(a)] = [y \in S |-> depositor[y]]
        /\ [a \in P |-> DepositorShare(a)] = [y \in P |-> depositor[y]]
        /\ [a \in S \ P |-> DepositorShare(a)] = [y \in S \ P |-> depositor[y]]
    OBVIOUS
  <2> HIDE DEF depositor, S, P
  <2> QED
    BY <2>1 DEF Sum, Over
<1>5. S = P \cup (S \ P) /\ P \cap (S \ P) = {} /\ Sold = S \cup B /\ S \cap B = {}
  OBVIOUS
<1>6. /\ Statement.soldTotal = Sum(S, Price) /\ Statement.shopShare = Sum(S, ShopShare)
      /\ Statement.depositorShare = Sum(S, DepositorShare)
      /\ Statement.alreadyPaid = Sum(P, DepositorShare)
      /\ Statement.outstanding = Sum(S \ P, DepositorShare)
  BY DEF Statement
<1>7. SalesBlock.revenue = Revenue
  <2>1. Sum(Sold, Price) = Revenue
    BY DEF Sum, Revenue, Price
  <2> QED
    BY <2>1 DEF SalesBlock
<1>8. SalesBlock.margin = Round(Over(marge, Sold), 100)
  BY <1>3 DEF SalesBlock
<1>9. StockBlock.active + Cardinality(Sold) = Cardinality(Known)
  <2>1. Sold \subseteq Known /\ Known \cap Sold = Sold
    BY DEF Sold
  <2>2. Cardinality(Known \ Sold) = Cardinality(Known) - Cardinality(Known \cap Sold)
    BY <1>1, FS_Difference
  <2>3. Cardinality(Known) \in Nat /\ Cardinality(Sold) \in Nat
    BY <1>1, FS_CardinalityType
  <2>4. StockBlock.active = Cardinality(InStock)
    BY DEF StockBlock
  <2>5. InStock = Known \ Sold
    BY DEF InStock
  <2>6. StockBlock.active = Cardinality(Known \ Sold)
    BY <2>4, <2>5, Zenon
  <2>7. Cardinality(Known \ Sold) = Cardinality(Known) - Cardinality(Sold)
    BY <2>1, <2>2, Zenon
  <2> DEFINE known == Cardinality(Known)
             sold == Cardinality(Sold)
  <2>8. StockBlock.active = known - sold /\ known \in Nat /\ sold \in Nat
    BY <2>3, <2>6, <2>7, Zenon
  <2> HIDE DEF known, sold
  <2>9. StockBlock.active + sold = known
    BY <2>8
  <2> QED
    BY <2>9 DEF known, sold
<1> HIDE DEF price, shop, depositor, marge, gain, S, B, P
<1>10. Statement.shopShare + Sum(S, DepositorShare) = Statement.soldTotal
  <2>1. \A a \in S : shop[a] \in Int /\ depositor[a] \in Int /\ price[a] = shop[a] + depositor[a]
    BY <1>2
  <2>2. Over(price, S) = Over(shop, S) + Over(depositor, S)
    BY <1>1, <2>1, SumAdds
  <2> QED
    BY <1>3, <1>4, <1>6, <2>2
<1>11. Statement.alreadyPaid + Statement.outstanding = Statement.depositorShare
  <2>1. \A a \in P \cup (S \ P) : depositor[a] \in Int
    BY <1>2, <1>5
  <2>2. Over(depositor, P \cup (S \ P)) = Over(depositor, P) + Over(depositor, S \ P)
    BY <1>1, <1>5, <2>1, SumSplits
  <2> QED
    BY <1>4, <1>5, <1>6, <2>2
<1> DEFINE N == Cardinality(S)
           K == Over(shop, S) + Over(gain, B)
           M == Over(marge, Sold)
           off == [a \in S |-> marge[a] - 100 * shop[a]]
           E == Over(off, S)
<1>12. N \in Nat /\ Over(shop, S) \in Int /\ Over(gain, B) \in Int /\ M \in Int
  <2>1. AddsUp(shop, S) /\ AddsUp(gain, B) /\ AddsUp(marge, Sold)
    BY <1>1, <1>2, SumRules
  <2> QED
    BY <1>1, <2>1, FS_CardinalityType DEF AddsUp
<1>13. \A a \in S : /\ off[a] \in Int /\ -50 <= off[a] /\ off[a] <= 50
                    /\ marge[a] = 100 * shop[a] + off[a]
  <2>1. S \subseteq Sold
    BY <1>5
  <2> QED
    BY <1>2, <2>1
<1> HIDE DEF off
<1>14. E \in Int /\ -50 * N <= E /\ E <= 50 * N
  <2> DEFINE one == [y \in S |-> IF y \in S THEN 1 ELSE 0]
             most == [y \in S |-> 50 * one[y]]
             least == [y \in S |-> (-50) * one[y]]
  <2>1. \A y \in S : /\ one[y] \in Int /\ most[y] = 50 * one[y] /\ least[y] = (-50) * one[y]
                     /\ most[y] \in Int /\ least[y] \in Int
                     /\ off[y] <= most[y] /\ least[y] <= off[y] /\ off[y] \in Int
    BY <1>13
  <2>2. Over(one, S) = N
    BY <1>1, SumCounts
  <2> HIDE DEF one, most, least, N
  <2>3. 50 \in Int /\ -50 \in Int
    OBVIOUS
  <2>4. Over(most, S) = 50 * Over(one, S)
    BY <1>1, <2>1, <2>3, SumScales
  <2>5. Over(least, S) = (-50) * Over(one, S)
    BY <1>1, <2>1, <2>3, SumScales
  <2>6. Over(off, S) <= Over(most, S) /\ Over(least, S) <= Over(off, S)
    BY <1>1, <2>1, SumBounds
  <2>7. AddsUp(off, S)
    BY <1>1, <2>1, SumRules
  <2>8. E \in Int
    BY <2>7 DEF AddsUp
  <2> QED
    BY <1>12, <2>2, <2>4, <2>5, <2>6, <2>8
<1>15. M = 100 * K + E
  <2> DEFINE hundred == [a \in S |-> 100 * shop[a]]
  <2>1. \A a \in S : /\ hundred[a] = 100 * shop[a] /\ hundred[a] \in Int /\ shop[a] \in Int
                     /\ off[a] \in Int /\ marge[a] = hundred[a] + off[a]
    BY <1>2, <1>13
  <2> HIDE DEF hundred
  <2>2. 100 \in Int
    OBVIOUS
  <2>3. Over(hundred, S) = 100 * Over(shop, S)
    BY <1>1, <2>1, <2>2, SumScales
  <2>4. Over(marge, S) = Over(hundred, S) + Over(off, S)
    BY <1>1, <2>1, SumAdds
  <2>5. Over(marge, B) = 100 * Over(gain, B)
    <3>1. \A a \in B : gain[a] \in Int /\ marge[a] = 100 * gain[a]
      BY <1>2
    <3> QED
      BY <1>1, <2>2, <3>1, SumScales
  <2>6. Over(marge, S \cup B) = Over(marge, S) + Over(marge, B)
    <3>1. \A a \in S \cup B : marge[a] \in Int
      BY <1>2, <1>5
    <3> QED
      BY <1>1, <1>5, <3>1, SumSplits
  <2>7. M = Over(marge, S \cup B)
    BY <1>5
  <2> HIDE DEF M
  <2> QED
    BY <1>12, <1>14, <2>3, <2>4, <2>5, <2>6, <2>7
<1> DEFINE margin == Round(M, 100)
<1>16. margin \in Int /\ -50 <= M - 100 * margin /\ M - 100 * margin < 50
  BY <1>12, RoundIsNear
<1>17. 2 * (margin - K) \in -(N + 1) .. (N + 1)
  <2>1. K \in Int
    BY <1>12
  <2> HIDE DEF N, K, M, E, margin
  <2> QED
    BY <1>12, <1>14, <1>15, <1>16, <2>1
<1>18. SalesBlock.margin = margin
       /\ Statement.shopShare + Sum(B, LAMBDA a : Price(a) - article[a].cost) = K
  BY <1>3, <1>6, <1>8
<1> HIDE DEF K, margin
<1>19. /\ SalesBlock.revenue = Revenue
       /\ Statement.shopShare + Sum(Sold \cap OnDeposit, DepositorShare) = Statement.soldTotal
       /\ 2 * (SalesBlock.margin
                - (Statement.shopShare
                    + Sum(Sold \ OnDeposit, LAMBDA a : Price(a) - article[a].cost)))
            \in -(Cardinality(Sold \cap OnDeposit) + 1) .. Cardinality(Sold \cap OnDeposit) + 1
  BY <1>7, <1>10, <1>17, <1>18 DEF S, B
<1> QED
  BY <1>9, <1>11, <1>19 DEF BooksAgree, RevenueHolds

\* The readings of the money agree, whatever is sold, paid, bought and created: the revenue of
\* the dashboard is what was cashed in as long as no two sales crossed on an article, and never
\* more; the statement shares out every price, and the two margins are half a cent a line apart
\* at most.
THEOREM BooksAlwaysAgree == Spec => []BooksAgree
<1>1. Init => RevenueHolds
  <2> SUFFICES ASSUME Init PROVE RevenueHolds
    OBVIOUS
  <2>1. \A a \in Known : article[a].sold = Null
    BY DEF Init, Known
  <2>2. Sold = {}
    BY <2>1 DEF Sold
  <2> DEFINE g == [a \in {} |-> article[a].sold]
  <2>3. Revenue = SumFunction(g)
    BY <2>2 DEF Revenue
  <2>4. [y \in {} |-> g[y]] = g
    OBVIOUS
  <2> HIDE DEF g
  <2>5. AddsUp(g, {})
    BY FS_EmptySet, SumRules
  <2>6. Over(g, {}) = 0
    BY <2>5 DEF AddsUp
  <2>7. cashed = 0
    BY DEF Init, Empty
  <2> QED
    BY <2>3, <2>4, <2>6, <2>7 DEF Over, RevenueHolds
<1>2. TradeTyped /\ DueHolds /\ CheckedHolds /\ RevenueHolds /\ [Next]_vars => RevenueHolds'
  <2>1. ASSUME UNCHANGED vars, RevenueHolds PROVE RevenueHolds'
    BY <2>1 DEF vars, till, api, RevenueHolds, Revenue, Sold, Known
  <2> QED
    BY <2>1, RevenueStep
<1>3. TradeTyped /\ RevenueHolds => BooksAgree
  BY BooksAddUp DEF TradeTyped
<1> QED
  BY <1>1, <1>2, <1>3, TradeHolds, SalesHold, PTL DEF Spec
-----------------------------------------------------------------------------
(* What the table of a lot shows.                                          *)
\* They are those the page counts: whoever typed something gave it a name.
LEMMA ActiveAreUsable ==
  ASSUME TableTyped, lines # Null, Acceptable
  PROVE  Among(lines, {l \in Range(lines) : l.named}) = UsableLines
<1> DEFINE S == {l \in Range(lines) : l.named}
           R == {l \in Range(lines) : ~isBlank(l)}
<1>1. lines \in Seq(Line)
  BY DEF TableTyped
<1>2. UsableLines = Among(lines, R)
  BY DEF UsableLines
<1>3. \A i \in DOMAIN lines : lines[i] \in S <=> lines[i] \in R
  <2> SUFFICES ASSUME NEW i \in DOMAIN lines PROVE lines[i] \in S <=> lines[i] \in R
    OBVIOUS
  <2>1. lines[i] \in Range(lines)
    BY DEF Range
  <2>2. lines[i] \in S => lines[i] \in R
    BY <2>1 DEF isBlank
  <2>3. ASSUME lines[i] \in R PROVE lines[i] \in S
    <3>1. PICK k \in DOMAIN UsableLines : UsableLines[k] = lines[i]
      BY <1>1, <1>2, <2>3, AmongAll
    <3>2. lines[i].named
      BY <3>1, UsableRead
    <3> QED
      BY <2>1, <3>2
  <2> QED
    BY <2>2, <2>3
<1> HIDE DEF S, R
<1>4. Among(lines, S) = Among(lines, R)
  BY <1>1, <1>3, AmongSame
<1> QED
  BY <1>2, <1>4 DEF S

\* « L'aperçu » of the lot: for every table and every price, each line shows as many articles
\* and the same cost as the API is about to write.
LEMMA PreviewHolds == TableTyped => PreviewTellsTheCost
<1> SUFFICES ASSUME TableTyped, lines # Null, Acceptable
             PROVE  /\ Total(LotParts) = SentPaid
                    /\ \A k \in DOMAIN UsableLines :
                         LET mine == {p \in DOMAIN LotArticles : LotArticles[p].index = k} IN
                         Repartition[k] = [copies |-> Cardinality(mine),
                                           cost |-> Sum(mine, LAMBDA p : LotParts[p])]
  BY DEF PreviewTellsTheCost
<1> DEFINE U == UsableLines
           n == Len(U)
           c == [k \in 1 .. n |-> Copies(U[k])]
           IsUpTo(v) == v = [k \in 0 .. Len(U) |->
                               IF k = 0 THEN 0 ELSE v[k - 1] + exemplaires(U[k].count)]
           u == CHOOSE v : IsUpTo(v)
<1>1. /\ n \in Nat \ {0} /\ DOMAIN U = 1 .. n
      /\ \A k \in 1 .. n : exemplaires(U[k].count) = c[k] /\ c[k] \in Nat \ {0}
  BY UsableRead
<1>2. Ends(u, c, n)
  <2>1. \A v : IsUpTo(v) <=> Ends(v, c, n)
    <3> SUFFICES ASSUME NEW v PROVE IsUpTo(v) <=> Ends(v, c, n)
      OBVIOUS
    <3>1. \A k \in 0 .. n : (IF k = 0 THEN 0 ELSE v[k - 1] + exemplaires(U[k].count))
                            = (IF k = 0 THEN 0 ELSE v[k - 1] + c[k])
      BY <1>1
    <3>2. [k \in 0 .. n |-> IF k = 0 THEN 0 ELSE v[k - 1] + exemplaires(U[k].count)]
            = [k \in 0 .. n |-> IF k = 0 THEN 0 ELSE v[k - 1] + c[k]]
      BY <3>1
    <3> HIDE DEF c
    <3> QED
      BY <3>2 DEF Ends
  <2> HIDE DEF IsUpTo, c, n
  <2>2. \E v : IsUpTo(v)
    <3>1. n \in Nat
      BY <1>1
    <3> QED
      BY <2>1, <3>1, EndsExist
  <2>3. IsUpTo(u)
    BY <2>2
  <2> HIDE DEF u
  <2> QED
    BY <2>1, <2>3
<1>3. Repartition = [k \in DOMAIN U |->
                      [copies |-> exemplaires(U[k].count),
                       cost |-> Total(SubSeq(SplitCost(ShownPaid, Weights(U)),
                                             u[k - 1] + 1, u[k]))]]
  BY ActiveAreUsable DEF Repartition
<1> HIDE DEF u
<1>4. /\ Ordered(u, c, n)
      /\ DOMAIN LotArticles = 1 .. u[n] /\ Len(LotArticles) = u[n]
      /\ \A k \in 1 .. n : \A q \in 1 .. c[k] :
           LotArticles[u[k - 1] + q] = [index |-> k, label |-> cellNumber(U[k].price)]
      /\ Weights(U) = [p \in DOMAIN LotArticles |-> LotArticles[p].label]
  <2> DEFINE n1 == Len(UsableLines)
             c1 == [k \in 1 .. n1 |-> Copies(UsableLines[k])]
  <2>1. n1 = n /\ c1 = c
    OBVIOUS
  <2> HIDE DEF n, c
  <2>2. n = Len(UsableLines) /\ c = [k \in 1 .. n |-> Copies(UsableLines[k])]
    BY <2>1
  <2> QED
    BY <1>2, <2>2, LotLays
<1>5. ShownPaid = SentPaid
  <2>1. SentPaid >= 0 /\ paid \in Int \cup {Null, Junk}
    BY Constants DEF Acceptable, TableTyped
  <2> QED
    BY <2>1, Constants DEF ShownPaid, SentPaid, Reads
<1>6. SplitCost(ShownPaid, Weights(U)) = LotParts
  BY <1>4, <1>5 DEF LotParts
<1> HIDE DEF U, n, c
<1>7. u[n] \in Nat \ {0} /\ LotArticles # <<>>
  <2>1. n \in 1 .. n /\ n - 1 \in 0 .. n
    BY <1>1
  <2>2. u[n] = u[n - 1] + c[n] /\ u[n - 1] \in Nat /\ c[n] \in Nat \ {0}
    BY <1>1, <1>4, <2>1 DEF Ordered
  <2>3. u[n] \in Nat \ {0}
    BY <2>2
  <2>4. Len(LotArticles) # 0
    BY <1>4, <2>3
  <2>5. Len(<<>>) = 0
    OBVIOUS
  <2> QED
    BY <2>3, <2>4, <2>5
<1>8. LotParts \in [1 .. u[n] -> Nat] /\ Total(LotParts) = SentPaid
  BY <1>4, <1>7, LotTyped
<1>9. ASSUME NEW k \in 1 .. n
      PROVE  LET mine == {p \in DOMAIN LotArticles : LotArticles[p].index = k} IN
             Repartition[k] = [copies |-> Cardinality(mine),
                               cost |-> Sum(mine, LAMBDA p : LotParts[p])]
  <2> DEFINE mine == {p \in DOMAIN LotArticles : LotArticles[p].index = k}
             from == u[k - 1]
             to == u[k]
             len == c[k]
             h == SubSeq(LotParts, from + 1, to)
             f == [q \in 1 .. len |-> from + q]
  <2>1. from \in Nat /\ to \in Nat /\ to = from + len /\ len \in Nat /\ to <= u[n] /\ u[n] \in Nat
    <3>1. k \in 0 .. n /\ n \in 0 .. n /\ k <= n
      BY <1>1
    <3> QED
      BY <1>1, <1>4, <3>1 DEF Ordered
  <2>2. mine = Block(u, k)
    <3>1. \A p \in 1 .. u[n] : LotArticles[p].index = k <=> p \in Block(u, k)
      <4> SUFFICES ASSUME NEW p \in 1 .. u[n]
                   PROVE  LotArticles[p].index = k <=> p \in Block(u, k)
        OBVIOUS
      <4>0. n \in Nat
        BY <1>1
      <4>1. PICK l \in 1 .. n : p \in Block(u, l)
        BY <1>4, <4>0, BlockOf
      <4>2. PICK q \in 1 .. c[l] : u[l - 1] + q = p
        BY <1>1, <1>4, <4>0, <4>1, RankInBlock
      <4>3. LotArticles[p] = [index |-> l, label |-> cellNumber(U[l].price)]
        BY <1>4, <4>2
      <4>4. LotArticles[p].index = l
        BY <4>3
      <4>5. p \in Block(u, k) => k = l
        BY <1>4, <4>0, <4>1, BlocksApart
      <4> QED
        BY <4>1, <4>4, <4>5
    <3>2. Block(u, k) \subseteq 1 .. u[n]
      BY <2>1 DEF Block
    <3> QED
      BY <1>4, <3>1, <3>2
  <2>3. Block(u, k) = from + 1 .. to
    BY DEF Block
  <2> HIDE DEF from, to, len, mine
  <2>4. Cardinality(mine) = len
    <3>1. from + 1 \in Int /\ to \in Int
      BY <2>1
    <3>2. Cardinality(from + 1 .. to) = IF from + 1 > to THEN 0 ELSE to - (from + 1) + 1
      BY <3>1, FS_Interval
    <3> QED
      BY <2>1, <2>2, <2>3, <3>2
  <2>5. mine = {f[q] : q \in 1 .. len}
    <3>1. \A p \in mine : \E q \in 1 .. len : p = f[q]
      <4> SUFFICES ASSUME NEW p \in mine PROVE \E q \in 1 .. len : p = f[q]
        OBVIOUS
      <4>1. p - from \in 1 .. len /\ p = from + (p - from)
        BY <2>1, <2>2, <2>3
      <4> QED
        BY <4>1
    <3>2. \A q \in 1 .. len : f[q] \in mine
      BY <2>1, <2>2, <2>3
    <3> HIDE DEF f
    <3> QED
      BY <3>1, <3>2
  <2>6. h = [q \in 1 .. len |-> h[q]] /\ \A q \in 1 .. len : h[q] = LotParts[from + q]
    <3>0. LotParts \in Seq(Nat) /\ Len(LotParts) = u[n]
      BY <1>7, <1>8
    <3>1. \A s \in Seq(Nat) : \A i, j \in Nat : i <= j /\ j <= Len(s) =>
            /\ SubSeq(s, i + 1, j) = [q \in 1 .. j - i |-> SubSeq(s, i + 1, j)[q]]
            /\ \A q \in 1 .. j - i : SubSeq(s, i + 1, j)[q] = s[i + q]
      OBVIOUS
    <3>2. from <= to /\ to <= Len(LotParts) /\ to - from = len
      BY <2>1, <3>0
    <3>3. /\ h = [q \in 1 .. to - from |-> h[q]]
          /\ \A q \in 1 .. to - from : h[q] = LotParts[from + q]
      BY <2>1, <3>0, <3>1, <3>2
    <3> QED
      BY <3>2, <3>3
  <2>7. Renames(f, LotParts, h, 1 .. len)
    <3>1. \A i, j \in 1 .. len : f[i] = f[j] => i = j
      BY <2>1
    <3>2. \A i \in 1 .. len : LotParts[f[i]] = h[i]
      BY <2>6
    <3>3. \A i \in 1 .. len : f[i] \in 1 .. u[n]
      BY <2>1
    <3> HIDE DEF f, h
    <3>4. \A i \in 1 .. len : h[i] \in Int
      BY <1>8, <3>2, <3>3
    <3> QED
      BY <3>1, <3>2, <3>4 DEF Renames
  <2> HIDE DEF f, h
  <2>8. Over(h, 1 .. len) = Over(LotParts, mine)
    <3>1. IsFiniteSet(1 .. len)
      BY <2>1, UpTo
    <3>2. Over(h, 1 .. len) = Over(LotParts, {f[q] : q \in 1 .. len})
      BY <2>7, <3>1, SumRenames
    <3> QED
      BY <2>5, <3>2
  <2>9. Total(h) = Over(h, 1 .. len)
    BY <2>6, TotalOver
  <2>10. Sum(mine, LAMBDA p : LotParts[p]) = Over(LotParts, mine)
    BY DEF Sum, Over
  <2>11. Repartition[k] = [copies |-> len, cost |-> Total(h)]
    BY <1>1, <1>3, <1>6 DEF h, from, to, len
  <2>12. Repartition[k] = [copies |-> Cardinality(mine),
                           cost |-> Sum(mine, LAMBDA p : LotParts[p])]
    BY <2>4, <2>8, <2>9, <2>10, <2>11
  <2> QED
    BY <2>12 DEF mine
<1> QED
  BY <1>1, <1>8, <1>9 DEF U

\* « Les deux doivent rendre les mêmes centimes, sinon l'aperçu ment »: whatever the table
\* and the price of the lot, the costs the page shows are those the API writes, and the lot
\* costs what was paid for it.
THEOREM PreviewIsTrue == Spec => []PreviewTellsTheCost
<1>1. TradeTyped => PreviewTellsTheCost
  BY PreviewHolds DEF TradeTyped
<1> QED
  BY <1>1, TradeHolds, PTL
=============================================================================
