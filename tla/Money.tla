------------------------------- MODULE Money -------------------------------
(***************************************************************************)
(* The sums of the application, in cents: the split of one price between   *)
(* several articles, which the API does when a lot is bought and the web   *)
(* application both there and when a total is negotiated at the counter.   *)
(*                                                                         *)
(* The code divides floating-point numbers and rounds; here the quotients  *)
(* are exact.                                                              *)
(***************************************************************************)
EXTENDS Integers, SequencesExt

CONSTANT Null   \* no value: a price nobody has set, a field left empty

\* Math.round of n / d: to the nearest, a half up.
Round(n, d) == (2 * n + d) \div (2 * d)

AtLeastZero(n) == IF n < 0 THEN 0 ELSE n

Total(s) == SumFunction(s)

\* The elements of a sequence that are in S, in their order: filter.
Among(s, S) == FoldLeft(LAMBDA kept, e : IF e \in S THEN Append(kept, e) ELSE kept, <<>>, s)
-----------------------------------------------------------------------------
\* A weight that is not known takes the average of those that are; all of them are
\* multiplied by the number of known ones, so as to stay integers.
Useful(weights) ==
  LET known == {i \in DOMAIN weights : weights[i] # Null}
      sum == Total([i \in known |-> AtLeastZero(weights[i])])
  IN  [i \in DOMAIN weights |->
         IF i \in known THEN Cardinality(known) * AtLeastZero(weights[i]) ELSE sum]

\* Nothing to tell them apart: equal parts.
Final(weights) ==
  LET useful == Useful(weights) IN
  IF Total(useful) > 0 THEN useful ELSE [i \in DOMAIN weights |-> 1]

\* Mutant: each part is rounded by itself.
RoundEach(total, weights) ==
  LET final == Final(weights) IN
  [i \in DOMAIN weights |-> Round(total * final[i], Total(final))]

\* Each takes its share rounded down, and the cents that are left go one by one to the
\* largest remainders, the first come when they are equal.
SplitCost(total, weights) ==
  LET final == Final(weights)
      sum == Total(final)
      floor == [i \in DOMAIN weights |-> (total * final[i]) \div sum]
      rest == [i \in DOMAIN weights |-> (total * final[i]) % sum]
      left == total - Total(floor)
      Before(i) == {j \in DOMAIN weights : \/ rest[j] > rest[i]
                                           \/ rest[j] = rest[i] /\ j < i}
  IN  [i \in DOMAIN weights |->
         floor[i] + IF Cardinality(Before(i)) < left THEN 1 ELSE 0]
=============================================================================
