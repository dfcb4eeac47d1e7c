-------------------------- MODULE PriceScore_proofs --------------------------
(***************************************************************************)
(* The rule's arithmetic for all prices, thresholds and word sizes that    *)
(* PriceAssumption allows: no product overflows, and Go's corrected        *)
(* truncation is Java's floor.                                             *)
(***************************************************************************)
EXTENDS PriceScore, TLAPS

-----------------------------------------------------------------------------
(* Arithmetic                                                              *)

LEMMA FloorBounds ==
  ASSUME NEW n \in Int, NEW d \in Int, 0 < d
  PROVE  /\ n \div d \in Int
         /\ (n \div d) * d <= n
         /\ n < (n \div d + 1) * d
  OBVIOUS

LEMMA FloorUnique ==
  ASSUME NEW n \in Int, NEW d \in Int, 0 < d, NEW q \in Int, NEW r \in Int,
         q * d <= n, n < (q + 1) * d, r * d <= n, n < (r + 1) * d
  PROVE  q = r
  OBVIOUS

LEMMA ProductMonotone ==
  ASSUME NEW x \in Int, NEW y \in Int, NEW z \in Int, x <= y, 0 <= z
  PROVE  x * z <= y * z
  OBVIOUS

\* A value the word can hold is not changed by holding it.
LEMMA WrapExact ==
  ASSUME NEW x \in Int, -MaxLong <= x, x <= MaxLong
  PROVE  Wrap(x) = x
<1> DEFINE y == x + MaxLong + 1
           m == 2 * (MaxLong + 1)
<1>1. y \in Int /\ m \in Nat \ {0} /\ 0 <= y /\ y < m
  BY PriceAssumption
<1> HIDE DEF y, m
<1>2. y % m = y
  BY <1>1
<1> QED BY <1>2, PriceAssumption DEF Wrap, y, m

-----------------------------------------------------------------------------
(* Overflow                                                                *)

LEMMA NumeratorExact ==
  ASSUME NEW purchase \in Int, NEW retail \in Int, NEW threshold \in Int,
         Accepted(purchase, retail, threshold)
  PROVE  /\ numerator(purchase, retail) = (retail - purchase) * BasisPoints
         /\ Wrap(purchase * threshold) = purchase * threshold
<1> USE PriceAssumption DEF Accepted
<1>1. MaxPrice \in Int /\ BasisPoints \in Int /\ MaxThreshold \in Int /\ MaxLong \in Int
  OBVIOUS
<1>2. (retail - purchase) * BasisPoints <= MaxPrice * BasisPoints
  BY <1>1, ProductMonotone
<1>3. (-MaxPrice) * BasisPoints <= (retail - purchase) * BasisPoints
  BY <1>1, ProductMonotone
<1>4. /\ (retail - purchase) * BasisPoints \in Int
      /\ (-MaxPrice) * BasisPoints = -(MaxPrice * BasisPoints)
      /\ MaxPrice * BasisPoints \in Int
  BY <1>1
<1>5. numerator(purchase, retail) = (retail - purchase) * BasisPoints
  BY <1>1, <1>2, <1>3, <1>4, WrapExact DEF numerator
<1>6. purchase * threshold <= MaxPrice * threshold
  BY <1>1, ProductMonotone
<1>7. threshold * MaxPrice <= MaxThreshold * MaxPrice
  BY <1>1, ProductMonotone
<1>8. 0 * threshold <= purchase * threshold
  BY <1>1, ProductMonotone
<1>9. /\ purchase * threshold \in Int
      /\ 0 <= purchase * threshold
      /\ purchase * threshold <= MaxThreshold * MaxPrice
      /\ MaxThreshold * MaxPrice = MaxPrice * MaxThreshold
  BY <1>1, <1>6, <1>7, <1>8
<1>10. Wrap(purchase * threshold) = purchase * threshold
  BY <1>1, <1>9, WrapExact
<1> QED BY <1>5, <1>10

-----------------------------------------------------------------------------
(* The two divisions                                                       *)

\* The quotient truncated towards zero, less one where it was rounded up, is the
\* floor.
LEMMA CorrectedIsFloor ==
  ASSUME NEW n \in Int, NEW d \in Int, 0 < d
  PROVE  n \div d = IF n < 0 /\ Remainder(n, d) # 0
                    THEN Quotient(n, d) - 1 ELSE Quotient(n, d)
<1>1. CASE n >= 0
  BY <1>1 DEF Quotient
<1>2. CASE n < 0
  <2> DEFINE q == (-n) \div d
  <2>1. q \in Int /\ q * d <= -n /\ -n < (q + 1) * d
    BY <1>2, FloorBounds
  <2>2. Quotient(n, d) = -q /\ Remainder(n, d) = n - d * (-q)
    BY <1>2 DEF Quotient, Remainder
  <2> HIDE DEF q
  <2>3. CASE n = (-q) * d
    <3>1. -q \in Int /\ (-q) * d <= n /\ n < (-q + 1) * d
      BY <2>1, <2>3
    <3>2. n \div d = -q
      BY <3>1, FloorBounds, FloorUnique
    <3>3. Remainder(n, d) = 0
      BY <2>1, <2>2, <2>3
    <3> QED BY <2>2, <3>2, <3>3
  <2>4. CASE n # (-q) * d
    <3>1. /\ -q - 1 \in Int
          /\ (-q - 1) * d <= n
          /\ n < ((-q - 1) + 1) * d
      BY <2>1, <2>4
    <3>2. n \div d = -q - 1
      BY <3>1, FloorBounds, FloorUnique
    <3>3. Remainder(n, d) # 0
      BY <2>1, <2>2, <2>4
    <3> QED BY <1>2, <2>2, <3>2, <3>3
  <2> QED BY <2>3, <2>4
<1> QED BY <1>1, <1>2

\* The chaincode's score and the worker's are the same record, for every input
\* that both accept (priceScore in analysis.go, score in Analysis.java).
THEOREM ScoresAgree ==
  ASSUME NEW purchase \in Int, NEW retail \in Int, NEW threshold \in Int,
         Accepted(purchase, retail, threshold)
  PROVE  priceScore(purchase, retail, threshold) = score(purchase, retail, threshold)
<1>1. numerator(purchase, retail) \in Int /\ 0 < purchase
  BY NumeratorExact, PriceAssumption DEF Accepted
<1>2. increase(purchase, retail) = floorDiv(purchase, retail)
  BY <1>1, CorrectedIsFloor DEF increase, floorDiv
<1> QED BY <1>2 DEF priceScore, score

\* A score's basis points are an integer, whichever side computes them.
LEMMA ScoreTyped ==
  ASSUME NEW purchase \in Int, NEW retail \in Int, NEW threshold \in Int,
         Accepted(purchase, retail, threshold)
  PROVE  priceScore(purchase, retail, threshold) \in
           [increaseBps : Int, classification : {"REVIEW_REQUIRED", "NO_SIGNAL"}]
<1>1. numerator(purchase, retail) \in Int /\ 0 < purchase
  BY NumeratorExact, PriceAssumption DEF Accepted
<1>2. floorDiv(purchase, retail) \in Int
  BY <1>1, FloorBounds DEF floorDiv
<1> QED BY <1>2, ScoresAgree DEF score, Score
=============================================================================
