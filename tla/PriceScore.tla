----------------------------- MODULE PriceScore -----------------------------
(***************************************************************************)
(* The price-increase-v1 rule, twice: as the chaincode re-derives it       *)
(* (analysis.go, priceScore) and as the analysis worker proposes it        *)
(* (Analysis.java, score).  An evaluation commits only when the two agree  *)
(* on every field, so the two are kept apart here, each with the division  *)
(* of its own language.                                                    *)
(***************************************************************************)
EXTENDS Integers

CONSTANTS
  MaxPrice,      \* largest unit price either side accepts (10^9 in the code)
  MaxThreshold,  \* largest threshold, in basis points (10^5 in the code)
  BasisPoints,   \* basis points in the whole (10^4 in the code)
  MaxLong        \* largest value of int64 and of Java's long

ASSUME PriceAssumption ==
  /\ MaxPrice \in Nat \ {0}
  /\ MaxThreshold \in Nat
  /\ BasisPoints \in Nat \ {0}
  /\ MaxLong \in Nat
  /\ MaxPrice * BasisPoints <= MaxLong
  /\ MaxPrice * MaxThreshold <= MaxLong

\* Two's-complement arithmetic of a 64-bit word, at the width MaxLong gives.
Wrap(x) == ((x + MaxLong + 1) % (2 * (MaxLong + 1))) - (MaxLong + 1)

\* Both sides refuse the same inputs.
Accepted(purchase, retail, threshold) ==
  /\ 0 < purchase /\ purchase <= MaxPrice
  /\ 0 <= retail /\ retail <= MaxPrice
  /\ 0 <= threshold /\ threshold <= MaxThreshold

numerator(purchase, retail) == Wrap((retail - purchase) * BasisPoints)

\* Go's integer division truncates towards zero; % takes the dividend's sign.
Quotient(n, d) == IF n >= 0 THEN n \div d ELSE -((-n) \div d)
Remainder(n, d) == n - d * Quotient(n, d)

IncreaseTruncated(purchase, retail) ==
  Quotient(numerator(purchase, retail), purchase)

increase(purchase, retail) ==
  LET n == numerator(purchase, retail)
  IN  IF n < 0 /\ Remainder(n, purchase) # 0
      THEN Quotient(n, purchase) - 1
      ELSE Quotient(n, purchase)

\* Java's Math.floorDiv, which is what \div is for a positive divisor.
floorDiv(purchase, retail) == numerator(purchase, retail) \div purchase

\* The exact ratio decides, never the rounded basis points: equality with the
\* threshold is no signal.
SignalRounded(purchase, retail, threshold) ==
  increase(purchase, retail) > threshold

Signal(purchase, retail, threshold) ==
  numerator(purchase, retail) > Wrap(purchase * threshold)

Score(bps, signal) ==
  [increaseBps    |-> bps,
   classification |-> IF signal THEN "REVIEW_REQUIRED" ELSE "NO_SIGNAL"]

priceScore(purchase, retail, threshold) ==
  Score(increase(purchase, retail), Signal(purchase, retail, threshold))

\* What Analysis.java sends as proposedResult for the same three numbers.
score(purchase, retail, threshold) ==
  Score(floorDiv(purchase, retail), Signal(purchase, retail, threshold))
=============================================================================
