--------------------------- MODULE ScoreAgreement ---------------------------
(***************************************************************************)
(* An evaluation crosses two languages: the worker computes a score in     *)
(* Java and proposes it, the chaincode computes it again in Go and rejects *)
(* the proposal unless the two are equal in every field.  A rejected       *)
(* evaluation is never retried, so the two must agree on every input.      *)
(***************************************************************************)
EXTENDS PriceScore

VARIABLES
  input,     \* the purchase price, the retail price and the threshold
  proposed,  \* the worker's proposal, or why there is none
  attested   \* what the chaincode answered

vars == <<input, proposed, attested>>

\* Every input the two could be given, and the nearest they must refuse.
Input ==
  [purchase : -1..MaxPrice + 1, retail : -1..MaxPrice + 1,
   threshold : -1..MaxThreshold + 1]

Nothing == [increaseBps |-> 0, classification |-> "PENDING"]
Refused == [increaseBps |-> 0, classification |-> "REFUSED"]

Init ==
  /\ input \in Input
  /\ proposed = Nothing
  /\ attested = Nothing

\* Analysis.proposal: the score of the queried records, or an error.
Propose ==
  /\ proposed = Nothing
  /\ proposed' = IF Accepted(input.purchase, input.retail, input.threshold)
                 THEN score(input.purchase, input.retail, input.threshold)
                 ELSE Refused
  /\ UNCHANGED <<input, attested>>

\* realEvidence.analysis: the proposal must equal the chaincode's own result.
Attest ==
  /\ proposed \notin {Nothing, Refused}
  /\ attested = Nothing
  /\ attested' =
       IF /\ Accepted(input.purchase, input.retail, input.threshold)
          /\ priceScore(input.purchase, input.retail, input.threshold) = proposed
       THEN proposed ELSE Refused
  /\ UNCHANGED <<input, proposed>>

Next == Propose \/ Attest

Spec == Init /\ [][Next]_vars

-----------------------------------------------------------------------------

\* The chaincode never rejects what the worker proposes for the same inputs
\* (Math.floorDiv against Go's truncating division, corrected when negative).
Agreement == attested # Refused

\* An attested score is the exact arithmetic of the rule: the basis points are
\* the floor of the ratio, the classification compares the ratio itself with the
\* threshold, and neither product has overflowed.
ExactVerdict ==
  attested \notin {Nothing, Refused} =>
    LET up == (input.retail - input.purchase) * BasisPoints
    IN  /\ attested.increaseBps * input.purchase <= up
        /\ up < (attested.increaseBps + 1) * input.purchase
        /\ (attested.classification = "REVIEW_REQUIRED")
             <=> (up > input.purchase * input.threshold)
=============================================================================
