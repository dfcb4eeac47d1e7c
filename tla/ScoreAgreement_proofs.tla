------------------------ MODULE ScoreAgreement_proofs ------------------------
(***************************************************************************)
(* The chaincode attests whatever the worker proposes for the same inputs, *)
(* and it is right, for all inputs and word sizes of PriceAssumption.      *)
(***************************************************************************)
EXTENDS ScoreAgreement, PriceScore_proofs

-----------------------------------------------------------------------------

\* What has been proposed and attested is the score of the input, or nothing.
Answered ==
  /\ input \in Input
  /\ \/ proposed \in {Nothing, Refused}
     \/ /\ Accepted(input.purchase, input.retail, input.threshold)
        /\ proposed = score(input.purchase, input.retail, input.threshold)
  /\ \/ attested = Nothing
     \/ attested = proposed /\ proposed \notin {Nothing, Refused}

LEMMA AnsweredHolds == Spec => []Answered
<1>1. Init => Answered
  BY DEF Init, Answered
<1>2. Answered /\ [Next]_vars => Answered'
  <2> SUFFICES ASSUME Answered, [Next]_vars PROVE Answered'
    OBVIOUS
  <2>1. CASE Propose
    BY <2>1 DEF Answered, Propose
  <2>2. CASE Attest
    <3>1. /\ input.purchase \in Int /\ input.retail \in Int /\ input.threshold \in Int
      BY PriceAssumption DEF Answered, Input
    <3>2. /\ Accepted(input.purchase, input.retail, input.threshold)
          /\ proposed = score(input.purchase, input.retail, input.threshold)
      BY <2>2 DEF Answered, Attest
    <3>3. attested' = proposed
      BY <2>2, <3>1, <3>2, ScoresAgree DEF Attest
    <3> QED BY <2>2, <3>3 DEF Answered, Attest
  <2>3. CASE UNCHANGED vars
    BY <2>3 DEF Answered, vars
  <2> QED BY <2>1, <2>2, <2>3 DEF Next
<1> QED BY <1>1, <1>2, PTL DEF Spec

\* The chaincode never rejects the worker's proposal for the same inputs.
THEOREM AlwaysAgree == Spec => []Agreement
<1>1. Answered => Agreement
  BY DEF Answered, Agreement, Nothing, Refused
<1> QED BY <1>1, AnsweredHolds, PTL

\* An attested score is the exact arithmetic of the rule.
THEOREM VerdictExact == Spec => []ExactVerdict
<1>1. Answered => ExactVerdict
  <2> SUFFICES ASSUME Answered, attested \notin {Nothing, Refused}
               PROVE  LET up == (input.retail - input.purchase) * BasisPoints
                      IN  /\ attested.increaseBps * input.purchase <= up
                          /\ up < (attested.increaseBps + 1) * input.purchase
                          /\ (attested.classification = "REVIEW_REQUIRED")
                               <=> (up > input.purchase * input.threshold)
    BY DEF ExactVerdict
  <2> DEFINE p == input.purchase
             r == input.retail
             t == input.threshold
             up == (r - p) * BasisPoints
  <2>1. p \in Int /\ r \in Int /\ t \in Int /\ up \in Int
    BY PriceAssumption DEF Answered, Input
  <2>2. Accepted(p, r, t) /\ attested = score(p, r, t)
    BY DEF Answered
  <2>3. numerator(p, r) = up /\ Wrap(p * t) = p * t /\ 0 < p
    BY <2>1, <2>2, NumeratorExact DEF Accepted
  <2>4. /\ attested.increaseBps = up \div p
        /\ (attested.classification = "REVIEW_REQUIRED") <=> (up > p * t)
    BY <2>2, <2>3 DEF score, Score, Signal, floorDiv
  <2>5. (up \div p) * p <= up /\ up < (up \div p + 1) * p
    BY <2>1, <2>3, FloorBounds
  <2> QED BY <2>4, <2>5
<1> QED BY <1>1, AnsweredHolds, PTL
=============================================================================
