------------------------------ MODULE Lifecycle ------------------------------
(***************************************************************************)
(* What the chaincode promises about one batch, without documents, receipts*)
(* or indexes: it moves through six states in one order, custody passes    *)
(* only when the next organisation accepts it, ownership only at the       *)
(* delivery, no delivery is accepted before its freight cost is on record, *)
(* and the one price evaluation of a reported batch is reviewed once.      *)
(* Chaincode is shown to implement this specification.                     *)
(***************************************************************************)
CONSTANT Batches

VARIABLES
  stage,    \* the batch's state, or "ABSENT"
  custodian, owner,
  freight,  \* is a freight cost on record?
  review    \* the state of the review, or "NONE" before the evaluation

vars == <<stage, custodian, owner, freight, review>>

Handoffs ==
  {[from |-> "CREATED", offered |-> "PICKUP_PENDING", to |-> "IN_TRANSPORT",
    recipient |-> "LogisticsMSP", owner |-> "ProducerMSP", costed |-> {TRUE, FALSE}],
   [from |-> "IN_TRANSPORT", offered |-> "DELIVERY_PENDING", to |-> "RECEIVED",
    recipient |-> "RetailerMSP", owner |-> "RetailerMSP", costed |-> {TRUE}]}

Init ==
  /\ stage     = [b \in Batches |-> "ABSENT"]
  /\ custodian = [b \in Batches |-> "NOBODY"]
  /\ owner     = [b \in Batches |-> "NOBODY"]
  /\ freight   = [b \in Batches |-> FALSE]
  /\ review    = [b \in Batches |-> "NONE"]

Create(b) ==
  /\ stage[b] = "ABSENT"
  /\ stage'     = [stage EXCEPT ![b] = "CREATED"]
  /\ custodian' = [custodian EXCEPT ![b] = "ProducerMSP"]
  /\ owner'     = [owner EXCEPT ![b] = "ProducerMSP"]
  /\ UNCHANGED <<freight, review>>

Offer(b) ==
  \E h \in Handoffs :
    /\ stage[b] = h.from
    /\ stage' = [stage EXCEPT ![b] = h.offered]
    /\ UNCHANGED <<custodian, owner, freight, review>>

Accept(b) ==
  \E h \in Handoffs :
    /\ stage[b] = h.offered
    /\ freight[b] \in h.costed
    /\ stage'     = [stage EXCEPT ![b] = h.to]
    /\ custodian' = [custodian EXCEPT ![b] = h.recipient]
    /\ owner'     = [owner EXCEPT ![b] = h.owner]
    /\ UNCHANGED <<freight, review>>

RecordFreight(b) ==
  /\ stage[b] \in {"IN_TRANSPORT", "DELIVERY_PENDING"}
  /\ ~freight[b]
  /\ freight' = [freight EXCEPT ![b] = TRUE]
  /\ UNCHANGED <<stage, custodian, owner, review>>

Report(b) ==
  /\ stage[b] = "RECEIVED"
  /\ stage' = [stage EXCEPT ![b] = "RETAIL_REPORTED"]
  /\ UNCHANGED <<custodian, owner, freight, review>>

Evaluate(b) ==
  /\ stage[b] = "RETAIL_REPORTED"
  /\ review[b] = "NONE"
  /\ \E r \in {"NOT_REQUIRED", "OPEN"} : review' = [review EXCEPT ![b] = r]
  /\ UNCHANGED <<stage, custodian, owner, freight>>

OpenReview(b) ==
  /\ review[b] = "OPEN"
  /\ review' = [review EXCEPT ![b] = "IN_REVIEW"]
  /\ UNCHANGED <<stage, custodian, owner, freight>>

ResolveReview(b) ==
  /\ review[b] = "IN_REVIEW"
  /\ review' = [review EXCEPT ![b] = "RESOLVED"]
  /\ UNCHANGED <<stage, custodian, owner, freight>>

Next ==
  \E b \in Batches :
    \/ Create(b) \/ Offer(b) \/ Accept(b) \/ RecordFreight(b)
    \/ Report(b) \/ Evaluate(b) \/ OpenReview(b) \/ ResolveReview(b)

Spec == Init /\ [][Next]_vars
=============================================================================
