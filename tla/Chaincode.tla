------------------------------ MODULE Chaincode ------------------------------
(***************************************************************************)
(* The contract as its clients are promised it: proposals are invoked one  *)
(* after another on the ledger, each is accepted or rejected as a whole,   *)
(* and an accepted one writes its plan and emits its event.  How Fabric    *)
(* arrives at this from concurrent endorsements is the module Fabric.      *)
(***************************************************************************)
EXTENDS Engine, Sequences

CONSTANT Proposal   \* the proposals clients may send

ASSUME ProposalAssumption == Proposal \subseteq Command

VARIABLES
  world,   \* the ledger's tables, public and private
  events   \* per batch, the chaincode events in commit order

vars == <<world, events>>

Init ==
  /\ world  = EmptyWorld
  /\ events = [b \in BatchId |-> <<>>]

\* A rejected proposal changes nothing, so only accepted ones are steps.
Invoke(c) ==
  /\ Accepts(world, c)
  /\ world'  = flush(world, Plan(world, c))
  /\ events' = [events EXCEPT ![c.batch] = @ \o Emits(world, c)]

ProposalOf == [fn \in DOMAIN authorize |-> {c \in Proposal : c.fn = fn}]

Bootstrap         == \E c \in ProposalOf["Bootstrap"]         : Invoke(c)
CreateBatch       == \E c \in ProposalOf["CreateBatch"]       : Invoke(c)
OfferPickup       == \E c \in ProposalOf["OfferPickup"]       : Invoke(c)
AcceptPickup      == \E c \in ProposalOf["AcceptPickup"]      : Invoke(c)
RecordFreightCost == \E c \in ProposalOf["RecordFreightCost"] : Invoke(c)
OfferDelivery     == \E c \in ProposalOf["OfferDelivery"]     : Invoke(c)
AcceptDelivery    == \E c \in ProposalOf["AcceptDelivery"]    : Invoke(c)
ReportRetailPrice == \E c \in ProposalOf["ReportRetailPrice"] : Invoke(c)
EvaluatePrice     == \E c \in ProposalOf["EvaluatePrice"]     : Invoke(c)
OpenReview        == \E c \in ProposalOf["OpenReview"]        : Invoke(c)
ResolveReview     == \E c \in ProposalOf["ResolveReview"]     : Invoke(c)

Next ==
  \/ Bootstrap \/ CreateBatch
  \/ OfferPickup \/ AcceptPickup
  \/ RecordFreightCost
  \/ OfferDelivery \/ AcceptDelivery
  \/ ReportRetailPrice \/ EvaluatePrice
  \/ OpenReview \/ ResolveReview

Spec == Init /\ [][Next]_vars

-----------------------------------------------------------------------------
(* Type invariant                                                          *)

EventRecord ==
  [fn : Mutation, op : OpId, batch : BatchId, actor : Member,
   version : 1..MaxVersion, from : Opt(State), to : State]

\* Every entry of every table has the shape its reader expects; in particular a
\* batch's version never passes the ceiling that engine.apply checks.
TypeOK ==
  /\ IsWorld(world)
  /\ events \in [BatchId -> Seq(EventRecord)]

-----------------------------------------------------------------------------
(* Safety                                                                  *)

Present(t) == {i \in Keys[t] : world[t][i] # None}

Transfers(b) == {t \in Present("transfer") : world.transfer[t].batch = b}

\* An offer is outstanding exactly while the batch waits for its acceptance, and
\* it is the one offer of that batch: made by the custodian, to the organisation
\* the state waits for, for the whole quantity (engine.apply, offers/accepts).
CustodyOffered ==
  \A b \in Present("batch") :
    LET r == world.batch[b]
        p == world.pendingTransfer[b]
    IN  /\ (p # None) <=> (\E k \in DOMAIN Handoff : r.state = Handoff[k].pending)
        /\ {t \in Transfers(b) : world.transfer[t].status = "OFFERED"} = {p} \ {None}
        /\ p # None => LET t == world.transfer[p]
                       IN  /\ t.batch = b
                           /\ t.from = r.custodian
                           /\ r.state = Handoff[t.kind].pending
                           /\ t.to = Handoff[t.kind].recipient
                           /\ t.quantity = r.quantity

\* Who holds a batch and who owns it is what its accepted transfers say: no
\* pickup accepted, the producer; the pickup, the carrier; the delivery too, the
\* retailer, who only then owns it.
CustodyFollowsTransfers ==
  \A b \in Present("batch") :
    LET r == world.batch[b]
        accepted == {world.transfer[t].kind : t \in {u \in Transfers(b) :
                                          world.transfer[u].status = "ACCEPTED"}}
    IN  /\ r.custodian = CASE accepted = {}         -> Producer
                           [] accepted = {"PICKUP"} -> Logistics
                           [] OTHER                 -> Retailer
        /\ r.owner = IF "DELIVERY" \in accepted THEN Retailer ELSE Producer
        /\ "DELIVERY" \in accepted => "PICKUP" \in accepted
        /\ Cardinality({t \in Transfers(b) : world.transfer[t].status = "ACCEPTED"})
             = Cardinality(accepted)

\* The documents a batch stands on, by type.
Backing(b) ==
  LET refs == world.batchEvidence[b]
  IN  {[type |-> "PRODUCER_ELIGIBILITY", doc |-> refs.cks],
       [type |-> "PURCHASE_INVOICE",     doc |-> refs.purchase],
       [type |-> "TRADE_NOTIFICATION",   doc |-> refs.hks],
       [type |-> "TRANSPORT_MANIFEST",   doc |-> refs.transport],
       [type |-> "FREIGHT_INVOICE",
        doc  |-> IF refs.freight = None THEN None
                 ELSE world.cost[refs.freight].doc]}

\* Every document on the ledger backs exactly the batch it was accepted for, in
\* the place its type gives it, and was consumed by an operation that has a
\* receipt; none backs two batches, and each used up a source and a nonce of its
\* own (realEvidence.prepare, consumeDocument).
EvidenceUsedOnce ==
  /\ \A d \in Present("document") :
       LET e == world.document[d]
       IN  /\ [type |-> e.type, doc |-> d] \in Backing(e.batch)
           /\ \E m \in Member : /\ world.operation[<<m, e.op>>] # None
                                /\ world.operation[<<m, e.op>>].batch = e.batch
                                /\ e.type \in required(world.operation[<<m, e.op>>].fn)
  /\ \A b \in Present("batch") :
       \A r \in Backing(b) :
         r.doc # None => /\ world.document[r.doc] # None
                         /\ world.document[r.doc].batch = b
                         /\ world.document[r.doc].type = r.type
  /\ Cardinality(Present("sourceUse")) = Cardinality(Present("document"))
  /\ Cardinality(Present("nonceUse")) = Cardinality(Present("document"))

\* The owner and state indexes that GetBatchesByOwner and GetBatchesByState page
\* through list every batch once, under its current owner and state.
IndexesAgree ==
  /\ Present("owner") = {<<world.batch[b].owner, b>> : b \in Present("batch")}
  /\ Present("state") = {<<world.batch[b].state, b>> : b \in Present("batch")}

\* Each accepted mutation left exactly one receipt, one history entry and one
\* event, and they form an unbroken chain up to the batch's version and state.
HistoryComplete ==
  \A b \in BatchId :
    LET v == version(world, b)
        E == events[b]
    IN  /\ Len(E) = v
        /\ \A n \in 1..MaxVersion : (world.history[<<b, n>>] # None) <=> (n <= v)
        /\ \A n \in 1..v :
             LET h == world.history[<<b, n>>]
             IN  /\ h.batch = b /\ h.version = n
                 /\ world.operation[<<h.actor, h.op>>] = h
                 /\ E[n].op = h.op /\ E[n].version = n
                 /\ E[n].from = IF n = 1 THEN None ELSE E[n - 1].to
        /\ v > 0 => E[v].to = world.batch[b].state
        /\ Cardinality({k \in Present("operation") : world.operation[k].batch = b}) = v

\* Lots and reported batches are in one-to-one correspondence, and a lot is for
\* the whole quantity of its batch.
LotsConserved ==
  /\ \A b \in Present("batch") :
       LET r == world.batch[b]
       IN  /\ (r.lot # None) <=> (r.state = "RETAIL_REPORTED")
           /\ r.lot # None =>
                world.lot[r.lot] = [batch |-> b, quantity |-> r.quantity,
                                    report |-> world.batchEvidence[b].report]
  /\ \A l \in Present("lot") : world.batch[world.lot[l].batch].lot = l

\* What a batch refers to exists and belongs to that batch, in the public
\* reference and in the private collection alike, and no private record is left
\* without its reference: private writes are made without looking whether the
\* key is taken, so this rests on the absence checks of the public references.
PrivateBacked ==
  /\ \A b \in Present("batch") :
       LET refs == world.batchEvidence[b]
           scored == world.evaluation[b]
       IN  /\ refs.freight # None => world.costReference[refs.freight] = b
           /\ refs.report # None => world.reportReference[refs.report] = b
           /\ scored # None => world.anomaly[scored.anomaly].batch = b
  /\ \A k \in CostId :
       IF world.costReference[k] = None THEN world.cost[k] = None
       ELSE world.cost[k] # None /\ world.cost[k].batch = world.costReference[k]
  /\ \A k \in ReportId :
       IF world.reportReference[k] = None THEN world.report[k] = None
       ELSE /\ world.report[k] # None
            /\ world.report[k].batch = world.reportReference[k]
  /\ \A k \in AnomalyId :
       IF world.anomalyReference[k] = None THEN world.anomaly[k] = None
       ELSE /\ world.anomaly[k] # None
            /\ world.anomaly[k].batch = world.anomalyReference[k].batch
            /\ world.evaluation[world.anomaly[k].batch].anomaly = k
  /\ \A d \in DocId :
       (world.tradeOpening[d] # None) <=>
          (world.document[d] # None /\ world.document[d].type = "PURCHASE_INVOICE")

\* A batch that the retailer has received has a freight cost, and all its
\* quantities agree, so that the report and the evaluation never lack an input.
ReceivedWithCost ==
  \A b \in Present("batch") :
    world.batch[b].state \in {"RECEIVED", "RETAIL_REPORTED"} =>
      LET refs == world.batchEvidence[b]
      IN  /\ refs.freight # None /\ world.cost[refs.freight] # None
          /\ refs.purchase # None /\ world.tradeOpening[refs.purchase] # None
          /\ world.cost[refs.freight].quantity = world.batch[b].quantity
          /\ world.tradeOpening[refs.purchase].quantity = world.batch[b].quantity

\* The review actions of an anomaly are the ones its review state tells of, in
\* the order of their receipts: at most one opening, then at most one resolution
\* (so GetReviewHistory's single page of ten never cuts an action off).
ReviewJustified ==
  \A a \in Present("anomaly") :
    LET of == {k \in Present("reviewAction") : k[1] = a}
        opened   == {k \in of : world.reviewAction[k].action = "OPEN_REVIEW"}
        resolved == of \ opened
        at(k)    == world.operation[<<Regulator, k[2]>>].version
        count    == <<Cardinality(opened), Cardinality(resolved)>>
    IN  /\ of = {k \in Present("reviewActionReference") : k[1] = a}
        /\ count = CASE world.anomaly[a].review = "RESOLVED"  -> <<1, 1>>
                     [] world.anomaly[a].review = "IN_REVIEW" -> <<1, 0>>
                     [] OTHER                                 -> <<0, 0>>
        /\ \A o \in opened, r \in resolved : at(o) < at(r)
        /\ (world.anomaly[a].review = "NOT_REQUIRED")
             <=> (world.anomaly[a].score.classification = "NO_SIGNAL")

\* An anomaly record states the rule's verdict on the prices of its own batch:
\* the floored basis points, and a signal exactly above the policy's threshold.
ScoreGrounded ==
  \A a \in Present("anomaly") :
    LET r    == world.anomaly[a]
        refs == world.batchEvidence[r.batch]
        up   == (r.retail - r.purchase) * BasisPoints
    IN  /\ r.report = refs.report
        /\ r.purchase = world.tradeOpening[refs.purchase].price
        /\ r.retail = world.report[refs.report].price
        /\ r.freight = world.cost[refs.freight].total
        /\ r.threshold = world.policy[r.policy]
        /\ r.policy = world.report[refs.report].policy
        /\ r.score.increaseBps * r.purchase <= up
        /\ up < (r.score.increaseBps + 1) * r.purchase
        /\ (r.score.classification = "REVIEW_REQUIRED")
             <=> (up > r.purchase * r.threshold)

-----------------------------------------------------------------------------
(* Action properties                                                       *)

WriteOnce == Table \ {"batch", "batchEvidence", "transfer", "pendingTransfer",
                      "owner", "state", "anomaly"}

\* Receipts, history, references, documents, uses and the private records behind
\* them are never overwritten or deleted; a transfer keeps its terms and, once
\* accepted, everything; an anomaly keeps its score.
RecordsPermanent ==
  [][/\ \A t \in WriteOnce : \A i \in Present(t) : world'[t][i] = world[t][i]
     /\ \A t \in Present("transfer") :
          LET old == world.transfer[t]
              new == world'.transfer[t]
          IN  new # old => /\ old.status = "OFFERED"
                           /\ new = [old EXCEPT !.status = "ACCEPTED",
                                                !.accept = new.accept]
     /\ \A a \in Present("anomaly") :
          world'.anomaly[a] = [world.anomaly[a] EXCEPT
                                 !.review = world'.anomaly[a].review]
    ]_vars

\* A step moves at most one batch, by one version, and leaves every record of
\* the other batches alone.
OneBatchAtATime ==
  [][\E b \in BatchId :
       /\ version(world', b) \in {version(world, b), version(world, b) + 1}
       /\ version(world', b) = version(world, b) =>
            world'.batch = world.batch /\ events' = events
       /\ \A o \in BatchId \ {b} :
            /\ world'.batch[o] = world.batch[o]
            /\ world'.batchEvidence[o] = world.batchEvidence[o]
            /\ world'.pendingTransfer[o] = world.pendingTransfer[o]
            /\ world'.evaluation[o] = world.evaluation[o]
            /\ events'[o] = events[o]
            /\ \A t \in Transfers(o) : world'.transfer[t] = world.transfer[t]
    ]_vars

-----------------------------------------------------------------------------
(* The chaincode implements the lifecycle                                  *)

field(b, f, absent) ==
  IF world.batch[b] = None THEN absent ELSE world.batch[b][f]

Life == INSTANCE Lifecycle WITH
       Batches   <- BatchId,
       stage     <- [b \in BatchId |-> field(b, "state", "ABSENT")],
       custodian <- [b \in BatchId |-> field(b, "custodian", "NOBODY")],
       owner     <- [b \in BatchId |-> field(b, "owner", "NOBODY")],
       freight   <- [b \in BatchId |->
                       IF world.batchEvidence[b] = None THEN FALSE
                       ELSE world.batchEvidence[b].freight # None],
       review    <- [b \in BatchId |->
                       IF world.evaluation[b] = None THEN "NONE"
                       ELSE world.anomaly[world.evaluation[b].anomaly].review]

\* Whatever the documents, identifiers and indexes do, each batch follows the
\* lifecycle of docs/STATE_MACHINE.md.
ImplementsLifecycle == Life!Spec
=============================================================================
