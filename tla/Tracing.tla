------------------------------ MODULE Tracing ------------------------------
(***************************************************************************)
(* The way of a batch from the ledger to the public page and back: every   *)
(* accepted proposal publishes its event, the projection puts the lot of   *)
(* a retail report on a page, and there the analysis worker finds it and   *)
(* has the price evaluated on the ledger.  The contract is the module      *)
(* Chaincode, the projection the module Projection; the worker is here.    *)
(* Its queries go to the retailer's peer, which may be behind the ledger,  *)
(* and another oracle may evaluate the batch first.                        *)
(***************************************************************************)
EXTENDS Chaincode

CONSTANTS
  Lag,      \* bound: how many versions of a batch the peer may be behind
  Digest    \* the identifier the worker derives from a batch and its version,
            \* for the pairs that a run can meet

VARIABLES
  chain, stored, page, stream,   \* as in Projection
  task,      \* the evaluation the worker has staged in the journal, or None
  failed     \* operations of the worker that the journal has as FAILED

ledger     == <<world, events>>
projection == <<chain, stored, page, stream>>
worker     == <<task, failed>>

allVars == <<ledger, projection, worker>>

\* Which event may come after which: the transitions of domain.go, with the
\* freight cost recorded before or after the delivery is offered.
Follows ==
  {<<None, "BatchCreated">>, <<"BatchCreated", "PickupOffered">>,
   <<"PickupOffered", "PickupAccepted">>,
   <<"PickupAccepted", "FreightCostRecorded">>,
   <<"PickupAccepted", "DeliveryOffered">>,
   <<"FreightCostRecorded", "DeliveryOffered">>,
   <<"DeliveryOffered", "FreightCostRecorded">>,
   <<"FreightCostRecorded", "DeliveryAccepted">>,
   <<"DeliveryOffered", "DeliveryAccepted">>,
   <<"DeliveryAccepted", "RetailPriceReported">>,
   <<"RetailPriceReported", "PriceEvaluated">>,
   <<"PriceEvaluated", "ReviewUpdated">>, <<"ReviewUpdated", "ReviewUpdated">>}

P == INSTANCE Projection WITH
       Batch <- BatchId, Lot <- LotId, Lifetime <- MaxVersion

Task == [batch : BatchId, version : 1..MaxVersion, report : ReportId]

ASSUME TracingAssumption ==
  /\ Lag \in Nat
  /\ DOMAIN Digest \subseteq BatchId \X (1..MaxVersion)
  /\ \A k \in DOMAIN Digest : Digest[k] \in OpId \cap AnomalyId
  /\ \A j, k \in DOMAIN Digest : Digest[j] = Digest[k] => j = k
  /\ None \notin Task /\ None \notin P!Page
  /\ Proposal # {}

\* Nobody else comes by an identifier of the worker's, a digest; and the bound on
\* versions leaves room for an evaluation, which the eighth of a batch's life is.
ASSUME WorkerAssumption ==
  /\ \A c \in Proposal, k \in DOMAIN Digest :
       /\ c.actor = Regulator => c.op # Digest[k]
       /\ c.fn = "EvaluatePrice" => c.anomaly # Digest[k]
  /\ MaxVersion > 7

TracingInit ==
  /\ Init
  /\ P!Init
  /\ task   = None
  /\ failed = {}

-----------------------------------------------------------------------------
(* The ledger publishes                                                    *)

eventType ==
  [CreateBatch       |-> "BatchCreated",
   OfferPickup       |-> "PickupOffered",
   AcceptPickup      |-> "PickupAccepted",
   RecordFreightCost |-> "FreightCostRecorded",
   OfferDelivery     |-> "DeliveryOffered",
   AcceptDelivery    |-> "DeliveryAccepted",
   ReportRetailPrice |-> "RetailPriceReported",
   EvaluatePrice     |-> "PriceEvaluated",
   OpenReview        |-> "ReviewUpdated",
   ResolveReview     |-> "ReviewUpdated"]

NoLot(c) == None

\* The lot among an event's objectIds: only a report names one.
lotNamed(c) == IF c.fn = "ReportRetailPrice" THEN c.lot ELSE None

\* Blocks are of one transaction here; Projection has larger ones.
Emitted(c) ==
  IF c.fn = "Bootstrap" THEN <<>>
  ELSE <<[type |-> eventType[c.fn], batch |-> c.batch, lot |-> lotNamed(c),
          block |-> Len(chain) + 1]>>

Commit(c) ==
  /\ Invoke(c)
  /\ chain' = chain \o Emitted(c)
  /\ UNCHANGED <<stored, page, stream>>

Client ==
  /\ \E c \in Proposal : Commit(c)
  /\ UNCHANGED worker

-----------------------------------------------------------------------------
(* The worker: Analysis.reconcile, once per batch with a lot on its page    *)

\* Versions of b that the peer may answer from.
Answers(b) ==
  {v \in 1..version(world, b) : v + Lag >= version(world, b)}

PendingAt(b, v) ==
  \A n \in 1..v : world.history[<<b, n>>].fn # "EvaluatePrice"

OneOperation(b, v) == Digest[CHOOSE k \in DOMAIN Digest : k[1] = b]

operation(b, v) == Digest[<<b, v>>]

\* Three queries, each answered from a state of its own: the evaluation is pending,
\* the batch has version v, the report has an identifier.  The request is then
\* staged, unless the journal knows its operation as failed.
Pick(b) ==
  /\ task = None
  /\ page[b] # None /\ page[b].lot # None
  /\ \E v \in Answers(b) : PendingAt(b, v)
  /\ \E v \in Answers(b) :
       /\ <<b, v>> \in DOMAIN Digest
       /\ operation(b, v) \notin failed
       /\ task' = [batch |-> b, version |-> v,
                   report |-> world.batchEvidence[b].report]
  /\ UNCHANGED <<ledger, projection, failed>>

\* Analysis.proposal scores the openings that GetPurchase and GetRetailReport
\* answer under the policy of GetConfiguration.
proposal(b) ==
  LET refs == world.batchEvidence[b]
  IN  score(world.tradeOpening[refs.purchase].price,
            world.report[refs.report].price,
            world.configuration["v1"].threshold)

\* The fields that an evaluation does not carry hold any values of their types.
AnyCommand == CHOOSE c \in Proposal : TRUE

request(t) ==
  LET k == operation(t.batch, t.version)
  IN  [AnyCommand EXCEPT
         !.fn = "EvaluatePrice", !.actor = Regulator, !.role = "oracle", !.op = k,
         !.batch = t.batch, !.expected = t.version, !.report = t.report,
         !.anomaly = k, !.proposed = proposal(t.batch), !.docs = {}]

Evaluate ==
  /\ task # None
  /\ Commit(request(task))
  /\ task' = None
  /\ UNCHANGED failed

\* The engine refuses the proposal: the journal has it as FAILED for good.  The
\* endorsing peers are up to date here; Workflow has one that is not.
Refused ==
  /\ task # None
  /\ ~Accepts(world, request(task))
  /\ failed' = failed \cup {operation(task.batch, task.version)}
  /\ task' = None
  /\ UNCHANGED <<ledger, projection>>

Reconcile == (\E b \in BatchId : Pick(b)) \/ Evaluate \/ Refused

Project == P!Follow /\ UNCHANGED <<ledger, worker>>

TracingNext == Client \/ Project \/ Reconcile

\* The loops of Application.Workers; nothing is asked of clients, nor of the
\* peer that answers the worker's queries.  In blocks of one transaction a stream
\* passes at most one stored event before a new one, so that fairness need not
\* tell the events apart, as it does in Projection.  Only Evaluate and Refused
\* take a task away, and one of them always can.
TracingFairness ==
  /\ WF_allVars(P!Connect /\ UNCHANGED <<ledger, worker>>)
  /\ SF_allVars(P!Skip /\ UNCHANGED <<ledger, worker>>)
  /\ SF_allVars(P!Project /\ UNCHANGED <<ledger, worker>>)
  /\ WF_allVars(\E b \in BatchId : Pick(b))
  /\ WF_task(task # None /\ task' = None)

TracingSpec     == TracingInit /\ [][TracingNext]_allVars
FairTracingSpec == TracingSpec /\ TracingFairness

-----------------------------------------------------------------------------

\* The events of accepted proposals are what the projection relies on: one batch
\* follows the next in the order of its life, and no lot is named twice.
FeedsProjection == P!Spec

AcceptedTransfers(b) ==
  {t \in Transfers(b) : world.transfer[t].status = "ACCEPTED"}

\* Whoever looks up a lot is shown the batch that the ledger has for it
\* (Projection.lot); and once the projection has caught up with a batch, its page
\* has the lot, a handover for its creation and for each transfer accepted on
\* the ledger, and the sources of its evidence.
PagesAgree ==
  \A b \in BatchId :
    LET n    == Cardinality({i \in stored : chain[i].batch = b})
        r    == world.batch[b]
        refs == world.batchEvidence[b]
    IN  /\ page[b] # None /\ page[b].lot # None => world.lot[page[b].lot].batch = b
        /\ n = version(world, b) /\ n > 0 =>
             /\ page[b].lot = r.lot
             /\ Len(page[b].history) = 1 + Cardinality(AcceptedTransfers(b))
             /\ Len(page[b].sources) = Cardinality({refs.cks, refs.purchase} \ {None})

\* The worker and the engine agree: a request that is up to date and not too late
\* is accepted, whatever the prices are (Analysis.proposal, analysis.go).
FreshRequestsStand ==
  task # None =>
    \/ task.version # version(world, task.batch)
    \/ world.evaluation[task.batch] # None
    \/ Accepts(world, request(task))

\* Every retail report is evaluated in the end, whoever else tries, however often
\* the stream breaks and however the peer lags: a request that was staged under an
\* old version fails alone, as the next has an identifier of its own.
ReportsEvaluated ==
  \A b \in BatchId :
    (world.batch[b] # None /\ world.batch[b].lot # None) ~> (world.evaluation[b] # None)
=============================================================================
