------------------------------- MODULE Engine -------------------------------
(***************************************************************************)
(* What one chaincode invocation does to a world state.  Nothing here is a *)
(* state machine: every operator is a function of a world state L and a    *)
(* proposal c, so that Chaincode can run proposals one after another and   *)
(* Fabric can run them against an old snapshot and commit them later.      *)
(*                                                                         *)
(* A world state is a record of tables; a table maps an identifier to a    *)
(* value or to None, and <<table, identifier>> is a composite key of the   *)
(* ledger.  A proposal c that the code accepts in L satisfies Accepts(L,c);*)
(* it reads the keys Reads(L, c) and writes the plan Plan(L, c).           *)
(***************************************************************************)
EXTENDS PriceScore, FiniteSets

CONSTANTS
  BatchId, OpId, TransferId, DocId, CostId, ReportId, LotId, AnomalyId,
  PolicyId,
  Issuer, KeyName, Nonce,   \* parts of a document header
  MaxVersion,               \* 2^31 - 1 in the code
  MaxQuantity,              \* 10^8 grams
  MaxTotal,                 \* 10^12 kurus
  None                      \* the absent value of a key or field

-----------------------------------------------------------------------------
(* Organisations, lifecycle states, document types.                        *)

Producer  == "ProducerMSP"
Logistics == "LogisticsMSP"
Retailer  == "RetailerMSP"
Regulator == "RegulatorMSP"
Member    == {Producer, Logistics, Retailer, Regulator}

State == {"CREATED", "PICKUP_PENDING", "IN_TRANSPORT", "DELIVERY_PENDING",
          "RECEIVED", "RETAIL_REPORTED"}

\* The one organisation and role that may submit each mutation.
authorize ==
  [Bootstrap         |-> <<Regulator, "admin">>,
   CreateBatch       |-> <<Producer,  "producer">>,
   OfferPickup       |-> <<Producer,  "producer">>,
   AcceptPickup      |-> <<Logistics, "carrier">>,
   RecordFreightCost |-> <<Logistics, "carrier">>,
   OfferDelivery     |-> <<Logistics, "carrier">>,
   AcceptDelivery    |-> <<Retailer,  "retailer">>,
   ReportRetailPrice |-> <<Retailer,  "retailer">>,
   EvaluatePrice     |-> <<Regulator, "oracle">>,
   OpenReview        |-> <<Regulator, "reviewer">>,
   ResolveReview     |-> <<Regulator, "reviewer">>]

Mutation == DOMAIN authorize \ {"Bootstrap"}

\* The roles of certificates that the contract tells apart; any other is refused
\* like a wrong one, and so is none.
Role == {"admin", "producer", "carrier", "retailer", "oracle", "reviewer",
         "auditor", "public-reader", ""}

\* The source system whose key must have signed each type of document.
SystemOf ==
  [PRODUCER_ELIGIBILITY |-> "CKS",
   PURCHASE_INVOICE     |-> "EFATURA",
   TRADE_NOTIFICATION   |-> "HKS",
   TRANSPORT_MANIFEST   |-> "UETDS",
   FREIGHT_INVOICE      |-> "EFATURA"]

DocType == DOMAIN SystemOf
System  == {"CKS", "EFATURA", "HKS", "UETDS"}

\* The evidence a mutation must carry: no less, and no more.
required(fn) ==
  CASE fn = "CreateBatch"       -> {"PRODUCER_ELIGIBILITY"}
    [] fn = "OfferPickup"       -> {"PURCHASE_INVOICE", "TRADE_NOTIFICATION",
                                    "TRANSPORT_MANIFEST"}
    [] fn = "RecordFreightCost" -> {"FREIGHT_INVOICE"}
    [] OTHER                    -> {}

-----------------------------------------------------------------------------
(* The tables of the ledger, public first, then the private collections.   *)

OpKey      == Member \X OpId
SourceKey  == Issuer \X KeyName
Opt(S)     == S \cup {None}

Quantity == 1..MaxQuantity
Total    == 0..MaxTotal

Purchase == [quantity : Quantity, price : 1..MaxPrice, total : 1..MaxTotal]

Batch ==
  [quantity : Quantity, owner : Member, custodian : Member, state : State,
   version : 1..MaxVersion, lot : Opt(LotId)]

EvidenceRefs ==
  [cks : Opt(DocId), purchase : Opt(DocId), hks : Opt(DocId),
   transport : Opt(DocId), freight : Opt(CostId), report : Opt(ReportId)]

Transfer ==
  [batch : BatchId, kind : {"PICKUP", "DELIVERY"},
   status : {"OFFERED", "ACCEPTED"}, from : Member, to : Member,
   quantity : Quantity, offer : OpId, accept : Opt(OpId)]

Receipt ==
  [op : OpId, batch : BatchId, fn : Mutation, actor : Member,
   version : 1..MaxVersion]

Use == [batch : BatchId, op : OpId]

Lot == [batch : BatchId, quantity : Quantity, report : ReportId]

Evaluation == [batch : BatchId, report : ReportId, anomaly : AnomalyId]

Cost == [batch : BatchId, quantity : Quantity, total : Total, doc : DocId]

Report ==
  [batch : BatchId, lot : LotId, quantity : Quantity, price : 0..MaxPrice,
   purchase : DocId, cost : CostId, policy : PolicyId]

ReviewState == {"NOT_REQUIRED", "OPEN", "IN_REVIEW", "RESOLVED"}

Anomaly ==
  [batch : BatchId, report : ReportId, policy : PolicyId,
   purchase : 1..MaxPrice, retail : 0..MaxPrice, freight : Total,
   threshold : 0..MaxThreshold,
   score : [increaseBps : Int,
            classification : {"REVIEW_REQUIRED", "NO_SIGNAL"}],
   review : ReviewState]

Outcome == {"EXPLAINED", "FOLLOW_UP_RECOMMENDED", "INSUFFICIENT_EVIDENCE"}

ReviewAction ==
  [action : {"OPEN_REVIEW", "RESOLVE_REVIEW"}, outcome : Opt(Outcome)]

Configuration ==
  [policy : PolicyId, threshold : 0..MaxThreshold,
   sources : [System -> SourceKey]]

\* A table is known by the kind of its composite keys: what identifies an entry
\* of it, and what an entry holds.  The last six tables are the private
\* collections, the others the public state that every peer stores.
Keys ==
  [configuration     |-> {"v1"},
   policy            |-> PolicyId,
   sourceKey         |-> SourceKey,
   batch             |-> BatchId,
   batchEvidence     |-> BatchId,
   transfer          |-> TransferId,
   pendingTransfer   |-> BatchId,
   operation         |-> OpKey,
   history           |-> BatchId \X (1..MaxVersion),
   owner             |-> Member \X BatchId,
   state             |-> State \X BatchId,
   documentReference |-> DocId,
   document          |-> DocId,
   sourceUse         |-> Issuer \X DocId,
   nonceUse          |-> Issuer \X Nonce,
   costReference     |-> CostId,
   reportReference   |-> ReportId,
   lot               |-> LotId,
   evaluation        |-> BatchId,
   anomalyReference  |-> AnomalyId,
   reviewActionReference |-> AnomalyId \X OpId,
   tradeOpening      |-> DocId,
   freightOpening    |-> DocId,
   cost              |-> CostId,
   report            |-> ReportId,
   anomaly           |-> AnomalyId,
   reviewAction      |-> AnomalyId \X OpId]

Values ==
  [configuration     |-> Configuration,
   policy            |-> 0..MaxThreshold,
   sourceKey         |-> System,
   batch             |-> Batch,
   batchEvidence     |-> EvidenceRefs,
   transfer          |-> Transfer,
   pendingTransfer   |-> TransferId,
   operation         |-> Receipt,
   history           |-> Receipt,
   owner             |-> BatchId,
   state             |-> BatchId,
   documentReference |-> Use,
   document          |-> [batch : BatchId, op : OpId, type : DocType],
   sourceUse         |-> Use,
   nonceUse          |-> Use,
   costReference     |-> BatchId,
   reportReference   |-> BatchId,
   lot               |-> Lot,
   evaluation        |-> Evaluation,
   anomalyReference  |-> Evaluation,
   reviewActionReference |-> OpId,
   tradeOpening      |-> Purchase,
   freightOpening    |-> [quantity : Quantity, total : Total],
   cost              |-> Cost,
   report            |-> Report,
   anomaly           |-> Anomaly,
   reviewAction      |-> ReviewAction]

Table == DOMAIN Keys

IsWorld(L) ==
  /\ DOMAIN L = Table
  /\ \A t \in Table : L[t] \in [Keys[t] -> Opt(Values[t])]

\* None is told apart from every identifier, organisation, state and record.
ASSUME EngineAssumption ==
  /\ MaxVersion \in Nat \ {0}
  /\ MaxQuantity \in Nat \ {0}
  /\ MaxTotal \in Nat \ {0}
  /\ \A t \in Table : None \notin Values[t]
  /\ None \notin Member \cup State \cup DocId \cup CostId \cup ReportId \cup LotId

EmptyWorld == [t \in Table |-> [i \in Keys[t] |-> None]]

\* One entry, and the union of two sets of entries (the left one wins).
Put(i, v) == [x \in {i} |-> v]

f ++ g ==
  [x \in DOMAIN f \cup DOMAIN g |-> IF x \in DOMAIN f THEN f[x] ELSE g[x]]

Overwrite(T, W) == [i \in DOMAIN T |-> IF i \in DOMAIN W THEN W[i] ELSE T[i]]

\* A write plan maps some tables to the entries it puts (or, as None, deletes);
\* nothing is written before the whole plan is known.
flush(L, plan) ==
  [t \in Table |-> IF t \in DOMAIN plan
                   THEN Overwrite(L[t], plan[t])
                   ELSE L[t]]

-----------------------------------------------------------------------------
(* What a client may propose.  One record type serves every command; a      *)
(* field that a command does not carry holds any value of its type.         *)

Document ==
  [id : DocId, type : DocType, issuer : Issuer, key : KeyName, src : DocId,
   nonce : Nonce, batch : BatchId, op : OpId, quantity : Int, price : Int,
   total : Int, sound : BOOLEAN]

\* A proposal lists its documents, so they are finitely many.
Bundles == {docs \in SUBSET Document : IsFiniteSet(docs)}

Command ==
  [fn : DOMAIN authorize, actor : Member, role : Role, op : OpId,
   batch : BatchId, expected : 0..MaxVersion, quantity : Int,
   transfer : TransferId, cost : CostId, report : ReportId, lot : LotId,
   policy : PolicyId, price : Int, anomaly : AnomalyId,
   proposed : [increaseBps : Int,
               classification : {"REVIEW_REQUIRED", "NO_SIGNAL"}],
   outcome : Opt(Outcome), docs : Bundles, config : Configuration]

-----------------------------------------------------------------------------
(* Bootstrap: the configuration, its policy record and four source keys,   *)
(* once.  A proposal carries the configuration as c.config.                *)

SourcesDistinct(sources) ==
  \A s, r \in System : s # r => sources[s] # sources[r]

CanBootstrap(L, c) ==
  /\ L.configuration["v1"] = None
  /\ SourcesDistinct(c.config.sources)

bootstrap(c) ==
  [configuration |-> Put("v1", c.config),
   policy        |-> Put(c.config.policy, c.config.threshold),
   sourceKey     |-> [k \in {c.config.sources[s] : s \in System} |->
                        CHOOSE s \in System : c.config.sources[s] = k]]

-----------------------------------------------------------------------------
(* Evidence.  A document is its header and the parts of its body that the  *)
(* engine uses; sound stands for every check whose failure only rejects    *)
(* the proposal: schema, signature, commitment, claimed parties.           *)

Uses(c)   == {<<d.issuer, d.src>> : d \in c.docs}
Nonces(c) == {<<d.issuer, d.nonce>> : d \in c.docs}

\* verifyBundle: an enabled key of the system that issues this type.
Trusted(L, d) ==
  /\ d.sound
  /\ L.sourceKey[<<d.issuer, d.key>>] = SystemOf[d.type]

\* Issued for this batch and this operation, for the batch's quantity.
Bound(d, c, quantity) ==
  /\ d.batch = c.batch
  /\ d.op = c.op
  /\ d.quantity = quantity

UnusedDocuments(L, c) == \A d \in c.docs : L.document[d.id] = None

Unused(L, c) ==
  /\ UnusedDocuments(L, c)
  /\ \A u \in Uses(c) : L.sourceUse[u] = None
  /\ \A n \in Nonces(c) : L.nonceUse[n] = None

\* No two documents of one bundle share an identity, a source or a nonce.
DistinctInBundle(c) ==
  \A d, e \in c.docs :
     d # e => /\ d.id # e.id
              /\ <<d.issuer, d.src>> # <<e.issuer, e.src>>
              /\ <<d.issuer, d.nonce>> # <<e.issuer, e.nonce>>

Evidenced(L, c, quantity) ==
  /\ {d.type : d \in c.docs} = required(c.fn)
  /\ Cardinality(c.docs) = Cardinality(required(c.fn))
  /\ \A d \in c.docs : Trusted(L, d) /\ Bound(d, c, quantity)
  /\ Unused(L, c)
  /\ DistinctInBundle(c)

Doc(c, type) == CHOOSE d \in c.docs : d.type = type

\* consumeDocument: a document backs one batch once, and for ever.
Unconsumed(L, c) == \A d \in c.docs : L.documentReference[d.id] = None

validPurchase(p) ==
  /\ 0 < p.quantity /\ p.quantity <= MaxQuantity
  /\ 0 < p.price /\ p.price <= MaxPrice
  /\ 0 < p.total /\ p.total <= MaxTotal
  /\ p.price * p.quantity = p.total * 1000

Opening(d) == [quantity |-> d.quantity, price |-> d.price, total |-> d.total]

use(c) == [batch |-> c.batch, op |-> c.op]

\* What an accepted bundle leaves in the public state.
EvidenceWrites(c) ==
  [document  |-> [i \in {d.id : d \in c.docs} |->
                    [batch |-> c.batch, op |-> c.op,
                     type |-> (CHOOSE d \in c.docs : d.id = i).type]],
   sourceUse |-> [u \in Uses(c) |-> use(c)],
   nonceUse  |-> [n \in Nonces(c) |-> use(c)]]

consumed(c) == [i \in {d.id : d \in c.docs} |-> use(c)]

ConsumedReads(c) == {<<"documentReference", d.id>> : d \in c.docs}

EvidenceReads(c) ==
  UNION {{<<"sourceKey", <<d.issuer, d.key>>>>, <<"document", d.id>>,
          <<"sourceUse", <<d.issuer, d.src>>>>,
          <<"nonceUse", <<d.issuer, d.nonce>>>>} : d \in c.docs}

-----------------------------------------------------------------------------
(* The checks every mutation passes before its own (engine.apply).         *)

version(L, b) == IF L.batch[b] = None THEN 0 ELSE L.batch[b].version

quantity(L, c) ==
  IF c.fn = "CreateBatch" THEN c.quantity ELSE L.batch[c.batch].quantity

UpToDate(L, c) == c.expected = version(L, c.batch)

ExpectedVersion(L, c) ==
  /\ UpToDate(L, c)
  /\ version(L, c.batch) # MaxVersion

FreshOperation(L, c) == L.operation[<<c.actor, c.op>>] = None

Admitted(L, c) ==
  /\ authorize[c.fn] = <<c.actor, c.role>>
  /\ L.configuration["v1"] # None
  /\ FreshOperation(L, c)
  /\ (c.fn = "CreateBatch") <=> (L.batch[c.batch] = None)
  /\ ExpectedVersion(L, c)
  /\ Evidenced(L, c, quantity(L, c))

-----------------------------------------------------------------------------
(* CreateBatch                                                             *)

NoEvidence ==
  [cks |-> None, purchase |-> None, hks |-> None, transport |-> None,
   freight |-> None, report |-> None]

CanCreateBatch(L, c) ==
  /\ 0 < c.quantity /\ c.quantity <= MaxQuantity
  /\ Unconsumed(L, c)

newBatch(c) ==
  [quantity |-> c.quantity, owner |-> c.actor, custodian |-> c.actor,
   state |-> "CREATED", version |-> 0, lot |-> None]

-----------------------------------------------------------------------------
(* OfferPickup and OfferDelivery: the custodian offers a custody transfer. *)

Handoff ==
  [PICKUP   |-> [from |-> "CREATED", pending |-> "PICKUP_PENDING",
                 to |-> "IN_TRANSPORT", recipient |-> Logistics],
   DELIVERY |-> [from |-> "IN_TRANSPORT", pending |-> "DELIVERY_PENDING",
                 to |-> "RECEIVED", recipient |-> Retailer]]

NoPendingTransfer(L, c) == L.pendingTransfer[c.batch] = None
FreshTransfer(L, c)     == L.transfer[c.transfer] = None

CanOffer(L, c, kind) ==
  LET b == L.batch[c.batch]
  IN  /\ b.state = Handoff[kind].from
      /\ c.actor = b.custodian
      /\ kind = "PICKUP" => c.actor = b.owner
      /\ c.quantity = b.quantity
      /\ NoPendingTransfer(L, c)
      /\ FreshTransfer(L, c)

CanOfferPickup(L, c) ==
  /\ CanOffer(L, c, "PICKUP")
  /\ L.batchEvidence[c.batch].cks # None
  /\ validPurchase(Opening(Doc(c, "PURCHASE_INVOICE")))
  /\ Unconsumed(L, c)

TransportOnRecord(L, c) == L.batchEvidence[c.batch].transport # None

CanOfferDelivery(L, c) ==
  /\ CanOffer(L, c, "DELIVERY")
  /\ TransportOnRecord(L, c)

offered(L, c, kind) ==
  [batch |-> c.batch, kind |-> kind, status |-> "OFFERED", from |-> c.actor,
   to |-> Handoff[kind].recipient, quantity |-> L.batch[c.batch].quantity,
   offer |-> c.op, accept |-> None]

OfferWrites(L, c, kind) ==
  [transfer        |-> Put(c.transfer, offered(L, c, kind)),
   pendingTransfer |-> Put(c.batch, c.transfer)]

-----------------------------------------------------------------------------
(* AcceptPickup and AcceptDelivery: the recipient takes custody, and with  *)
(* a delivery ownership.  A delivery needs the freight cost on record.     *)

FreightOnRecord(L, c) == L.batchEvidence[c.batch].freight # None

IsPending(L, c) == L.pendingTransfer[c.batch] = c.transfer

CanAccept(L, c, kind) ==
  LET b == L.batch[c.batch]
      t == L.transfer[c.transfer]
  IN  /\ t # None
      /\ t.batch = c.batch
      /\ t.to = c.actor
      /\ b.state = Handoff[kind].pending
      /\ t.status = "OFFERED"
      /\ t.kind = kind
      /\ IsPending(L, c)
      /\ c.quantity = b.quantity
      /\ t.quantity = b.quantity
      /\ t.from = b.custodian
      /\ kind = "DELIVERY" => FreightOnRecord(L, c)

AcceptedTransfer(L, c) ==
  [transfer |-> Put(c.transfer, [L.transfer[c.transfer] EXCEPT
                                   !.status = "ACCEPTED", !.accept = c.op])]

AcceptWrites(L, c) ==
  AcceptedTransfer(L, c) ++ [pendingTransfer |-> Put(c.batch, None)]

handedOver(L, c, kind) ==
  [L.batch[c.batch] EXCEPT !.state     = Handoff[kind].to,
                           !.custodian = c.actor]

received(L, c, kind) ==
  [handedOver(L, c, kind) EXCEPT
     !.owner = IF kind = "DELIVERY" THEN c.actor ELSE @]

-----------------------------------------------------------------------------
(* RecordFreightCost: at any time between the two handoffs, once.          *)

NoFreightCost(L, c) == L.batchEvidence[c.batch].freight = None

FreshCost(L, c) ==
  /\ NoFreightCost(L, c)
  /\ L.costReference[c.cost] = None

CanRecordFreightCost(L, c) ==
  LET b == L.batch[c.batch]
      d == Doc(c, "FREIGHT_INVOICE")
  IN  /\ b.state \in {"IN_TRANSPORT", "DELIVERY_PENDING"}
      /\ b.custodian = c.actor
      /\ FreshCost(L, c)
      /\ 0 <= d.total /\ d.total <= MaxTotal

FreightWrites(c) ==
  LET d == Doc(c, "FREIGHT_INVOICE")
  IN  [costReference  |-> Put(c.cost, c.batch),
       cost           |-> Put(c.cost, [batch |-> c.batch, total |-> d.total,
                                       quantity |-> d.quantity, doc |-> d.id]),
       freightOpening |-> Put(d.id, [quantity |-> d.quantity,
                                     total |-> d.total])]

-----------------------------------------------------------------------------
(* ReportRetailPrice: the retailer, now owner and custodian, reports the   *)
(* offered price and names the lot.                                        *)

NoReport(L, c) ==
  /\ L.batchEvidence[c.batch].report = None
  /\ L.batch[c.batch].lot = None

FreshReport(L, c) ==
  /\ NoReport(L, c)
  /\ L.lot[c.lot] = None
  /\ L.reportReference[c.report] = None

CanReportRetailPrice(L, c) ==
  LET b    == L.batch[c.batch]
      refs == L.batchEvidence[c.batch]
      buy  == L.tradeOpening[refs.purchase]
      cost == L.cost[refs.freight]
  IN  /\ b.state = "RECEIVED"
      /\ b.owner = c.actor
      /\ b.custodian = c.actor
      /\ refs.purchase # None
      /\ refs.freight # None
      /\ FreshReport(L, c)
      /\ buy # None
      /\ cost # None
      /\ cost.batch = c.batch
      /\ cost.quantity = b.quantity
      /\ buy.quantity = b.quantity
      /\ validPurchase(buy)
      /\ 0 <= c.price /\ c.price <= MaxPrice
      /\ c.policy = L.configuration["v1"].policy

ReportWrites(L, c) ==
  LET b    == L.batch[c.batch]
      refs == L.batchEvidence[c.batch]
  IN  [lot             |-> Put(c.lot, [batch |-> c.batch, report |-> c.report,
                                       quantity |-> b.quantity]),
       reportReference |-> Put(c.report, c.batch),
       report          |-> Put(c.report,
          [batch |-> c.batch, lot |-> c.lot, quantity |-> b.quantity,
           price |-> c.price, purchase |-> refs.purchase,
           cost |-> refs.freight, policy |-> c.policy])]

-----------------------------------------------------------------------------
(* EvaluatePrice: the oracle's proposed result is accepted only if the     *)
(* rule, run again on the private openings, gives the same one.            *)

FreshAnomaly(L, c) == L.anomalyReference[c.anomaly] = None
NoEvaluation(L, c) == L.evaluation[c.batch] = None
NotEvaluated(L, c) == NoEvaluation(L, c) /\ FreshAnomaly(L, c)

\* The result the private records of the batch give under the configured policy.
Rederived(L, c) ==
  LET refs == L.batchEvidence[c.batch]
  IN  priceScore(L.tradeOpening[refs.purchase].price,
                 L.report[refs.report].price,
                 L.configuration["v1"].threshold)

CanEvaluatePrice(L, c) ==
  LET b      == L.batch[c.batch]
      refs   == L.batchEvidence[c.batch]
      buy    == L.tradeOpening[refs.purchase]
      report == L.report[refs.report]
      cost   == L.cost[refs.freight]
  IN  /\ b.state = "RETAIL_REPORTED"
      /\ refs.report # None /\ refs.purchase # None /\ refs.freight # None
      /\ c.report = refs.report
      /\ NotEvaluated(L, c)
      /\ buy # None /\ report # None /\ cost # None
      /\ report.batch = c.batch /\ cost.batch = c.batch
      /\ {buy.quantity, report.quantity, cost.quantity} = {b.quantity}
      /\ report.purchase = refs.purchase /\ report.cost = refs.freight
      /\ report.policy = L.configuration["v1"].policy
      /\ 0 <= cost.total /\ cost.total <= MaxTotal
      /\ Accepted(buy.price, report.price, L.configuration["v1"].threshold)
      /\ c.proposed = Rederived(L, c)

EvaluationWrites(L, c) ==
  LET refs == L.batchEvidence[c.batch]
      ref  == [batch |-> c.batch, report |-> c.report, anomaly |-> c.anomaly]
      s    == Rederived(L, c)
      cfg  == L.configuration["v1"]
  IN  [evaluation       |-> Put(c.batch, ref),
       anomalyReference |-> Put(c.anomaly, ref),
       anomaly          |-> Put(c.anomaly,
          [batch |-> c.batch, report |-> c.report, policy |-> cfg.policy,
           purchase |-> L.tradeOpening[refs.purchase].price,
           retail |-> L.report[refs.report].price,
           freight |-> L.cost[refs.freight].total,
           threshold |-> cfg.threshold, score |-> s,
           review |-> IF s.classification = "REVIEW_REQUIRED"
                      THEN "OPEN" ELSE "NOT_REQUIRED"])]

-----------------------------------------------------------------------------
(* OpenReview and ResolveReview move the anomaly's review on by one.       *)

Review ==
  [OPEN_REVIEW    |-> [from |-> "OPEN",      to |-> "IN_REVIEW"],
   RESOLVE_REVIEW |-> [from |-> "IN_REVIEW", to |-> "RESOLVED"]]

Reviewable(L, c, action) ==
  LET a == L.anomaly[c.anomaly]
  IN  /\ L.batch[c.batch].state = "RETAIL_REPORTED"
      /\ L.evaluation[c.batch] # None
      /\ L.evaluation[c.batch].anomaly = c.anomaly
      /\ a # None
      /\ a.score.classification = "REVIEW_REQUIRED"
      /\ c.outcome \in IF action = "RESOLVE_REVIEW" THEN Outcome ELSE {None}

CanReview(L, c, action) ==
  /\ Reviewable(L, c, action)
  /\ L.anomaly[c.anomaly].review = Review[action].from

ReviewWrites(L, c, action) ==
  LET k == <<c.anomaly, c.op>>
  IN  [reviewActionReference |-> Put(k, c.op),
       reviewAction |-> Put(k, [action |-> action, outcome |-> c.outcome]),
       anomaly      |-> Put(c.anomaly, [L.anomaly[c.anomaly] EXCEPT
                                          !.review = Review[action].to])]

-----------------------------------------------------------------------------
(* The whole engine: which proposals are accepted, what each one writes.   *)

Accepts(L, c) ==
  IF c.fn = "Bootstrap"
  THEN authorize[c.fn] = <<c.actor, c.role>> /\ CanBootstrap(L, c)
  ELSE /\ Admitted(L, c)
       /\ CASE c.fn = "CreateBatch"       -> CanCreateBatch(L, c)
            [] c.fn = "OfferPickup"       -> CanOfferPickup(L, c)
            [] c.fn = "AcceptPickup"      -> CanAccept(L, c, "PICKUP")
            [] c.fn = "RecordFreightCost" -> CanRecordFreightCost(L, c)
            [] c.fn = "OfferDelivery"     -> CanOfferDelivery(L, c)
            [] c.fn = "AcceptDelivery"    -> CanAccept(L, c, "DELIVERY")
            [] c.fn = "ReportRetailPrice" -> CanReportRetailPrice(L, c)
            [] c.fn = "EvaluatePrice"     -> CanEvaluatePrice(L, c)
            [] c.fn = "OpenReview"        -> CanReview(L, c, "OPEN_REVIEW")
            [] c.fn = "ResolveReview"     -> CanReview(L, c, "RESOLVE_REVIEW")

\* The batch after the mutation, but for its version.
nextBatch(L, c) ==
  LET b == L.batch[c.batch]
  IN  CASE c.fn = "CreateBatch"       -> newBatch(c)
        [] c.fn = "OfferPickup"       -> [b EXCEPT !.state = "PICKUP_PENDING"]
        [] c.fn = "AcceptPickup"      -> received(L, c, "PICKUP")
        [] c.fn = "OfferDelivery"     -> [b EXCEPT !.state = "DELIVERY_PENDING"]
        [] c.fn = "AcceptDelivery"    -> received(L, c, "DELIVERY")
        [] c.fn = "ReportRetailPrice" -> [b EXCEPT !.state = "RETAIL_REPORTED",
                                                   !.lot   = c.lot]
        [] OTHER                      -> b

nextEvidence(L, c) ==
  LET refs == L.batchEvidence[c.batch]
  IN  CASE c.fn = "CreateBatch" ->
             [NoEvidence EXCEPT !.cks = Doc(c, "PRODUCER_ELIGIBILITY").id]
        [] c.fn = "OfferPickup" ->
             [refs EXCEPT !.purchase  = Doc(c, "PURCHASE_INVOICE").id,
                          !.hks       = Doc(c, "TRADE_NOTIFICATION").id,
                          !.transport = Doc(c, "TRANSPORT_MANIFEST").id]
        [] c.fn = "RecordFreightCost" -> [refs EXCEPT !.freight = c.cost]
        [] c.fn = "ReportRetailPrice" -> [refs EXCEPT !.report = c.report]
        [] OTHER -> refs

\* What a mutation writes beyond the records every mutation writes.
OwnWrites(L, c) ==
  CASE c.fn = "CreateBatch"       -> [documentReference |-> consumed(c)]
    [] c.fn = "OfferPickup"       ->
         [documentReference |-> consumed(c),
          tradeOpening |-> LET d == Doc(c, "PURCHASE_INVOICE")
                           IN  Put(d.id, Opening(d))]
         ++ OfferWrites(L, c, "PICKUP")
    [] c.fn = "OfferDelivery"     -> OfferWrites(L, c, "DELIVERY")
    [] c.fn = "AcceptPickup"      -> AcceptWrites(L, c)
    [] c.fn = "AcceptDelivery"    -> AcceptWrites(L, c)
    [] c.fn = "RecordFreightCost" -> FreightWrites(c)
    [] c.fn = "ReportRetailPrice" -> ReportWrites(L, c)
    [] c.fn = "EvaluatePrice"     -> EvaluationWrites(L, c)
    [] c.fn = "OpenReview"        -> ReviewWrites(L, c, "OPEN_REVIEW")
    [] c.fn = "ResolveReview"     -> ReviewWrites(L, c, "RESOLVE_REVIEW")

\* An index entry follows the field it indexes: the new one is put, the old
\* one, if it differs, is deleted.
IndexPut(new, old, b) == Put(<<new, b>>, b)

IndexWrites(new, old, b) ==
  IndexPut(new, old, b) ++ Put(<<old, b>>, None)

\* The records every mutation writes: the batch at its next version, its
\* evidence references, the receipt under the operation and in the history, and
\* the two indexes.
CommonWrites(L, c) ==
  LET b   == nextBatch(L, c)
      v   == version(L, c.batch) + 1
      old == L.batch[c.batch]
      r   == [op |-> c.op, batch |-> c.batch, fn |-> c.fn, actor |-> c.actor,
              version |-> v]
  IN  [batch         |-> Put(c.batch, [b EXCEPT !.version = v]),
       batchEvidence |-> Put(c.batch, nextEvidence(L, c)),
       operation     |-> Put(<<c.actor, c.op>>, r),
       history       |-> Put(<<c.batch, v>>, r),
       owner |-> IF old = None THEN Put(<<b.owner, c.batch>>, c.batch)
                 ELSE IndexWrites(b.owner, old.owner, c.batch),
       state |-> IF old = None THEN Put(<<b.state, c.batch>>, c.batch)
                 ELSE IndexWrites(b.state, old.state, c.batch)]

\* The keys the engine reads on its way to accepting c: the stub records each
\* with the version it found, private ones by the hash of the key.
OwnReads(L, c) ==
  LET refs     == L.batchEvidence[c.batch]
      transfer == {<<"pendingTransfer", c.batch>>, <<"transfer", c.transfer>>}
  IN  CASE c.fn = "CreateBatch" -> ConsumedReads(c)
        [] c.fn = "OfferPickup" -> ConsumedReads(c) \cup transfer
        [] c.fn \in {"AcceptPickup", "OfferDelivery", "AcceptDelivery"} ->
             transfer
        [] c.fn = "RecordFreightCost" -> {<<"costReference", c.cost>>}
        [] c.fn = "ReportRetailPrice" ->
             {<<"lot", c.lot>>, <<"reportReference", c.report>>,
              <<"tradeOpening", refs.purchase>>, <<"cost", refs.freight>>}
        [] c.fn = "EvaluatePrice" ->
             {<<"evaluation", c.batch>>, <<"anomalyReference", c.anomaly>>,
              <<"tradeOpening", refs.purchase>>, <<"report", refs.report>>,
              <<"cost", refs.freight>>}
        [] c.fn \in {"OpenReview", "ResolveReview"} ->
             {<<"evaluation", c.batch>>, <<"anomaly", c.anomaly>>}

BatchReads(L, c) ==
  {<<"batch", c.batch>>}
  \cup (IF L.batch[c.batch] = None THEN {} ELSE {<<"batchEvidence", c.batch>>})

CommonReads(L, c) ==
  {<<"configuration", "v1">>, <<"operation", <<c.actor, c.op>>>>}
  \cup BatchReads(L, c)

Reads(L, c) ==
  IF c.fn = "Bootstrap"
  THEN {<<"configuration", "v1">>}
  ELSE CommonReads(L, c) \cup EvidenceReads(c) \cup OwnReads(L, c)

Plan(L, c) ==
  IF c.fn = "Bootstrap"
  THEN bootstrap(c)
  ELSE EvidenceWrites(c) ++ OwnWrites(L, c) ++ CommonWrites(L, c)

\* The event the mutation emits; Bootstrap emits none.
Event(L, c) ==
  [fn |-> c.fn, op |-> c.op, batch |-> c.batch, actor |-> c.actor,
   version |-> version(L, c.batch) + 1,
   from |-> IF L.batch[c.batch] = None THEN None ELSE L.batch[c.batch].state,
   to |-> nextBatch(L, c).state]

Emits(L, c) == IF c.fn = "Bootstrap" THEN <<>> ELSE <<Event(L, c)>>
=============================================================================
