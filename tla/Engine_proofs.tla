----------------------------- MODULE Engine_proofs -----------------------------
(***************************************************************************)
(* For any identifiers, bounds and proposals, about one invocation on one  *)
(* world: a plan fits the tables, so that writing it keeps every table's   *)
(* type; what each table holds afterwards (MutationEffect); and what an    *)
(* accepted proposal keeps of the relations between the tables: custody    *)
(* (InvokeKeepsCustody), the soundness of the ledger (SoundKept), and the  *)
(* life of each batch (BatchLives).  Chaincode_proofs lifts this to the    *)
(* ledger, Fabric_proofs to the transactions.                              *)
(***************************************************************************)
EXTENDS Engine, PriceScore_proofs, FiniteSetTheorems

-----------------------------------------------------------------------------
(* Worlds and plans                                                        *)

\* Each entry that a plan puts is one its table may hold.
Fits(plan) ==
  \A t \in DOMAIN plan : \A i \in DOMAIN plan[t] : plan[t][i] \in Opt(Values[t])

\* Writing a plan that fits keeps the type of every table.
LEMMA FlushKeepsWorld ==
  ASSUME NEW L, NEW plan, IsWorld(L), Fits(plan)
  PROVE  IsWorld(flush(L, plan))
<1> DEFINE M == flush(L, plan)
<1>1. DOMAIN M = Table
  BY DEF flush
<1>2. ASSUME NEW t \in Table
      PROVE  M[t] \in [Keys[t] -> Opt(Values[t])]
  <2>1. L[t] \in [Keys[t] -> Opt(Values[t])]
    BY DEF IsWorld
  <2>2. CASE t \in DOMAIN plan
    <3>1. M[t] = Overwrite(L[t], plan[t])
      BY <2>2 DEF flush
    <3>2. \A i \in DOMAIN plan[t] : plan[t][i] \in Opt(Values[t])
      BY <2>2 DEF Fits
    <3> QED BY <2>1, <3>1, <3>2 DEF Overwrite
  <2>3. CASE t \notin DOMAIN plan
    BY <2>1, <2>3 DEF flush
  <2> QED BY <2>2, <2>3
<1> QED BY <1>1, <1>2 DEF IsWorld

\* Two plans that fit make one that fits.
LEMMA UnionFits ==
  ASSUME NEW f, NEW g, Fits(f), Fits(g)
  PROVE  Fits(f ++ g)
  BY DEF Fits, ++

\* The tables of a world, one by one.
LEMMA WorldTyped ==
  ASSUME NEW L, IsWorld(L)
  PROVE  /\ L.configuration   \in [{"v1"} -> Opt(Configuration)]
         /\ L.batch           \in [BatchId -> Opt(Batch)]
         /\ L.batchEvidence   \in [BatchId -> Opt(EvidenceRefs)]
         /\ L.transfer        \in [TransferId -> Opt(Transfer)]
         /\ L.pendingTransfer \in [BatchId -> Opt(TransferId)]
         /\ L.tradeOpening    \in [DocId -> Opt(Purchase)]
         /\ L.cost            \in [CostId -> Opt(Cost)]
         /\ L.report          \in [ReportId -> Opt(Report)]
         /\ L.anomaly         \in [AnomalyId -> Opt(Anomaly)]
<1>1. ASSUME NEW t \in Table PROVE L[t] \in [Keys[t] -> Opt(Values[t])]
  BY DEF IsWorld
<1>2. /\ L.configuration   \in [{"v1"} -> Opt(Configuration)]
      /\ L.batch           \in [BatchId -> Opt(Batch)]
      /\ L.batchEvidence   \in [BatchId -> Opt(EvidenceRefs)]
  BY <1>1 DEF Table, Keys, Values
<1>3. /\ L.transfer        \in [TransferId -> Opt(Transfer)]
      /\ L.pendingTransfer \in [BatchId -> Opt(TransferId)]
      /\ L.tradeOpening    \in [DocId -> Opt(Purchase)]
  BY <1>1 DEF Table, Keys, Values
<1>4. /\ L.cost            \in [CostId -> Opt(Cost)]
      /\ L.report          \in [ReportId -> Opt(Report)]
      /\ L.anomaly         \in [AnomalyId -> Opt(Anomaly)]
  BY <1>1 DEF Table, Keys, Values
<1> QED BY <1>2, <1>3, <1>4

\* What the tables hold, one by one.
LEMMA ValuesOf ==
  /\ Values["configuration"]     = Configuration
  /\ Values["policy"]            = 0..MaxThreshold
  /\ Values["sourceKey"]         = System
  /\ Values["batch"]             = Batch
  /\ Values["batchEvidence"]     = EvidenceRefs
  /\ Values["transfer"]          = Transfer
  /\ Values["pendingTransfer"]   = TransferId
  /\ Values["operation"]         = Receipt
  /\ Values["history"]           = Receipt
  /\ Values["owner"]             = BatchId
  /\ Values["state"]             = BatchId
  /\ Values["documentReference"] = Use
  /\ Values["document"]          = [batch : BatchId, op : OpId, type : DocType]
  /\ Values["sourceUse"]         = Use
  /\ Values["nonceUse"]          = Use
  /\ Values["costReference"]     = BatchId
  /\ Values["reportReference"]   = BatchId
  /\ Values["lot"]               = Lot
  /\ Values["evaluation"]        = Evaluation
  /\ Values["anomalyReference"]  = Evaluation
  /\ Values["reviewActionReference"] = OpId
  /\ Values["tradeOpening"]      = Purchase
  /\ Values["freightOpening"]    = [quantity : Quantity, total : Total]
  /\ Values["cost"]              = Cost
  /\ Values["report"]            = Report
  /\ Values["anomaly"]           = Anomaly
  /\ Values["reviewAction"]      = ReviewAction
  BY DEF Values

\* The empty ledger is a world.
LEMMA InitialWorld == IsWorld(EmptyWorld)
  BY DEF IsWorld, EmptyWorld, Opt

-----------------------------------------------------------------------------
(* What each part of a plan puts                                           *)

\* What a proposal carries.
LEMMA CommandTyped ==
  ASSUME NEW c \in Command
  PROVE  /\ c.fn \in DOMAIN authorize
         /\ c.actor \in Member /\ c.op \in OpId /\ c.batch \in BatchId
         /\ c.expected \in 0..MaxVersion
         /\ c.quantity \in Int /\ c.price \in Int
         /\ c.transfer \in TransferId /\ c.cost \in CostId
         /\ c.report \in ReportId /\ c.lot \in LotId /\ c.policy \in PolicyId
         /\ c.anomaly \in AnomalyId /\ c.outcome \in Opt(Outcome)
         /\ c.docs \subseteq Document /\ c.config \in Configuration
  BY DEF Command, Bundles

\* The parts of a document header, and the keys made of them.
LEMMA DocumentTyped ==
  ASSUME NEW d \in Document
  PROVE  /\ d.id \in DocId /\ d.type \in DocType
         /\ <<d.issuer, d.src>> \in Issuer \X DocId
         /\ <<d.issuer, d.nonce>> \in Issuer \X Nonce
         /\ <<d.issuer, d.key>> \in SourceKey
         /\ d.quantity \in Int /\ d.price \in Int /\ d.total \in Int
  BY DEF Document, SourceKey

\* The bundle of an accepted proposal has a document of each required type.
LEMMA RequiredDocument ==
  ASSUME NEW c \in Command, {d.type : d \in c.docs} = required(c.fn),
         NEW type \in required(c.fn)
  PROVE  Doc(c, type) \in c.docs /\ Doc(c, type).type = type
  BY DEF Doc

\* What each command puts fits: the configuration,
LEMMA BootstrapFits ==
  ASSUME NEW c \in Command
  PROVE  Fits(bootstrap(c))
<1> DEFINE cfg == c.config
<1>1. cfg.policy \in PolicyId /\ cfg.threshold \in 0..MaxThreshold
      /\ cfg.sources \in [System -> SourceKey] /\ cfg \in Configuration
  BY CommandTyped DEF Configuration
<1>2. ASSUME NEW k \in {cfg.sources[s] : s \in System}
      PROVE  (CHOOSE s \in System : cfg.sources[s] = k) \in System
  OBVIOUS
<1> DEFINE P == bootstrap(c)
<1>3. DOMAIN P = {"configuration", "policy", "sourceKey"}
  BY DEF bootstrap
<1>4. ASSUME NEW i \in DOMAIN P.configuration PROVE P.configuration[i] \in Configuration
  BY <1>1 DEF bootstrap, Put
<1>5. ASSUME NEW i \in DOMAIN P.policy PROVE P.policy[i] \in 0..MaxThreshold
  BY <1>1 DEF bootstrap, Put
<1>6. ASSUME NEW i \in DOMAIN P.sourceKey PROVE P.sourceKey[i] \in System
  BY <1>2 DEF bootstrap
<1> HIDE DEF P
<1>7. Fits(P)
  BY <1>3, <1>4, <1>5, <1>6, ValuesOf DEF Fits, Opt
<1> QED BY <1>7 DEF P

\* the records of a bundle,
LEMMA EvidenceFits ==
  ASSUME NEW c \in Command
  PROVE  Fits(EvidenceWrites(c))
<1>1. use(c) \in Use
  BY CommandTyped DEF use, Use
<1>2. ASSUME NEW i \in {d.id : d \in c.docs}
      PROVE  [batch |-> c.batch, op |-> c.op,
              type |-> (CHOOSE d \in c.docs : d.id = i).type]
               \in [batch : BatchId, op : OpId, type : DocType]
  <2>1. (CHOOSE d \in c.docs : d.id = i) \in c.docs
    OBVIOUS
  <2> QED BY <2>1, CommandTyped, DocumentTyped
<1> DEFINE P == EvidenceWrites(c)
<1>3. DOMAIN P = {"document", "sourceUse", "nonceUse"}
  BY DEF EvidenceWrites
<1>4. ASSUME NEW i \in DOMAIN P.document
      PROVE  P.document[i] \in [batch : BatchId, op : OpId, type : DocType]
  BY <1>2 DEF EvidenceWrites
<1>5. ASSUME NEW i \in DOMAIN P.sourceUse PROVE P.sourceUse[i] \in Use
  BY <1>1 DEF EvidenceWrites
<1>6. ASSUME NEW i \in DOMAIN P.nonceUse PROVE P.nonceUse[i] \in Use
  BY <1>1 DEF EvidenceWrites
<1> HIDE DEF P
<1>7. Fits(P)
  BY <1>3, <1>4, <1>5, <1>6, ValuesOf DEF Fits, Opt
<1> QED BY <1>7 DEF P

\* the references to its documents,
LEMMA ConsumedFits ==
  ASSUME NEW c \in Command
  PROVE  Fits([documentReference |-> consumed(c)])
<1>1. use(c) \in Use
  BY CommandTyped DEF use, Use
<1> QED BY <1>1, ValuesOf DEF consumed, Fits, Opt

\* an offer,
LEMMA OfferFits ==
  ASSUME NEW L, IsWorld(L), NEW c \in Command, NEW kind \in DOMAIN Handoff,
         L.batch[c.batch] # None
  PROVE  Fits(OfferWrites(L, c, kind))
<1>1. L.batch[c.batch] \in Batch
  BY WorldTyped, CommandTyped DEF Opt
<1>2. offered(L, c, kind) \in Transfer
  BY <1>1, CommandTyped
     DEF offered, Transfer, Handoff, Batch, Opt, Member, Logistics, Retailer
<1>3. c.batch \in BatchId /\ c.transfer \in TransferId
  BY CommandTyped
<1> QED BY <1>2, <1>3, ValuesOf DEF OfferWrites, Put, Fits, Opt

\* an acceptance,
LEMMA AcceptFits ==
  ASSUME NEW L, IsWorld(L), NEW c \in Command, L.transfer[c.transfer] # None
  PROVE  Fits(AcceptWrites(L, c))
<1> DEFINE new == [L.transfer[c.transfer] EXCEPT !.status = "ACCEPTED", !.accept = c.op]
<1>1. L.transfer[c.transfer] \in Transfer
  BY WorldTyped, CommandTyped DEF Opt
<1>2. new \in Transfer
  BY <1>1, CommandTyped DEF Transfer, Opt
<1>3. Fits(AcceptedTransfer(L, c))
  BY <1>2, ValuesOf DEF AcceptedTransfer, Put, Fits, Opt
<1>4. Fits([pendingTransfer |-> Put(c.batch, None)])
  BY ValuesOf DEF Put, Fits, Opt
<1> QED BY <1>3, <1>4, UnionFits DEF AcceptWrites

\* The amounts of a document that passed its checks are in range.
LEMMA FreightFits ==
  ASSUME NEW L, IsWorld(L), NEW c \in Command, c.fn = "RecordFreightCost",
         L.batch[c.batch] # None,
         Evidenced(L, c, quantity(L, c)), CanRecordFreightCost(L, c)
  PROVE  Fits(FreightWrites(c))
<1> DEFINE d == Doc(c, "FREIGHT_INVOICE")
           new == [batch |-> c.batch, total |-> d.total,
                   quantity |-> d.quantity, doc |-> d.id]
<1>1. L.batch[c.batch] \in Batch
  BY WorldTyped, CommandTyped DEF Opt
<1>2. d \in c.docs /\ d \in Document
  BY RequiredDocument, CommandTyped DEF Evidenced, required
<1>3. d.quantity = L.batch[c.batch].quantity
  BY <1>2 DEF Evidenced, Bound, quantity
<1>4. d.quantity \in Quantity
  BY <1>1, <1>3 DEF Batch
<1>5. d.total \in Total
  <2>1. d.total \in Int /\ 0 <= d.total /\ d.total <= MaxTotal
    BY <1>2, DocumentTyped DEF CanRecordFreightCost
  <2> QED BY <2>1, EngineAssumption DEF Total
<1>6. new \in Cost /\ [quantity |-> d.quantity, total |-> d.total] \in
                       [quantity : Quantity, total : Total]
  BY <1>2, <1>4, <1>5, DocumentTyped, CommandTyped DEF Cost
<1>7. c.batch \in BatchId
  BY CommandTyped
<1> DEFINE P == FreightWrites(c)
<1>8. DOMAIN P = {"costReference", "cost", "freightOpening"}
  BY DEF FreightWrites
<1>9. ASSUME NEW i \in DOMAIN P.costReference PROVE P.costReference[i] \in BatchId
  BY <1>7 DEF FreightWrites, Put
<1>10. ASSUME NEW i \in DOMAIN P.cost PROVE P.cost[i] \in Cost
  BY <1>6 DEF FreightWrites, Put
<1>11. ASSUME NEW i \in DOMAIN P.freightOpening
       PROVE  P.freightOpening[i] \in [quantity : Quantity, total : Total]
  BY <1>6 DEF FreightWrites, Put
<1> HIDE DEF P
<1>12. Fits(P)
  BY <1>8, <1>9, <1>10, <1>11, ValuesOf DEF Fits, Opt
<1> QED BY <1>12 DEF P

\* What a report, an evaluation and a review put fits, too: their guards say so.
LEMMA ReportFits ==
  ASSUME NEW L, IsWorld(L), NEW c \in Command, CanReportRetailPrice(L, c),
         L.batch[c.batch] # None, L.batchEvidence[c.batch] # None
  PROVE  Fits(ReportWrites(L, c))
<1> DEFINE b    == L.batch[c.batch]
           refs == L.batchEvidence[c.batch]
           lot  == [batch |-> c.batch, report |-> c.report, quantity |-> b.quantity]
           new  == [batch |-> c.batch, lot |-> c.lot, quantity |-> b.quantity,
                    price |-> c.price, purchase |-> refs.purchase,
                    cost |-> refs.freight, policy |-> c.policy]
           P    == ReportWrites(L, c)
<1>1. b \in Batch /\ refs \in EvidenceRefs
  BY WorldTyped, CommandTyped DEF Opt
<1>2. refs.purchase \in DocId /\ refs.freight \in CostId
  BY <1>1 DEF CanReportRetailPrice, EvidenceRefs, Opt
<1>3. c.price \in 0..MaxPrice
  <2>1. 0 <= c.price /\ c.price <= MaxPrice
    BY DEF CanReportRetailPrice
  <2>2. c.price \in Int /\ MaxPrice \in Int
    BY CommandTyped, PriceAssumption
  <2> QED BY <2>1, <2>2
<1>4. lot \in Lot /\ new \in Report
  BY <1>1, <1>2, <1>3, CommandTyped DEF Lot, Report, Batch
<1>5. DOMAIN P = {"lot", "reportReference", "report"}
  BY DEF ReportWrites
<1>6. ASSUME NEW i \in DOMAIN P.lot PROVE P.lot[i] \in Lot
  BY <1>4 DEF ReportWrites, Put
<1>7. ASSUME NEW i \in DOMAIN P.reportReference PROVE P.reportReference[i] \in BatchId
  BY CommandTyped DEF ReportWrites, Put
<1>8. ASSUME NEW i \in DOMAIN P.report PROVE P.report[i] \in Report
  BY <1>4 DEF ReportWrites, Put
<1> HIDE DEF P
<1>9. Fits(P)
  BY <1>5, <1>6, <1>7, <1>8, ValuesOf DEF Fits, Opt
<1> QED BY <1>9 DEF P

\* The rule gives a score that the anomaly may hold.
LEMMA EvaluationFits ==
  ASSUME NEW L, IsWorld(L), NEW c \in Command, CanEvaluatePrice(L, c),
         L.configuration["v1"] # None, L.batchEvidence[c.batch] # None
  PROVE  Fits(EvaluationWrites(L, c))
<1> DEFINE refs == L.batchEvidence[c.batch]
           cfg  == L.configuration["v1"]
           buy  == L.tradeOpening[refs.purchase]
           rep  == L.report[refs.report]
           cost == L.cost[refs.freight]
           s    == Rederived(L, c)
           ref  == [batch |-> c.batch, report |-> c.report, anomaly |-> c.anomaly]
           new  == [batch |-> c.batch, report |-> c.report, policy |-> cfg.policy,
                    purchase |-> buy.price, retail |-> rep.price,
                    freight |-> cost.total, threshold |-> cfg.threshold,
                    score |-> s,
                    review |-> IF s.classification = "REVIEW_REQUIRED"
                               THEN "OPEN" ELSE "NOT_REQUIRED"]
           P    == EvaluationWrites(L, c)
<1>1. refs \in EvidenceRefs /\ cfg \in Configuration
  BY WorldTyped, CommandTyped DEF Opt
<1>2. refs.purchase \in DocId /\ refs.report \in ReportId /\ refs.freight \in CostId
  BY <1>1 DEF CanEvaluatePrice, EvidenceRefs, Opt
<1>3. buy \in Purchase /\ rep \in Report /\ cost \in Cost
  <2>1. buy # None /\ rep # None /\ cost # None
    BY DEF CanEvaluatePrice
  <2>2. buy \in Opt(Purchase) /\ rep \in Opt(Report) /\ cost \in Opt(Cost)
    BY <1>2, WorldTyped
  <2> QED BY <2>1, <2>2 DEF Opt
<1>4. /\ buy.price \in 1..MaxPrice /\ rep.price \in 0..MaxPrice
      /\ cost.total \in Total
      /\ cfg.policy \in PolicyId /\ cfg.threshold \in 0..MaxThreshold
  BY <1>1, <1>3 DEF Purchase, Report, Cost, Configuration
<1>5. Accepted(buy.price, rep.price, cfg.threshold)
  BY DEF CanEvaluatePrice
<1>6. s \in [increaseBps : Int, classification : {"REVIEW_REQUIRED", "NO_SIGNAL"}]
  <2> HIDE DEF buy, rep, cfg
  <2>1. buy.price \in Int /\ rep.price \in Int /\ cfg.threshold \in Int
    BY <1>4
  <2> USE DEF buy, rep, cfg
  <2> QED BY <1>5, <2>1, ScoreTyped DEF Rederived
<1>7. ref \in Evaluation
  BY CommandTyped DEF Evaluation
<1> HIDE DEF s, buy, rep, cost, cfg
<1>8. new \in Anomaly
  BY <1>4, <1>6, CommandTyped DEF Anomaly, ReviewState
<1> USE DEF s, buy, rep, cost, cfg
<1>9. DOMAIN P = {"evaluation", "anomalyReference", "anomaly"}
  BY DEF EvaluationWrites
<1>10. ASSUME NEW i \in DOMAIN P.evaluation PROVE P.evaluation[i] \in Evaluation
  BY <1>7 DEF EvaluationWrites, Put
<1>11. ASSUME NEW i \in DOMAIN P.anomalyReference
       PROVE  P.anomalyReference[i] \in Evaluation
  BY <1>7 DEF EvaluationWrites, Put
<1>12. ASSUME NEW i \in DOMAIN P.anomaly PROVE P.anomaly[i] \in Anomaly
  BY <1>8 DEF EvaluationWrites, Put
<1> HIDE DEF P
<1>13. Fits(P)
  BY <1>9, <1>10, <1>11, <1>12, ValuesOf DEF Fits, Opt
<1> QED BY <1>13 DEF P

\* A review puts the next state of the anomaly it found.
LEMMA ReviewFits ==
  ASSUME NEW L, IsWorld(L), NEW c \in Command, NEW action \in DOMAIN Review,
         CanReview(L, c, action)
  PROVE  Fits(ReviewWrites(L, c, action))
<1> DEFINE new == [L.anomaly[c.anomaly] EXCEPT !.review = Review[action].to]
           act == [action |-> action, outcome |-> c.outcome]
           P   == ReviewWrites(L, c, action)
<1>1. L.anomaly[c.anomaly] \in Anomaly
  BY WorldTyped, CommandTyped DEF CanReview, Reviewable, Opt
<1>2. new \in Anomaly
  BY <1>1 DEF Anomaly, Review, ReviewState
<1>3. act \in ReviewAction
  BY CommandTyped DEF ReviewAction, Review
<1>4. DOMAIN P = {"reviewActionReference", "reviewAction", "anomaly"}
  BY DEF ReviewWrites
<1>5. ASSUME NEW i \in DOMAIN P.reviewActionReference
      PROVE  P.reviewActionReference[i] \in OpId
  BY CommandTyped DEF ReviewWrites, Put
<1>6. ASSUME NEW i \in DOMAIN P.reviewAction PROVE P.reviewAction[i] \in ReviewAction
  BY <1>3 DEF ReviewWrites, Put
<1>7. ASSUME NEW i \in DOMAIN P.anomaly PROVE P.anomaly[i] \in Anomaly
  BY <1>2 DEF ReviewWrites, Put
<1> HIDE DEF P
<1>8. Fits(P)
  BY <1>4, <1>5, <1>6, <1>7, ValuesOf DEF Fits, Opt
<1> QED BY <1>8 DEF P

\* What an accepted mutation knows of its batch.
LEMMA AdmittedBatch ==
  ASSUME NEW L, IsWorld(L), NEW c \in Command, Accepts(L, c), c.fn # "Bootstrap"
  PROVE  /\ Admitted(L, c)
         /\ c.fn = "CreateBatch" <=> L.batch[c.batch] = None
         /\ L.batch[c.batch] \in Opt(Batch)
         /\ version(L, c.batch) + 1 \in 1..MaxVersion
<1>1. Admitted(L, c)
  BY DEF Accepts
<1>2. L.batch[c.batch] \in Opt(Batch)
  BY WorldTyped, CommandTyped
<1>3. c.fn = "CreateBatch" <=> L.batch[c.batch] = None
  BY <1>1 DEF Admitted
<1>4. version(L, c.batch) \in 0..MaxVersion /\ version(L, c.batch) # MaxVersion
  BY <1>1, <1>2, EngineAssumption DEF Admitted, ExpectedVersion, version, Batch, Opt
<1> QED BY <1>1, <1>2, <1>3, <1>4, EngineAssumption

\* A batch as it is before its version is set.
Unversioned ==
  [quantity : Quantity, owner : Member, custodian : Member, state : State,
   version : Nat, lot : Opt(LotId)]

\* The next batch is a batch, but for its version.
LEMMA NextBatchTyped ==
  ASSUME NEW L, IsWorld(L), NEW c \in Command, Accepts(L, c), c.fn # "Bootstrap"
  PROVE  nextBatch(L, c) \in Unversioned
<1> DEFINE b == L.batch[c.batch]
<1>1. c.fn # "CreateBatch" => b \in Unversioned
  BY AdmittedBatch, EngineAssumption DEF Batch, Unversioned, Opt
<1>2. c.actor \in Member /\ c.lot \in LotId /\ c.quantity \in Int
  BY CommandTyped
<1>3. CASE c.fn = "CreateBatch"
  <2>1. c.quantity \in Quantity
    BY <1>2, <1>3, EngineAssumption DEF Accepts, CanCreateBatch, Quantity
  <2>2. newBatch(c) \in Unversioned
    BY <1>2, <2>1 DEF newBatch, Unversioned, State, Opt
  <2> QED BY <1>3, <2>2 DEF nextBatch
<1>4. CASE c.fn = "OfferPickup" \/ c.fn = "OfferDelivery"
  BY <1>1, <1>4 DEF nextBatch, Unversioned, State
<1>5. CASE c.fn = "AcceptPickup" \/ c.fn = "AcceptDelivery"
  <2>1. ASSUME NEW kind \in DOMAIN Handoff
        PROVE  received(L, c, kind) \in Unversioned
    <3>1. b \in Unversioned /\ Handoff[kind].to \in State
      BY <1>1, <1>5 DEF Handoff, State
    <3>2. handedOver(L, c, kind) \in Unversioned
      BY <1>2, <3>1 DEF handedOver, Unversioned
    <3> QED BY <3>2, <1>2 DEF received, Unversioned
  <2> QED BY <1>5, <2>1 DEF nextBatch, Handoff
<1>6. CASE c.fn = "ReportRetailPrice"
  BY <1>1, <1>2, <1>6 DEF nextBatch, Unversioned, State, Opt
<1>7. CASE c.fn \in {"RecordFreightCost", "EvaluatePrice", "OpenReview", "ResolveReview"}
  BY <1>1, <1>7 DEF nextBatch
<1> QED BY <1>3, <1>4, <1>5, <1>6, <1>7, CommandTyped DEF authorize

\* The next references are references.
LEMMA NextEvidenceTyped ==
  ASSUME NEW L, IsWorld(L), NEW c \in Command, Accepts(L, c), c.fn # "Bootstrap",
         c.fn # "CreateBatch" => L.batchEvidence[c.batch] # None
  PROVE  nextEvidence(L, c) \in EvidenceRefs
<1> DEFINE refs == L.batchEvidence[c.batch]
<1>1. c.fn # "CreateBatch" => refs \in EvidenceRefs
  BY WorldTyped, CommandTyped DEF Opt
<1>2. ASSUME NEW type \in required(c.fn)
      PROVE  Doc(c, type).id \in DocId
  BY AdmittedBatch, RequiredDocument, CommandTyped, DocumentTyped
     DEF Admitted, Evidenced
<1>3. CASE c.fn = "CreateBatch"
  <2>1. "PRODUCER_ELIGIBILITY" \in required(c.fn)
    BY <1>3 DEF required
  <2> QED BY <1>2, <1>3, <2>1 DEF nextEvidence, NoEvidence, EvidenceRefs, Opt
<1>4. CASE c.fn = "OfferPickup"
  <2>1. {"PURCHASE_INVOICE", "TRADE_NOTIFICATION", "TRANSPORT_MANIFEST"}
          \subseteq required(c.fn)
    BY <1>4 DEF required
  <2> QED BY <1>1, <1>2, <1>4, <2>1 DEF nextEvidence, EvidenceRefs, Opt
<1>5. CASE c.fn = "RecordFreightCost" \/ c.fn = "ReportRetailPrice"
  BY <1>1, <1>5, CommandTyped DEF nextEvidence, EvidenceRefs, Opt
<1>6. CASE c.fn \notin {"CreateBatch", "OfferPickup", "RecordFreightCost",
                        "ReportRetailPrice"}
  BY <1>1, <1>6 DEF nextEvidence
<1> QED BY <1>3, <1>4, <1>5, <1>6

\* What every mutation puts fits.
LEMMA CommonFits ==
  ASSUME NEW L, IsWorld(L), NEW c \in Command, Accepts(L, c), c.fn # "Bootstrap",
         c.fn # "CreateBatch" => L.batchEvidence[c.batch] # None
  PROVE  Fits(CommonWrites(L, c))
<1> DEFINE b == nextBatch(L, c)
           v == version(L, c.batch) + 1
           r == [op |-> c.op, batch |-> c.batch, fn |-> c.fn, actor |-> c.actor,
                 version |-> v]
           P == CommonWrites(L, c)
<1>1. v \in 1..MaxVersion /\ c.batch \in BatchId
  BY AdmittedBatch, CommandTyped
<1>2. [b EXCEPT !.version = v] \in Batch
  <2>1. b \in Unversioned
    BY NextBatchTyped
  <2> HIDE DEF b, v
  <2> QED BY <1>1, <2>1 DEF Unversioned, Batch
<1>3. nextEvidence(L, c) \in EvidenceRefs
  BY NextEvidenceTyped
<1>4. r \in Receipt
  BY <1>1, CommandTyped DEF Receipt, Mutation
<1>5. DOMAIN P = {"batch", "batchEvidence", "operation", "history", "owner", "state"}
  BY DEF CommonWrites
<1> HIDE DEF b, v, r
<1>6. ASSUME NEW i \in DOMAIN P.batch PROVE P.batch[i] \in Batch
  BY <1>2 DEF CommonWrites, Put, b, v
<1>7. ASSUME NEW i \in DOMAIN P.batchEvidence PROVE P.batchEvidence[i] \in EvidenceRefs
  BY <1>3 DEF CommonWrites, Put
<1>8. ASSUME NEW i \in DOMAIN P.operation PROVE P.operation[i] \in Receipt
  BY <1>4 DEF CommonWrites, Put, r, v
<1>9. ASSUME NEW i \in DOMAIN P.history PROVE P.history[i] \in Receipt
  BY <1>4 DEF CommonWrites, Put, r, v
<1>10. ASSUME NEW i \in DOMAIN P.owner PROVE P.owner[i] \in Opt(BatchId)
  BY <1>1 DEF CommonWrites, IndexWrites, IndexPut, Put, ++, Opt
<1>11. ASSUME NEW i \in DOMAIN P.state PROVE P.state[i] \in Opt(BatchId)
  BY <1>1 DEF CommonWrites, IndexWrites, IndexPut, Put, ++, Opt
<1> HIDE DEF P
<1>12. Fits(P)
  BY <1>5, <1>6, <1>7, <1>8, <1>9, <1>10, <1>11, ValuesOf DEF Fits, Opt
<1> QED BY <1>12 DEF P

\* What a mutation puts of its own fits.
LEMMA OwnFits ==
  ASSUME NEW L, IsWorld(L), NEW c \in Command, Accepts(L, c), c.fn # "Bootstrap",
         c.fn # "CreateBatch" => L.batchEvidence[c.batch] # None
  PROVE  Fits(OwnWrites(L, c))
<1>1. Admitted(L, c) /\ (c.fn = "CreateBatch" <=> L.batch[c.batch] = None)
  BY AdmittedBatch
<1>2. CASE c.fn = "CreateBatch"
  BY <1>2, ConsumedFits DEF OwnWrites
<1>3. CASE c.fn = "OfferPickup"
  <2> DEFINE d == Doc(c, "PURCHASE_INVOICE")
  <2>1. CanOfferPickup(L, c) /\ "PURCHASE_INVOICE" \in required(c.fn)
    BY <1>3 DEF Accepts, required
  <2>2. d \in Document
    BY <1>1, <2>1, RequiredDocument, CommandTyped DEF Admitted, Evidenced
  <2>3. Opening(d) \in Purchase
    <3> DEFINE p == Opening(d)
    <3>1. validPurchase(p)
      BY <2>1 DEF CanOfferPickup
    <3>2. /\ p = [quantity |-> d.quantity, price |-> d.price, total |-> d.total]
          /\ d.quantity \in Int /\ d.price \in Int /\ d.total \in Int
      BY <2>2, DocumentTyped DEF Opening
    <3>3. /\ d.quantity \in 1..MaxQuantity
          /\ d.price \in 1..MaxPrice
          /\ d.total \in 1..MaxTotal
      <4> HIDE DEF d
      <4> QED BY <3>1, <3>2, PriceAssumption, EngineAssumption DEF validPurchase
    <3> HIDE DEF d
    <3> QED BY <3>2, <3>3 DEF Purchase, Quantity
  <2>4. d.id \in DocId
    BY <2>2, DocumentTyped
  <2> DEFINE P == [documentReference |-> consumed(c), tradeOpening |-> Put(d.id, Opening(d))]
  <2>5. Fits(P)
    <3>1. DOMAIN P = {"documentReference", "tradeOpening"}
      OBVIOUS
    <3>2. ASSUME NEW i \in DOMAIN P.documentReference
          PROVE  P.documentReference[i] \in Use
      BY CommandTyped DEF consumed, use, Use
    <3>3. ASSUME NEW i \in DOMAIN P.tradeOpening PROVE P.tradeOpening[i] \in Purchase
      BY <2>3 DEF Put
    <3> HIDE DEF P
    <3> QED BY <3>1, <3>2, <3>3, ValuesOf DEF Fits, Opt
  <2>6. Fits(OfferWrites(L, c, "PICKUP"))
    BY <1>1, <1>3, OfferFits DEF Handoff
  <2>7. Fits(P ++ OfferWrites(L, c, "PICKUP"))
    <3> HIDE DEF P
    <3> QED BY <2>5, <2>6, UnionFits
  <2>8. OwnWrites(L, c) = P ++ OfferWrites(L, c, "PICKUP")
    BY <1>3 DEF OwnWrites
  <2> QED BY <2>7, <2>8
<1>4. CASE c.fn = "OfferDelivery"
  BY <1>1, <1>4, OfferFits DEF OwnWrites, Handoff
<1>5. CASE c.fn = "AcceptPickup" \/ c.fn = "AcceptDelivery"
  <2>1. L.transfer[c.transfer] # None
    BY <1>5 DEF Accepts, CanAccept
  <2> QED BY <1>5, <2>1, AcceptFits DEF OwnWrites
<1>6. CASE c.fn = "RecordFreightCost"
  <2>1. CanRecordFreightCost(L, c) /\ Evidenced(L, c, quantity(L, c))
    BY <1>1, <1>6 DEF Accepts, Admitted
  <2> QED BY <1>1, <1>6, <2>1, FreightFits DEF OwnWrites
<1>7. CASE c.fn = "ReportRetailPrice"
  <2>1. CanReportRetailPrice(L, c)
    BY <1>7 DEF Accepts
  <2> QED BY <1>1, <1>7, <2>1, ReportFits DEF OwnWrites
<1>8. CASE c.fn = "EvaluatePrice"
  <2>1. CanEvaluatePrice(L, c) /\ L.configuration["v1"] # None
    BY <1>1, <1>8 DEF Accepts, Admitted
  <2> QED BY <1>8, <2>1, EvaluationFits DEF OwnWrites
<1>9. CASE c.fn = "OpenReview"
  <2>1. CanReview(L, c, "OPEN_REVIEW")
    BY <1>9 DEF Accepts
  <2> QED BY <1>9, <2>1, ReviewFits DEF OwnWrites, Review
<1>10. CASE c.fn = "ResolveReview"
  <2>1. CanReview(L, c, "RESOLVE_REVIEW")
    BY <1>10 DEF Accepts
  <2> QED BY <1>10, <2>1, ReviewFits DEF OwnWrites, Review
<1> QED BY <1>2, <1>3, <1>4, <1>5, <1>6, <1>7, <1>8, <1>9, <1>10, CommandTyped
        DEF authorize

-----------------------------------------------------------------------------
(* Type correctness                                                        *)

\* A plan of an accepted proposal fits, so the next world is one.
LEMMA InvokeKeepsWorld ==
  ASSUME NEW L, IsWorld(L), NEW c \in Command, Accepts(L, c),
         c.fn \notin {"Bootstrap", "CreateBatch"} => L.batchEvidence[c.batch] # None
  PROVE  IsWorld(flush(L, Plan(L, c)))
<1>1. CASE c.fn = "Bootstrap"
  BY <1>1, BootstrapFits, FlushKeepsWorld DEF Plan
<1>2. CASE c.fn # "Bootstrap"
  <2>1. Fits(EvidenceWrites(c)) /\ Fits(OwnWrites(L, c)) /\ Fits(CommonWrites(L, c))
    BY <1>2, EvidenceFits, OwnFits, CommonFits
  <2>2. Plan(L, c) = (EvidenceWrites(c) ++ OwnWrites(L, c)) ++ CommonWrites(L, c)
    BY <1>2 DEF Plan
  <2>3. Fits(EvidenceWrites(c) ++ OwnWrites(L, c))
    BY <2>1, UnionFits
  <2>4. Fits(Plan(L, c))
    BY <2>1, <2>2, <2>3, UnionFits
  <2> QED BY <2>4, FlushKeepsWorld
<1> QED BY <1>1, <1>2

\* The two tables after a proposal, which only the common writes touch.
LEMMA BatchFlushed ==
  ASSUME NEW L, IsWorld(L), NEW c \in Command, c.fn # "Bootstrap"
  PROVE  LET M == flush(L, Plan(L, c))
         IN  /\ M.batch = [L.batch EXCEPT
                   ![c.batch] = [nextBatch(L, c) EXCEPT !.version = version(L, c.batch) + 1]]
             /\ M.batchEvidence = [L.batchEvidence EXCEPT ![c.batch] = nextEvidence(L, c)]
<1> DEFINE plan == Plan(L, c)
           M == flush(L, plan)
           E == EvidenceWrites(c) ++ OwnWrites(L, c)
           W == CommonWrites(L, c)
           new == [nextBatch(L, c) EXCEPT !.version = version(L, c.batch) + 1]
<1>1. DOMAIN EvidenceWrites(c) = {"document", "sourceUse", "nonceUse"}
  BY DEF EvidenceWrites
<1>2. "batch" \notin DOMAIN OwnWrites(L, c) /\ "batchEvidence" \notin DOMAIN OwnWrites(L, c)
  BY CommandTyped DEF OwnWrites, OfferWrites, AcceptWrites, AcceptedTransfer,
     FreightWrites, ReportWrites, EvaluationWrites, ReviewWrites, ++, authorize
<1>3. "batch" \notin DOMAIN E /\ "batchEvidence" \notin DOMAIN E
  BY <1>1, <1>2 DEF ++
<1>4. /\ "batch" \in DOMAIN W /\ W.batch = Put(c.batch, new)
      /\ "batchEvidence" \in DOMAIN W
      /\ W.batchEvidence = Put(c.batch, nextEvidence(L, c))
  BY DEF CommonWrites
<1>5. plan = E ++ W
  BY DEF Plan
<1> HIDE DEF plan, E, W, new
<1>6. /\ "batch" \in DOMAIN plan /\ plan.batch = Put(c.batch, new)
      /\ "batchEvidence" \in DOMAIN plan
      /\ plan.batchEvidence = Put(c.batch, nextEvidence(L, c))
  BY <1>3, <1>4, <1>5 DEF ++
<1>7. "batch" \in Table /\ "batchEvidence" \in Table
  BY DEF Table, Keys
<1>8. /\ M.batch = Overwrite(L.batch, Put(c.batch, new))
      /\ M.batchEvidence = Overwrite(L.batchEvidence, Put(c.batch, nextEvidence(L, c)))
  BY <1>6, <1>7 DEF flush
<1>9. /\ DOMAIN L.batch = BatchId /\ L.batch = [i \in BatchId |-> L.batch[i]]
      /\ DOMAIN L.batchEvidence = BatchId
      /\ L.batchEvidence = [i \in BatchId |-> L.batchEvidence[i]]
  BY WorldTyped
<1>10. /\ M.batch = [L.batch EXCEPT ![c.batch] = new]
       /\ M.batchEvidence = [L.batchEvidence EXCEPT ![c.batch] = nextEvidence(L, c)]
  <2> HIDE DEF M
  <2> QED BY <1>8, <1>9 DEF Overwrite, Put
<1> QED BY <1>10 DEF new, plan

\* The batch and its evidence references come and go together: the one record
\* that an operation on an existing batch loads besides the batch is there.
PairedIn(L) == \A b \in BatchId : L.batch[b] = None <=> L.batchEvidence[b] = None

\* An accepted proposal makes a world of a world.
LEMMA InvokeKeepsTypes ==
  ASSUME NEW L, IsWorld(L), PairedIn(L), NEW c \in Command, Accepts(L, c),
         NEW M, M = flush(L, Plan(L, c))
  PROVE  IsWorld(M) /\ PairedIn(M)
<1>1. c.fn \notin {"Bootstrap", "CreateBatch"} => L.batchEvidence[c.batch] # None
  BY AdmittedBatch, CommandTyped DEF PairedIn
<1>2. IsWorld(M)
  BY <1>1, InvokeKeepsWorld
<1>3. CASE c.fn = "Bootstrap"
  <2>1. M.batch = L.batch /\ M.batchEvidence = L.batchEvidence
    BY <1>3 DEF Plan, bootstrap, flush, Table, Keys
  <2> QED BY <1>2, <2>1 DEF PairedIn
<1>4. CASE c.fn # "Bootstrap"
  <2> DEFINE new == [nextBatch(L, c) EXCEPT !.version = version(L, c.batch) + 1]
             refs == nextEvidence(L, c)
  <2>1. /\ M.batch = [L.batch EXCEPT ![c.batch] = new]
        /\ M.batchEvidence = [L.batchEvidence EXCEPT ![c.batch] = refs]
    BY <1>4, BatchFlushed
  <2>2. refs # None
    <3>1. refs \in EvidenceRefs
      BY <1>1, <1>4, NextEvidenceTyped
    <3>2. None \notin EvidenceRefs
      BY EngineAssumption, ValuesOf DEF Table, Keys
    <3> HIDE DEF refs
    <3> QED BY <3>1, <3>2
  <2>3. c.batch \in BatchId /\ new # None
    <3>1. nextBatch(L, c) \in Unversioned /\ version(L, c.batch) + 1 \in 1..MaxVersion
      BY <1>4, NextBatchTyped, AdmittedBatch
    <3>2. new \in Batch
      BY <3>1 DEF Unversioned, Batch
    <3>3. None \notin Batch
      BY EngineAssumption, ValuesOf DEF Table, Keys
    <3> HIDE DEF new
    <3> QED BY <3>2, <3>3, CommandTyped
  <2> HIDE DEF new, refs
  <2>4. /\ M.batchEvidence[c.batch] # None /\ M.batch[c.batch] # None
        /\ \A b \in BatchId \ {c.batch} : /\ M.batch[b] = L.batch[b]
                                         /\ M.batchEvidence[b] = L.batchEvidence[b]
    BY <2>1, <2>2, <2>3, WorldTyped
  <2> QED BY <1>2, <2>4 DEF PairedIn
<1> QED BY <1>3, <1>4

-----------------------------------------------------------------------------
(* The invariant, of one batch b with record r and pending transfer p, and *)
(* of the table T of transfers                                             *)

Waiting    == {"PICKUP_PENDING", "DELIVERY_PENDING"}
AtProducer == {"CREATED", "PICKUP_PENDING"}
AtRetailer == {"RECEIVED", "RETAIL_REPORTED"}

Concerns(T, t, b) == T[t] # None /\ T[t].batch = b

Taken(T, t, b, kind) ==
  Concerns(T, t, b) /\ T[t].status = "ACCEPTED" /\ T[t].kind = kind

\* The pending transfer is the one offer of the batch, on the terms of the batch.
Offering(r, p, T, b) ==
  /\ p # None <=> r.state \in Waiting
  /\ \A t \in TransferId : Concerns(T, t, b) => (T[t].status = "OFFERED" <=> t = p)
  /\ p # None => /\ Concerns(T, p, b)
                 /\ T[p].from = r.custodian
                 /\ r.state = Handoff[T[p].kind].pending
                 /\ T[p].to = Handoff[T[p].kind].recipient
                 /\ T[p].quantity = r.quantity

\* One accepted transfer of each kind that the state says was accepted.
Holding(r, T, b) ==
  /\ \A kind \in DOMAIN Handoff : \A t, u \in TransferId :
       Taken(T, t, b, kind) /\ Taken(T, u, b, kind) => t = u
  /\ (\E t \in TransferId : Taken(T, t, b, "PICKUP")) <=> r.state \notin AtProducer
  /\ (\E t \in TransferId : Taken(T, t, b, "DELIVERY")) <=> r.state \in AtRetailer
  /\ r.custodian = IF r.state \in AtProducer THEN Producer
                   ELSE IF r.state \in AtRetailer THEN Retailer ELSE Logistics
  /\ r.owner = IF r.state \in AtRetailer THEN Retailer ELSE Producer

Unoffered(p, T, b) == p = None /\ \A t \in TransferId : ~Concerns(T, t, b)

Custody(r, p, T, b) ==
  IF r = None THEN Unoffered(p, T, b)
  ELSE Offering(r, p, T, b) /\ Holding(r, T, b)

CustodiedIn(L) ==
  \A b \in BatchId : Custody(L.batch[b], L.pendingTransfer[b], L.transfer, b)

-----------------------------------------------------------------------------
(* How the parts of a step keep it                                         *)

Transferring == [TransferId -> Opt(Transfer)]

\* What does not concern a batch does not change its custody.
LEMMA OthersKeep ==
  ASSUME NEW b, NEW r, NEW p \in Opt(TransferId),
         NEW T \in Transferring, NEW M \in Transferring, Custody(r, p, T, b),
         \A t \in TransferId : Concerns(T, t, b) \/ Concerns(M, t, b) => M[t] = T[t]
  PROVE  Custody(r, p, M, b)
<1>1. \A t \in TransferId : Concerns(M, t, b) <=> Concerns(T, t, b)
  BY DEF Concerns
<1>2. \A t \in TransferId, kind \in DOMAIN Handoff :
        Taken(M, t, b, kind) <=> Taken(T, t, b, kind)
  BY <1>1 DEF Taken
<1>3. CASE r = None
  BY <1>1, <1>3 DEF Custody, Unoffered
<1>4. CASE r # None
  <2>1. Offering(r, p, T, b) /\ Holding(r, T, b)
    BY <1>4 DEF Custody
  <2>2. Offering(r, p, M, b)
    BY <1>1, <2>1 DEF Offering, Opt
  <2>3. Holding(r, M, b)
    BY <1>2, <2>1 DEF Holding, Handoff
  <2> QED BY <1>4, <2>2, <2>3 DEF Custody
<1> QED BY <1>3, <1>4

\* A new batch is the producer's.
LEMMA CreationKeeps ==
  ASSUME NEW b, NEW r, NEW p, NEW T \in Transferring, Custody(None, p, T, b),
         r # None, r.state = "CREATED", r.custodian = Producer, r.owner = Producer
  PROVE  Custody(r, p, T, b)
  BY DEF Custody, Unoffered, Offering, Holding, Taken, Waiting, AtProducer, AtRetailer

\* A record that waits as before, or goes from the shelf to the report, keeps its
\* custody.
LEMMA StayKeeps ==
  ASSUME NEW b, NEW r, NEW s, NEW p, NEW T \in Transferring, Custody(r, p, T, b),
         r # None, s # None,
         s.custodian = r.custodian, s.owner = r.owner, s.quantity = r.quantity,
         \/ s.state = r.state
         \/ r.state = "RECEIVED" /\ s.state = "RETAIL_REPORTED"
  PROVE  Custody(s, p, T, b)
  BY DEF Custody, Offering, Holding, Waiting, AtProducer, AtRetailer, Handoff

\* An offer on the terms of the batch becomes its one offer.
LEMMA OfferKeeps ==
  ASSUME NEW b, NEW r, NEW s, NEW p, NEW T \in Transferring, Custody(r, p, T, b),
         r # None, s # None, NEW kind \in DOMAIN Handoff,
         r.state = Handoff[kind].from, s.state = Handoff[kind].pending,
         s.custodian = r.custodian, s.owner = r.owner, s.quantity = r.quantity,
         NEW x \in TransferId, T[x] = None, p = None, None \notin TransferId,
         NEW new \in Transfer, new # None,
         new.batch = b, new.kind = kind, new.status = "OFFERED",
         new.from = r.custodian, new.to = Handoff[kind].recipient,
         new.quantity = r.quantity
  PROVE  Custody(s, x, [T EXCEPT ![x] = new], b)
<1> DEFINE M == [T EXCEPT ![x] = new]
<1>1. M[x] = new /\ \A t \in TransferId : t # x => M[t] = T[t]
  BY DEF Transferring
<1> HIDE DEF M
<1>2. Offering(r, p, T, b) /\ Holding(r, T, b)
  BY DEF Custody
<1>3. Offering(s, x, M, b)
  <2>1. s.state \in Waiting /\ x # None
    BY DEF Waiting, Handoff
  <2>2. \A t \in TransferId : Concerns(M, t, b) => (M[t].status = "OFFERED" <=> t = x)
    BY <1>1, <1>2 DEF Offering, Concerns
  <2>3. Concerns(M, x, b)
    BY <1>1 DEF Concerns
  <2> QED BY <1>1, <2>1, <2>2, <2>3 DEF Offering
<1>4. \A t \in TransferId, k \in DOMAIN Handoff : Taken(M, t, b, k) <=> Taken(T, t, b, k)
  BY <1>1 DEF Taken, Concerns
<1>5. Holding(s, M, b)
  BY <1>2, <1>4 DEF Holding, AtProducer, AtRetailer, Handoff
<1> QED BY <1>3, <1>5 DEF Custody, M

\* Accepting the offer hands the batch over.
LEMMA AcceptKeeps ==
  ASSUME NEW b, NEW r, NEW s, NEW p \in TransferId, NEW T \in Transferring,
         Custody(r, p, T, b), r # None, s # None, None \notin TransferId,
         NEW kind \in DOMAIN Handoff,
         r.state = Handoff[kind].pending, s.state = Handoff[kind].to,
         s.custodian = Handoff[kind].recipient,
         s.owner = IF kind = "DELIVERY" THEN Retailer ELSE r.owner,
         T[p].kind = kind, NEW new \in Transfer, new # None,
         new.batch = b, new.kind = kind, new.status = "ACCEPTED"
  PROVE  Custody(s, None, [T EXCEPT ![p] = new], b)
<1> DEFINE M == [T EXCEPT ![p] = new]
<1>1. M[p] = new /\ \A t \in TransferId : t # p => M[t] = T[t]
  BY DEF Transferring
<1> HIDE DEF M
<1>2. Offering(r, p, T, b) /\ Holding(r, T, b)
  BY DEF Custody
<1>3. Concerns(T, p, b) /\ T[p].status = "OFFERED"
  BY <1>2 DEF Offering
<1>4. Offering(s, None, M, b)
  <2>1. s.state \notin Waiting
    BY DEF Waiting, Handoff
  <2>2. \A t \in TransferId : Concerns(M, t, b) => M[t].status # "OFFERED"
    BY <1>1, <1>2 DEF Offering, Concerns
  <2> QED BY <2>1, <2>2 DEF Offering
<1>5. \A t \in TransferId, k \in DOMAIN Handoff :
        Taken(M, t, b, k) <=> (Taken(T, t, b, k) \/ (t = p /\ k = kind))
  BY <1>1, <1>3 DEF Taken, Concerns
<1>6. \A t \in TransferId : ~Taken(T, t, b, kind)
  BY <1>2 DEF Holding, AtProducer, AtRetailer, Handoff
<1>7. Holding(s, M, b)
  <2>1. \A k \in DOMAIN Handoff : \A t, u \in TransferId :
          Taken(M, t, b, k) /\ Taken(M, u, b, k) => t = u
    BY <1>2, <1>5, <1>6 DEF Holding
  <2>2. CASE kind = "PICKUP"
    BY <1>2, <1>5, <2>1, <2>2 DEF Holding, AtProducer, AtRetailer, Handoff
  <2>3. CASE kind = "DELIVERY"
    BY <1>2, <1>5, <2>1, <2>3 DEF Holding, AtProducer, AtRetailer, Handoff
  <2> QED BY <2>2, <2>3 DEF Handoff
<1> QED BY <1>4, <1>7 DEF Custody, M

-----------------------------------------------------------------------------
(* A proposal                                                              *)

Offers  == {"OfferPickup", "OfferDelivery"}
Acceptances == {"AcceptPickup", "AcceptDelivery"}

KindOf(fn) == IF fn \in {"OfferPickup", "AcceptPickup"} THEN "PICKUP" ELSE "DELIVERY"

\* The two tables of transfers after a proposal c on L.
Handed(L, c, M) ==
  /\ c.fn \in Offers =>
       /\ M.transfer = [L.transfer EXCEPT ![c.transfer] = offered(L, c, KindOf(c.fn))]
       /\ M.pendingTransfer = [L.pendingTransfer EXCEPT ![c.batch] = c.transfer]
  /\ c.fn \in Acceptances =>
       /\ M.transfer = [L.transfer EXCEPT ![c.transfer] =
            [L.transfer[c.transfer] EXCEPT !.status = "ACCEPTED", !.accept = c.op]]
       /\ M.pendingTransfer = [L.pendingTransfer EXCEPT ![c.batch] = None]
  /\ c.fn \notin Offers \cup Acceptances =>
       M.transfer = L.transfer /\ M.pendingTransfer = L.pendingTransfer

\* A proposal touches the transfers as its function says.
LEMMA TransfersFlushed ==
  ASSUME NEW L, IsWorld(L), NEW c \in Command, c.fn # "Bootstrap",
         NEW M, M = flush(L, Plan(L, c))
  PROVE  Handed(L, c, M)
<1> DEFINE plan == Plan(L, c)
           E == EvidenceWrites(c)
           O == OwnWrites(L, c)
           W == CommonWrites(L, c)
           k == KindOf(c.fn)
           tabs == {"transfer", "pendingTransfer"}
           new == [L.transfer[c.transfer] EXCEPT !.status = "ACCEPTED", !.accept = c.op]
<1>0. M = flush(L, plan)
  OBVIOUS
<1>1. \A t \in tabs : t \notin DOMAIN E /\ t \notin DOMAIN W /\ t \in Table
  BY DEF EvidenceWrites, CommonWrites, Table, Keys
<1>2. plan = (E ++ O) ++ W
  BY DEF Plan
<1>3. L.transfer \in Transferring /\ L.pendingTransfer \in [BatchId -> Opt(TransferId)]
  BY WorldTyped DEF Transferring
<1>4. \A t \in tabs : M[t] = IF t \in DOMAIN O THEN Overwrite(L[t], O[t]) ELSE L[t]
  <2> HIDE DEF E, O, W, plan
  <2> QED BY <1>0, <1>1, <1>2 DEF flush, ++
<1>5. ASSUME c.fn \in Offers
      PROVE  /\ M.transfer = [L.transfer EXCEPT ![c.transfer] = offered(L, c, k)]
             /\ M.pendingTransfer = [L.pendingTransfer EXCEPT ![c.batch] = c.transfer]
  <2>1. /\ tabs \subseteq DOMAIN O
        /\ O.transfer = Put(c.transfer, offered(L, c, k))
        /\ O.pendingTransfer = Put(c.batch, c.transfer)
    <3>1. CASE c.fn = "OfferPickup"
      BY <3>1 DEF OwnWrites, OfferWrites, ++, KindOf
    <3>2. CASE c.fn = "OfferDelivery"
      BY <3>2 DEF OwnWrites, OfferWrites, KindOf
    <3> QED BY <1>5, <3>1, <3>2 DEF Offers
  <2>2. /\ M.transfer = Overwrite(L.transfer, O.transfer)
        /\ M.pendingTransfer = Overwrite(L.pendingTransfer, O.pendingTransfer)
    <3> HIDE DEF O
    <3> QED BY <1>4, <2>1
  <2> HIDE DEF O
  <2> QED BY <1>3, <2>1, <2>2 DEF Overwrite, Put, Transferring
<1>6. ASSUME c.fn \in Acceptances
      PROVE  /\ M.transfer = [L.transfer EXCEPT ![c.transfer] = new]
             /\ M.pendingTransfer = [L.pendingTransfer EXCEPT ![c.batch] = None]
  <2>1. /\ tabs \subseteq DOMAIN O
        /\ O.transfer = Put(c.transfer, new)
        /\ O.pendingTransfer = Put(c.batch, None)
    BY <1>6 DEF OwnWrites, AcceptWrites, AcceptedTransfer, ++, Acceptances
  <2>2. /\ M.transfer = Overwrite(L.transfer, O.transfer)
        /\ M.pendingTransfer = Overwrite(L.pendingTransfer, O.pendingTransfer)
    <3> HIDE DEF O
    <3> QED BY <1>4, <2>1
  <2> HIDE DEF O
  <2> QED BY <1>3, <2>1, <2>2 DEF Overwrite, Put, Transferring
<1>7. ASSUME c.fn \notin Offers \cup Acceptances
      PROVE  M.transfer = L.transfer /\ M.pendingTransfer = L.pendingTransfer
  <2>1. \A t \in tabs : t \notin DOMAIN O
    BY <1>7, CommandTyped DEF OwnWrites, FreightWrites, ReportWrites, EvaluationWrites,
       ReviewWrites, authorize, Offers, Acceptances
  <2> HIDE DEF O
  <2> QED BY <1>4, <2>1
<1> QED BY <1>5, <1>6, <1>7 DEF Handed

\* The record of the batch after a proposal, as far as custody goes.
\* s is the next record r of the batch.
Becomes(fn, r, s) ==
  /\ fn = "CreateBatch" =>
       s.state = "CREATED" /\ s.custodian = Producer /\ s.owner = Producer
  /\ fn # "CreateBatch" => s.quantity = r.quantity
  /\ fn \in Offers =>
       /\ s.state = Handoff[KindOf(fn)].pending
       /\ s.custodian = r.custodian /\ s.owner = r.owner
  /\ fn \in Acceptances =>
       /\ s.state = Handoff[KindOf(fn)].to
       /\ s.custodian = Handoff[KindOf(fn)].recipient
       /\ s.owner = IF KindOf(fn) = "DELIVERY" THEN Retailer ELSE r.owner
  /\ fn \notin Offers \cup Acceptances \cup {"CreateBatch"} =>
       /\ s.custodian = r.custodian /\ s.owner = r.owner
       /\ \/ s.state = r.state
          \/ r.state = "RECEIVED" /\ s.state = "RETAIL_REPORTED"

\* nextBatch changes the holder as the life cycle says.
LEMMA NextHolder ==
  ASSUME NEW L, IsWorld(L), NEW c \in Command, Accepts(L, c), c.fn # "Bootstrap", NEW v
  PROVE  Becomes(c.fn, L.batch[c.batch], [nextBatch(L, c) EXCEPT !.version = v])
<1> DEFINE r == L.batch[c.batch]
           s == [nextBatch(L, c) EXCEPT !.version = v]
<1>1. authorize[c.fn] = <<c.actor, c.role>> /\ c.fn \in DOMAIN authorize
  BY AdmittedBatch, CommandTyped DEF Admitted
<1>2. c.fn # "CreateBatch" => r \in Batch
  BY AdmittedBatch DEF Opt
<1>3. CASE c.fn = "CreateBatch"
  BY <1>1, <1>3 DEF Becomes, nextBatch, newBatch, authorize, Offers, Acceptances
<1>4. CASE c.fn \in Offers
  BY <1>2, <1>4 DEF Becomes, nextBatch, Handoff, KindOf, Offers, Acceptances, Batch
<1>5. CASE c.fn = "AcceptPickup"
  <2>1. c.actor = Logistics
    BY <1>1, <1>5 DEF authorize
  <2>2. s = [received(L, c, "PICKUP") EXCEPT !.version = v]
    BY <1>5 DEF nextBatch
  <2>3. /\ s.state = "IN_TRANSPORT" /\ s.custodian = c.actor
        /\ s.quantity = r.quantity /\ s.owner = r.owner
    BY <1>2, <1>5, <2>2 DEF received, handedOver, Handoff, Batch
  <2>4. KindOf(c.fn) = "PICKUP" /\ c.fn \in Acceptances /\ c.fn \notin Offers
    BY <1>5 DEF KindOf, Acceptances, Offers
  <2>5. Becomes(c.fn, r, s)
    <3> HIDE DEF r, s
    <3> QED BY <1>5, <2>1, <2>3, <2>4 DEF Handoff, Becomes
  <2> QED BY <2>5
<1>6. CASE c.fn = "AcceptDelivery"
  <2>1. c.actor = Retailer
    BY <1>1, <1>6 DEF authorize
  <2>2. s = [received(L, c, "DELIVERY") EXCEPT !.version = v]
    BY <1>6 DEF nextBatch
  <2>3. /\ s.state = "RECEIVED" /\ s.custodian = c.actor
        /\ s.quantity = r.quantity /\ s.owner = c.actor
    BY <1>2, <1>6, <2>2 DEF received, handedOver, Handoff, Batch
  <2>4. KindOf(c.fn) = "DELIVERY" /\ c.fn \in Acceptances /\ c.fn \notin Offers
    BY <1>6 DEF KindOf, Acceptances, Offers
  <2>5. Becomes(c.fn, r, s)
    <3> HIDE DEF r, s
    <3> QED BY <1>6, <2>1, <2>3, <2>4 DEF Handoff, Becomes
  <2> QED BY <2>5
<1>7. CASE c.fn = "ReportRetailPrice"
  BY <1>2, <1>7, AdmittedBatch
     DEF Becomes, nextBatch, Accepts, CanReportRetailPrice, Offers, Acceptances, Batch
<1>8. CASE c.fn \notin Offers \cup Acceptances \cup {"CreateBatch", "ReportRetailPrice"}
  BY <1>2, <1>8 DEF Becomes, nextBatch, Offers, Acceptances, Batch
<1> QED BY <1>3, <1>4, <1>5, <1>6, <1>7, <1>8 DEF Acceptances

\* What an offer was let in for.
LEMMA Offered ==
  ASSUME NEW L, IsWorld(L), NEW c \in Command, Accepts(L, c), c.fn \in Offers
  PROVE  /\ L.batch[c.batch].state = Handoff[KindOf(c.fn)].from
         /\ L.pendingTransfer[c.batch] = None
         /\ L.transfer[c.transfer] = None
         /\ c.actor = L.batch[c.batch].custodian
  BY DEF Accepts, Offers, KindOf, CanOfferPickup, CanOfferDelivery, CanOffer,
         NoPendingTransfer, FreshTransfer

\* What an acceptance was let in for.
LEMMA AcceptedOffer ==
  ASSUME NEW L, IsWorld(L), NEW c \in Command, Accepts(L, c), c.fn \in Acceptances
  PROVE  /\ L.batch[c.batch].state = Handoff[KindOf(c.fn)].pending
         /\ L.pendingTransfer[c.batch] = c.transfer
         /\ L.transfer[c.transfer] # None
         /\ L.transfer[c.transfer].batch = c.batch
         /\ L.transfer[c.transfer].kind = KindOf(c.fn)
  BY DEF Accepts, Acceptances, KindOf, CanAccept, IsPending

\* The new offer is a transfer.
LEMMA OfferTyped ==
  ASSUME NEW L, IsWorld(L), NEW c \in Command, Accepts(L, c), c.fn \in Offers
  PROVE  offered(L, c, KindOf(c.fn)) \in Transfer
<1>1. L.batch[c.batch] \in Batch
  BY AdmittedBatch DEF Opt, Offers
<1>2. KindOf(c.fn) \in DOMAIN Handoff /\ Handoff[KindOf(c.fn)].recipient \in Member
  BY DEF KindOf, Handoff, Member, Logistics, Retailer
<1> QED BY <1>1, <1>2, CommandTyped DEF offered, Transfer, Handoff, Batch, Opt

\* Hence a proposal keeps the custody of every batch.
LEMMA InvokeKeepsCustody ==
  ASSUME NEW L, IsWorld(L), NEW c \in Command, Accepts(L, c), c.fn # "Bootstrap",
         NEW M, IsWorld(M), M = flush(L, Plan(L, c)), CustodiedIn(L)
  PROVE  CustodiedIn(M)
<1> DEFINE new == [nextBatch(L, c) EXCEPT !.version = version(L, c.batch) + 1]
           off == offered(L, c, KindOf(c.fn))
           acc == [L.transfer[c.transfer] EXCEPT !.status = "ACCEPTED", !.accept = c.op]
           r == L.batch[c.batch]
           p == L.pendingTransfer[c.batch]
           T == L.transfer
<1>1. /\ c.batch \in BatchId /\ c.transfer \in TransferId /\ c.fn \in DOMAIN authorize
      /\ c.fn = "CreateBatch" <=> r = None
  BY CommandTyped, AdmittedBatch
<1>2. /\ T \in Transferring /\ M.transfer \in Transferring
      /\ L.batch \in [BatchId -> Opt(Batch)] /\ M.batch \in [BatchId -> Opt(Batch)]
      /\ L.pendingTransfer \in [BatchId -> Opt(TransferId)]
  BY WorldTyped DEF Transferring
<1>3. None \notin TransferId /\ None \notin Transfer /\ None \notin Batch
  BY EngineAssumption, ValuesOf DEF Table, Keys
<1>4. M.batch = [L.batch EXCEPT ![c.batch] = new]
  BY BatchFlushed
<1>5. M.batch[c.batch] = new /\ \A b \in BatchId \ {c.batch} : M.batch[b] = L.batch[b]
  <2> HIDE DEF new
  <2> QED BY <1>1, <1>2, <1>4
<1>6. new # None
  <2>1. nextBatch(L, c) \in Unversioned /\ version(L, c.batch) + 1 \in 1..MaxVersion
    BY NextBatchTyped, AdmittedBatch
  <2>2. new \in Batch
    BY <2>1 DEF Unversioned, Batch
  <2> QED BY <1>3, <2>2
<1>0. Becomes(c.fn, r, new) /\ Handed(L, c, M)
  BY NextHolder, TransfersFlushed
<1>7. Custody(r, p, T, c.batch)
  BY <1>1 DEF CustodiedIn
<1>8. CASE c.fn \in Offers
  <2>1. /\ M.transfer = [T EXCEPT ![c.transfer] = off]
        /\ M.pendingTransfer = [L.pendingTransfer EXCEPT ![c.batch] = c.transfer]
    BY <1>0, <1>8 DEF Handed
  <2>2. Custody(new, c.transfer, M.transfer, c.batch)
    <3>1. off \in Transfer
      BY <1>1, <1>2, CommandTyped, OfferTyped, <1>8
    <3>2. /\ off.batch = c.batch /\ off.kind = KindOf(c.fn) /\ off.status = "OFFERED"
          /\ off.from = c.actor /\ off.to = Handoff[KindOf(c.fn)].recipient
          /\ off.quantity = r.quantity
      BY DEF offered
    <3> HIDE DEF new
    <3>3. /\ new.state = Handoff[KindOf(c.fn)].pending
          /\ new.custodian = r.custodian /\ new.owner = r.owner /\ new.quantity = r.quantity
      BY <1>0, <1>8 DEF Becomes, Offers
    <3>4. KindOf(c.fn) \in DOMAIN Handoff /\ r # None
      BY <1>1, <1>8 DEF KindOf, Handoff, Offers
    <3> HIDE DEF off
    <3> QED BY <1>1, <1>2, <1>3, <1>6, <1>7, <1>8, <2>1, <3>1, <3>2, <3>3, <3>4,
               Offered, OfferKeeps, SMTT(30)
  <2>3. ASSUME NEW b \in BatchId \ {c.batch}
        PROVE  Custody(M.batch[b], M.pendingTransfer[b], M.transfer, b)
    <3>1. \A t \in TransferId : Concerns(T, t, b) \/ Concerns(M.transfer, t, b) =>
                                  M.transfer[t] = T[t]
      <4>1. T[c.transfer] = None /\ off.batch = c.batch
        BY <1>8, Offered DEF offered
      <4> HIDE DEF off
      <4> QED BY <1>1, <1>2, <2>1, <4>1 DEF Concerns, Transferring
    <3> HIDE DEF off, new
    <3>2. M.pendingTransfer[b] = L.pendingTransfer[b] /\ M.batch[b] = L.batch[b]
      BY <1>2, <1>5, <2>1
    <3>3. L.pendingTransfer[b] \in Opt(TransferId)
      BY <1>2
    <3> QED BY <1>2, <3>1, <3>2, <3>3, OthersKeep DEF CustodiedIn
  <2> HIDE DEF off, new
  <2>4. M.pendingTransfer[c.batch] = c.transfer
    BY <1>1, <1>2, <2>1
  <2> QED BY <1>5, <2>2, <2>3, <2>4 DEF CustodiedIn
<1>9. CASE c.fn \in Acceptances
  <2>1. /\ M.transfer = [T EXCEPT ![c.transfer] = acc]
        /\ M.pendingTransfer = [L.pendingTransfer EXCEPT ![c.batch] = None]
    BY <1>0, <1>9 DEF Handed
  <2>0. /\ T[c.transfer] \in Transfer /\ T[c.transfer].batch = c.batch
        /\ T[c.transfer].kind = KindOf(c.fn) /\ p = c.transfer
        /\ r.state = Handoff[KindOf(c.fn)].pending
    BY <1>1, <1>2, <1>9, AcceptedOffer DEF Opt, Transferring
  <2>2. /\ acc \in Transfer /\ acc.batch = c.batch /\ acc.kind = KindOf(c.fn)
        /\ acc.status = "ACCEPTED"
    BY <2>0, CommandTyped DEF Transfer, Opt
  <2>3. Custody(new, None, M.transfer, c.batch)
    <3> HIDE DEF new
    <3>1. /\ new.state = Handoff[KindOf(c.fn)].to
          /\ new.custodian = Handoff[KindOf(c.fn)].recipient
          /\ new.owner = IF KindOf(c.fn) = "DELIVERY" THEN Retailer ELSE r.owner
      BY <1>0, <1>9 DEF Becomes
    <3>2. KindOf(c.fn) \in DOMAIN Handoff /\ r # None
      BY <1>1, <1>9 DEF KindOf, Handoff, Acceptances
    <3> HIDE DEF acc
    <3> QED BY <1>1, <1>2, <1>3, <1>6, <1>7, <1>9, <2>0, <2>1, <2>2, <3>1, <3>2, AcceptKeeps
  <2>4. ASSUME NEW b \in BatchId \ {c.batch}
        PROVE  Custody(M.batch[b], M.pendingTransfer[b], M.transfer, b)
    <3> HIDE DEF acc, new
    <3>1. \A t \in TransferId : Concerns(T, t, b) \/ Concerns(M.transfer, t, b) =>
                                  M.transfer[t] = T[t]
      BY <1>1, <1>2, <2>0, <2>1, <2>2 DEF Concerns, Transferring
    <3>2. M.pendingTransfer[b] = L.pendingTransfer[b] /\ M.batch[b] = L.batch[b]
      BY <1>2, <1>5, <2>1
    <3>3. L.pendingTransfer[b] \in Opt(TransferId)
      BY <1>2
    <3> QED BY <1>2, <3>1, <3>2, <3>3, OthersKeep DEF CustodiedIn
  <2> HIDE DEF acc, new
  <2>5. M.pendingTransfer[c.batch] = None
    BY <1>1, <1>2, <2>1
  <2> QED BY <1>5, <2>3, <2>4, <2>5 DEF CustodiedIn
<1>10. CASE c.fn \notin Offers \cup Acceptances
  <2>1. M.transfer = T /\ M.pendingTransfer = L.pendingTransfer
    BY <1>0, <1>10 DEF Handed
  <2>2. Custody(new, p, T, c.batch)
    <3>1. CASE c.fn = "CreateBatch"
      <4> HIDE DEF new
      <4>1. new.state = "CREATED" /\ new.custodian = Producer /\ new.owner = Producer
        BY <1>0, <3>1 DEF Becomes
      <4> QED BY <1>1, <1>2, <1>6, <1>7, <3>1, <4>1, CreationKeeps
    <3>2. CASE c.fn # "CreateBatch"
      <4> HIDE DEF new
      <4>1. /\ new.custodian = r.custodian /\ new.owner = r.owner
            /\ new.quantity = r.quantity
            /\ \/ new.state = r.state
               \/ r.state = "RECEIVED" /\ new.state = "RETAIL_REPORTED"
        BY <1>0, <1>10, <3>2 DEF Becomes
      <4> QED BY <1>1, <1>2, <1>6, <1>7, <3>2, <4>1, StayKeeps
    <3> QED BY <3>1, <3>2
  <2> HIDE DEF new
  <2> QED BY <1>5, <2>1, <2>2 DEF CustodiedIn
<1> QED BY <1>8, <1>9, <1>10

-----------------------------------------------------------------------------
(* What a proposal leaves in each table                                    *)

\* The tables that WorldTyped does not name.
LEMMA RecordsTyped ==
  ASSUME NEW L, IsWorld(L)
  PROVE  /\ L.policy            \in [PolicyId -> Opt(0..MaxThreshold)]
         /\ L.sourceKey         \in [SourceKey -> Opt(System)]
         /\ L.operation         \in [OpKey -> Opt(Receipt)]
         /\ L.history           \in [BatchId \X (1..MaxVersion) -> Opt(Receipt)]
         /\ L.owner             \in [Member \X BatchId -> Opt(BatchId)]
         /\ L.state             \in [State \X BatchId -> Opt(BatchId)]
         /\ L.documentReference \in [DocId -> Opt(Use)]
         /\ L.document          \in [DocId -> Opt([batch : BatchId, op : OpId, type : DocType])]
         /\ L.sourceUse         \in [Issuer \X DocId -> Opt(Use)]
         /\ L.nonceUse          \in [Issuer \X Nonce -> Opt(Use)]
         /\ L.costReference     \in [CostId -> Opt(BatchId)]
         /\ L.reportReference   \in [ReportId -> Opt(BatchId)]
         /\ L.lot               \in [LotId -> Opt(Lot)]
         /\ L.evaluation        \in [BatchId -> Opt(Evaluation)]
         /\ L.anomalyReference  \in [AnomalyId -> Opt(Evaluation)]
         /\ L.reviewActionReference \in [AnomalyId \X OpId -> Opt(OpId)]
         /\ L.freightOpening    \in [DocId -> Opt([quantity : Quantity, total : Total])]
         /\ L.reviewAction      \in [AnomalyId \X OpId -> Opt(ReviewAction)]
<1>1. \A t \in Table : L[t] \in [Keys[t] -> Opt(Values[t])]
  BY DEF IsWorld
<1>2. /\ L.policy            \in [PolicyId -> Opt(0..MaxThreshold)]
      /\ L.sourceKey         \in [SourceKey -> Opt(System)]
      /\ L.operation         \in [OpKey -> Opt(Receipt)]
      /\ L.history           \in [BatchId \X (1..MaxVersion) -> Opt(Receipt)]
      /\ L.owner             \in [Member \X BatchId -> Opt(BatchId)]
      /\ L.state             \in [State \X BatchId -> Opt(BatchId)]
  BY <1>1, ValuesOf, ZenonT(60) DEF Table, Keys
<1>3. /\ L.documentReference \in [DocId -> Opt(Use)]
      /\ L.document          \in [DocId -> Opt([batch : BatchId, op : OpId, type : DocType])]
      /\ L.sourceUse         \in [Issuer \X DocId -> Opt(Use)]
      /\ L.nonceUse          \in [Issuer \X Nonce -> Opt(Use)]
      /\ L.costReference     \in [CostId -> Opt(BatchId)]
      /\ L.reportReference   \in [ReportId -> Opt(BatchId)]
  BY <1>1, ValuesOf, ZenonT(60) DEF Table, Keys
<1>4. /\ L.lot               \in [LotId -> Opt(Lot)]
      /\ L.evaluation        \in [BatchId -> Opt(Evaluation)]
      /\ L.anomalyReference  \in [AnomalyId -> Opt(Evaluation)]
      /\ L.reviewActionReference \in [AnomalyId \X OpId -> Opt(OpId)]
      /\ L.freightOpening    \in [DocId -> Opt([quantity : Quantity, total : Total])]
      /\ L.reviewAction      \in [AnomalyId \X OpId -> Opt(ReviewAction)]
  BY <1>1, ValuesOf, ZenonT(60) DEF Table, Keys
<1> QED BY <1>2, <1>3, <1>4

EvidenceTables == {"document", "sourceUse", "nonceUse"}
CommonTables   == {"batch", "batchEvidence", "operation", "history", "owner", "state"}
OwnTables      == Table \ (EvidenceTables \cup CommonTables)

\* The three parts of a mutation's plan write different tables.
Flushed(L, c, M) ==
  /\ \A t \in EvidenceTables : M[t] = Overwrite(L[t], EvidenceWrites(c)[t])
  /\ \A t \in CommonTables : M[t] = Overwrite(L[t], CommonWrites(L, c)[t])
  /\ \A t \in OwnTables : M[t] = IF t \in DOMAIN OwnWrites(L, c)
                                 THEN Overwrite(L[t], OwnWrites(L, c)[t])
                                 ELSE L[t]

\* No two parts of a plan write to the same table.
LEMMA PlanFlushed ==
  ASSUME NEW L, NEW c \in Command, c.fn # "Bootstrap", NEW M, M = flush(L, Plan(L, c))
  PROVE  Flushed(L, c, M)
<1> DEFINE plan == Plan(L, c)
           E == EvidenceWrites(c)
           O == OwnWrites(L, c)
           W == CommonWrites(L, c)
<1>1. DOMAIN E = EvidenceTables /\ DOMAIN W = CommonTables
  BY DEF EvidenceWrites, CommonWrites, EvidenceTables, CommonTables
<1>2. \A t \in EvidenceTables \cup CommonTables : t \notin DOMAIN O
  BY CommandTyped DEF OwnWrites, OfferWrites, AcceptWrites, AcceptedTransfer,
     FreightWrites, ReportWrites, EvaluationWrites, ReviewWrites, ++, authorize,
     EvidenceTables, CommonTables
<1>3. EvidenceTables \cup CommonTables \subseteq Table
  BY DEF EvidenceTables, CommonTables, Table, Keys
<1>4. EvidenceTables \cap CommonTables = {}
  BY DEF EvidenceTables, CommonTables
<1>5. plan = (E ++ O) ++ W
  BY DEF Plan
<1>6. M = flush(L, plan)
  OBVIOUS
<1> HIDE DEF E, O, W, plan
<1>7. DOMAIN plan = EvidenceTables \cup DOMAIN O \cup CommonTables
  BY <1>1, <1>5 DEF ++
<1>8. /\ \A t \in EvidenceTables : plan[t] = E[t]
      /\ \A t \in CommonTables : plan[t] = W[t]
      /\ \A t \in DOMAIN O : t \notin CommonTables /\ plan[t] = O[t]
  BY <1>1, <1>2, <1>4, <1>5 DEF ++
<1>9. /\ \A t \in EvidenceTables : M[t] = Overwrite(L[t], E[t])
      /\ \A t \in CommonTables : M[t] = Overwrite(L[t], W[t])
  BY <1>3, <1>6, <1>7, <1>8 DEF flush
<1>10. \A t \in OwnTables : M[t] = IF t \in DOMAIN O THEN Overwrite(L[t], O[t]) ELSE L[t]
  BY <1>6, <1>7, <1>8 DEF flush, OwnTables
<1> QED BY <1>9, <1>10 DEF Flushed, E, O, W

receipt(L, c) ==
  [op |-> c.op, batch |-> c.batch, fn |-> c.fn, actor |-> c.actor,
   version |-> version(L, c.batch) + 1]

\* Every mutation leaves its receipt twice.
Receipted(L, c, M) ==
  /\ M.operation = [L.operation EXCEPT ![<<c.actor, c.op>>] = receipt(L, c)]
  /\ M.history = [L.history EXCEPT ![<<c.batch, receipt(L, c).version>>] = receipt(L, c)]

\* The receipt is written under its operation and in the history.
LEMMA ReceiptFlushed ==
  ASSUME NEW L, IsWorld(L), NEW c \in Command, c.fn # "Bootstrap", Accepts(L, c),
         NEW M, M = flush(L, Plan(L, c))
  PROVE  Receipted(L, c, M)
<1>1. "operation" \in CommonTables /\ "history" \in CommonTables
  BY DEF CommonTables
<1>2. /\ M.operation = Overwrite(L.operation, CommonWrites(L, c).operation)
      /\ M.history = Overwrite(L.history, CommonWrites(L, c).history)
  <2>1. Flushed(L, c, M)
    BY PlanFlushed
  <2> QED BY <1>1, <2>1, Zenon DEF Flushed
<1>3. /\ CommonWrites(L, c).operation = Put(<<c.actor, c.op>>, receipt(L, c))
      /\ CommonWrites(L, c).history = Put(<<c.batch, receipt(L, c).version>>, receipt(L, c))
  BY DEF CommonWrites, receipt
<1>4. /\ <<c.actor, c.op>> \in OpKey
      /\ <<c.batch, receipt(L, c).version>> \in BatchId \X (1..MaxVersion)
  BY CommandTyped, AdmittedBatch DEF OpKey, receipt
<1>5. /\ L.operation \in [OpKey -> Opt(Receipt)]
      /\ L.history \in [BatchId \X (1..MaxVersion) -> Opt(Receipt)]
  BY RecordsTyped
<1>6. M.operation = [L.operation EXCEPT ![<<c.actor, c.op>>] = receipt(L, c)]
  <2>1. Overwrite(L.operation, Put(<<c.actor, c.op>>, receipt(L, c)))
          = [L.operation EXCEPT ![<<c.actor, c.op>>] = receipt(L, c)]
    BY <1>4, <1>5 DEF Overwrite, Put
  <2> QED BY <1>2, <1>3, <2>1
<1>7. M.history = [L.history EXCEPT ![<<c.batch, receipt(L, c).version>>] = receipt(L, c)]
  <2>1. Overwrite(L.history, Put(<<c.batch, receipt(L, c).version>>, receipt(L, c)))
          = [L.history EXCEPT ![<<c.batch, receipt(L, c).version>>] = receipt(L, c)]
    BY <1>4, <1>5 DEF Overwrite, Put
  <2> QED BY <1>2, <1>3, <2>1
<1> QED BY <1>6, <1>7 DEF Receipted

\* The index tables follow the batch's owner and state.
IndexEntry(T, M, b, old, new, absent) ==
  \A x, o : <<x, o>> \in DOMAIN T =>
    M[<<x, o>>] = IF o # b THEN T[<<x, o>>]
                  ELSE IF x = new THEN b
                  ELSE IF ~absent /\ x = old THEN None
                  ELSE T[<<x, o>>]

Indexed(L, c, M) ==
  LET r == L.batch[c.batch]
      s == nextBatch(L, c)
  IN  /\ DOMAIN M.owner = DOMAIN L.owner /\ DOMAIN M.state = DOMAIN L.state
      /\ IndexEntry(L.owner, M.owner, c.batch, r.owner, s.owner, r = None)
      /\ IndexEntry(L.state, M.state, c.batch, r.state, s.state, r = None)

\* The two indexes follow the batch.
LEMMA IndexFlushed ==
  ASSUME NEW L, IsWorld(L), NEW c \in Command, c.fn # "Bootstrap", Accepts(L, c),
         NEW M, M = flush(L, Plan(L, c))
  PROVE  Indexed(L, c, M)
<1> DEFINE r == L.batch[c.batch]
           s == nextBatch(L, c)
           writes(new, old) ==
             IF r = None THEN Put(<<new, c.batch>>, c.batch)
             ELSE IndexWrites(new, old, c.batch)
<1>1. "owner" \in CommonTables /\ "state" \in CommonTables
  BY DEF CommonTables
<1>2. /\ M.owner = Overwrite(L.owner, CommonWrites(L, c).owner)
      /\ M.state = Overwrite(L.state, CommonWrites(L, c).state)
  <2>1. Flushed(L, c, M)
    BY PlanFlushed
  <2> QED BY <1>1, <2>1, Zenon DEF Flushed
<1>3. /\ CommonWrites(L, c).owner = writes(s.owner, r.owner)
      /\ CommonWrites(L, c).state = writes(s.state, r.state)
  BY DEF CommonWrites
<1>4. ASSUME NEW T, NEW new, NEW old
      PROVE  /\ DOMAIN Overwrite(T, writes(new, old)) = DOMAIN T
             /\ IndexEntry(T, Overwrite(T, writes(new, old)), c.batch, old, new, r = None)
  <2>1. DOMAIN Overwrite(T, writes(new, old)) = DOMAIN T
    BY DEF Overwrite
  <2>2. CASE r = None
    BY <2>2 DEF Overwrite, Put, IndexEntry
  <2>3. CASE r # None
    BY <2>3 DEF Overwrite, Put, IndexWrites, IndexPut, ++, IndexEntry
  <2> QED BY <2>1, <2>2, <2>3
<1> HIDE DEF writes, r, s
<1> QED BY <1>2, <1>3, <1>4 DEF Indexed, r, s

\* The public record of the documents a proposal carried.
Ids(c) == {d.id : d \in c.docs}

Documented(L, c, M) ==
  /\ M.document = Overwrite(L.document,
       [i \in Ids(c) |-> [batch |-> c.batch, op |-> c.op,
                          type |-> (CHOOSE d \in c.docs : d.id = i).type]])
  /\ M.sourceUse = Overwrite(L.sourceUse, [u \in Uses(c) |-> use(c)])
  /\ M.nonceUse = Overwrite(L.nonceUse, [n \in Nonces(c) |-> use(c)])
  /\ M.documentReference = IF c.fn \in {"CreateBatch", "OfferPickup"}
                           THEN Overwrite(L.documentReference, [i \in Ids(c) |-> use(c)])
                           ELSE L.documentReference
  /\ M.tradeOpening = IF c.fn = "OfferPickup"
                      THEN [L.tradeOpening EXCEPT ![Doc(c, "PURCHASE_INVOICE").id] =
                              Opening(Doc(c, "PURCHASE_INVOICE"))]
                      ELSE L.tradeOpening

\* The tables of the evidence after a mutation.
LEMMA DocumentFlushed ==
  ASSUME NEW L, IsWorld(L), NEW c \in Command, c.fn # "Bootstrap", Accepts(L, c),
         NEW M, M = flush(L, Plan(L, c))
  PROVE  Documented(L, c, M)
<1> DEFINE O == OwnWrites(L, c)
           buy == Doc(c, "PURCHASE_INVOICE")
<1>1. Flushed(L, c, M)
  BY PlanFlushed
<1>2. /\ M.document = Overwrite(L.document, EvidenceWrites(c).document)
      /\ M.sourceUse = Overwrite(L.sourceUse, EvidenceWrites(c).sourceUse)
      /\ M.nonceUse = Overwrite(L.nonceUse, EvidenceWrites(c).nonceUse)
  <2>1. {"document", "sourceUse", "nonceUse"} = EvidenceTables
    BY DEF EvidenceTables
  <2> QED BY <1>1, <2>1, Zenon DEF Flushed
<1>3. /\ EvidenceWrites(c).document =
           [i \in Ids(c) |-> [batch |-> c.batch, op |-> c.op,
                              type |-> (CHOOSE d \in c.docs : d.id = i).type]]
      /\ EvidenceWrites(c).sourceUse = [u \in Uses(c) |-> use(c)]
      /\ EvidenceWrites(c).nonceUse = [n \in Nonces(c) |-> use(c)]
  BY DEF EvidenceWrites, Ids
<1>4. \A t \in {"documentReference", "tradeOpening"} :
        M[t] = IF t \in DOMAIN O THEN Overwrite(L[t], O[t]) ELSE L[t]
  <2>1. {"documentReference", "tradeOpening"} \subseteq OwnTables
    BY DEF OwnTables, EvidenceTables, CommonTables, Table, Keys
  <2> QED BY <1>1, <2>1, Zenon DEF Flushed
<1>5. consumed(c) = [i \in Ids(c) |-> use(c)]
  BY DEF consumed, Ids
<1>6. CASE c.fn = "CreateBatch"
  <2>1. /\ "documentReference" \in DOMAIN O /\ O.documentReference = consumed(c)
        /\ "tradeOpening" \notin DOMAIN O
    BY <1>6 DEF OwnWrites
  <2>2. /\ M.documentReference = Overwrite(L.documentReference, consumed(c))
        /\ M.tradeOpening = L.tradeOpening
    BY <1>4, <2>1
  <2> QED BY <1>2, <1>3, <1>5, <1>6, <2>2 DEF Documented
<1>7. CASE c.fn = "OfferPickup"
  <2>1. /\ "documentReference" \in DOMAIN O /\ O.documentReference = consumed(c)
        /\ "tradeOpening" \in DOMAIN O /\ O.tradeOpening = Put(buy.id, Opening(buy))
    BY <1>7 DEF OwnWrites, OfferWrites, ++
  <2> HIDE DEF O, buy
  <2>2. /\ M.documentReference = Overwrite(L.documentReference, consumed(c))
        /\ M.tradeOpening = Overwrite(L.tradeOpening, Put(buy.id, Opening(buy)))
    BY <1>4, <2>1
  <2>3. L.tradeOpening \in [DocId -> Opt(Purchase)]
    BY WorldTyped
  <2>4. M.tradeOpening = [L.tradeOpening EXCEPT ![buy.id] = Opening(buy)]
    BY <2>2, <2>3 DEF Overwrite, Put
  <2> QED BY <1>2, <1>3, <1>5, <1>7, <2>2, <2>4 DEF Documented, buy
<1>8. CASE c.fn \notin {"CreateBatch", "OfferPickup"}
  <2>1. "documentReference" \notin DOMAIN O /\ "tradeOpening" \notin DOMAIN O
    BY <1>8, CommandTyped
    DEF OwnWrites, OfferWrites, AcceptWrites, AcceptedTransfer, FreightWrites,
        ReportWrites, EvaluationWrites, ReviewWrites, ++, authorize
  <2>2. M.documentReference = L.documentReference /\ M.tradeOpening = L.tradeOpening
    BY <1>4, <2>1
  <2> QED BY <1>2, <1>3, <1>8, <2>2 DEF Documented
<1> QED BY <1>6, <1>7, <1>8

\* The configuration is Bootstrap's.
Unconfigured(L, M) ==
  M.configuration = L.configuration /\ M.policy = L.policy /\ M.sourceKey = L.sourceKey

\* The freight cost, public and private.
Costed(L, c, M) ==
  LET d == Doc(c, "FREIGHT_INVOICE")
  IN  IF c.fn = "RecordFreightCost"
      THEN /\ M.costReference = [L.costReference EXCEPT ![c.cost] = c.batch]
           /\ M.cost = [L.cost EXCEPT ![c.cost] =
                [batch |-> c.batch, total |-> d.total, quantity |-> d.quantity, doc |-> d.id]]
           /\ M.freightOpening = [L.freightOpening EXCEPT ![d.id] =
                [quantity |-> d.quantity, total |-> d.total]]
      ELSE /\ M.costReference = L.costReference /\ M.cost = L.cost
           /\ M.freightOpening = L.freightOpening

\* The retail report and its lot.
Reported(L, c, M) ==
  LET b    == L.batch[c.batch]
      refs == L.batchEvidence[c.batch]
  IN  IF c.fn = "ReportRetailPrice"
      THEN /\ M.lot = [L.lot EXCEPT ![c.lot] =
                [batch |-> c.batch, report |-> c.report, quantity |-> b.quantity]]
           /\ M.reportReference = [L.reportReference EXCEPT ![c.report] = c.batch]
           /\ M.report = [L.report EXCEPT ![c.report] =
                [batch |-> c.batch, lot |-> c.lot, quantity |-> b.quantity,
                 price |-> c.price, purchase |-> refs.purchase,
                 cost |-> refs.freight, policy |-> c.policy]]
      ELSE M.lot = L.lot /\ M.reportReference = L.reportReference /\ M.report = L.report

\* The evaluation, and what an evaluation or a review makes of the anomaly.
scored(L, c) == EvaluationWrites(L, c).anomaly[c.anomaly]

Scored(L, c, M) ==
  LET ref == [batch |-> c.batch, report |-> c.report, anomaly |-> c.anomaly]
  IN  IF c.fn = "EvaluatePrice"
      THEN /\ M.evaluation = [L.evaluation EXCEPT ![c.batch] = ref]
           /\ M.anomalyReference = [L.anomalyReference EXCEPT ![c.anomaly] = ref]
           /\ M.anomaly = [L.anomaly EXCEPT ![c.anomaly] = scored(L, c)]
      ELSE M.evaluation = L.evaluation /\ M.anomalyReference = L.anomalyReference

Reviews == {"OpenReview", "ResolveReview"}
ActionOf(fn) == IF fn = "OpenReview" THEN "OPEN_REVIEW" ELSE "RESOLVE_REVIEW"

Reviewed(L, c, M) ==
  LET k == <<c.anomaly, c.op>>
  IN  IF c.fn \in Reviews
      THEN /\ M.reviewActionReference = [L.reviewActionReference EXCEPT ![k] = c.op]
           /\ M.reviewAction = [L.reviewAction EXCEPT ![k] =
                [action |-> ActionOf(c.fn), outcome |-> c.outcome]]
           /\ M.anomaly = [L.anomaly EXCEPT ![c.anomaly] =
                [L.anomaly[c.anomaly] EXCEPT !.review = Review[ActionOf(c.fn)].to]]
      ELSE /\ M.reviewActionReference = L.reviewActionReference
           /\ M.reviewAction = L.reviewAction
           /\ c.fn # "EvaluatePrice" => M.anomaly = L.anomaly

\* The tables that only some mutations write.
LEMMA OwnFlushed ==
  ASSUME NEW L, IsWorld(L), NEW c \in Command, c.fn # "Bootstrap", Accepts(L, c),
         NEW M, M = flush(L, Plan(L, c))
  PROVE  Unconfigured(L, M) /\ Costed(L, c, M) /\ Reported(L, c, M)
         /\ Scored(L, c, M) /\ Reviewed(L, c, M)
<1> DEFINE O == OwnWrites(L, c)
           tabs == {"configuration", "policy", "sourceKey", "costReference", "cost",
                    "freightOpening", "lot", "reportReference", "report", "evaluation",
                    "anomalyReference", "anomaly", "reviewActionReference", "reviewAction"}
<1>1. \A t \in tabs : M[t] = IF t \in DOMAIN O THEN Overwrite(L[t], O[t]) ELSE L[t]
  <2>1. tabs \subseteq OwnTables
    BY DEF OwnTables, EvidenceTables, CommonTables, Table, Keys
  <2>2. Flushed(L, c, M)
    BY PlanFlushed
  <2> QED BY <2>1, <2>2, Zenon DEF Flushed
<1>2. /\ L.costReference \in [CostId -> Opt(BatchId)]
      /\ L.cost \in [CostId -> Opt(Cost)]
      /\ L.freightOpening \in [DocId -> Opt([quantity : Quantity, total : Total])]
      /\ L.lot \in [LotId -> Opt(Lot)]
      /\ L.reportReference \in [ReportId -> Opt(BatchId)]
      /\ L.report \in [ReportId -> Opt(Report)]
  BY RecordsTyped, WorldTyped
<1>3. /\ L.evaluation \in [BatchId -> Opt(Evaluation)]
      /\ L.anomalyReference \in [AnomalyId -> Opt(Evaluation)]
      /\ L.anomaly \in [AnomalyId -> Opt(Anomaly)]
      /\ L.reviewActionReference \in [AnomalyId \X OpId -> Opt(OpId)]
      /\ L.reviewAction \in [AnomalyId \X OpId -> Opt(ReviewAction)]
  BY RecordsTyped, WorldTyped
<1>4. CASE c.fn = "RecordFreightCost"
  <2> DEFINE d == Doc(c, "FREIGHT_INVOICE")
             cost == [batch |-> c.batch, total |-> d.total, quantity |-> d.quantity,
                      doc |-> d.id]
             opening == [quantity |-> d.quantity, total |-> d.total]
  <2>1. /\ DOMAIN O = {"costReference", "cost", "freightOpening"}
        /\ O.costReference = Put(c.cost, c.batch) /\ O.cost = Put(c.cost, cost)
        /\ O.freightOpening = Put(d.id, opening)
    BY <1>4 DEF OwnWrites, FreightWrites
  <2> HIDE DEF O, d, cost, opening
  <2>2. /\ M.costReference = Overwrite(L.costReference, Put(c.cost, c.batch))
        /\ M.cost = Overwrite(L.cost, Put(c.cost, cost))
        /\ M.freightOpening = Overwrite(L.freightOpening, Put(d.id, opening))
    BY <1>1, <2>1
  <2>3. /\ M.costReference = [L.costReference EXCEPT ![c.cost] = c.batch]
        /\ M.cost = [L.cost EXCEPT ![c.cost] = cost]
        /\ M.freightOpening = [L.freightOpening EXCEPT ![d.id] = opening]
    BY <1>2, <2>2 DEF Overwrite, Put
  <2>4. \A t \in tabs \ {"costReference", "cost", "freightOpening"} : M[t] = L[t]
    BY <1>1, <2>1
  <2> QED BY <1>4, <2>3, <2>4
          DEF Unconfigured, Costed, Reported, Scored, Reviewed, Reviews, d, cost, opening
<1>5. CASE c.fn = "ReportRetailPrice"
  <2> DEFINE b == L.batch[c.batch]
             refs == L.batchEvidence[c.batch]
             lot == [batch |-> c.batch, report |-> c.report, quantity |-> b.quantity]
             report == [batch |-> c.batch, lot |-> c.lot, quantity |-> b.quantity,
                        price |-> c.price, purchase |-> refs.purchase,
                        cost |-> refs.freight, policy |-> c.policy]
  <2>1. /\ DOMAIN O = {"lot", "reportReference", "report"}
        /\ O.lot = Put(c.lot, lot) /\ O.reportReference = Put(c.report, c.batch)
        /\ O.report = Put(c.report, report)
    BY <1>5 DEF OwnWrites, ReportWrites
  <2> HIDE DEF O, b, refs, lot, report
  <2>2. /\ M.lot = Overwrite(L.lot, Put(c.lot, lot))
        /\ M.reportReference = Overwrite(L.reportReference, Put(c.report, c.batch))
        /\ M.report = Overwrite(L.report, Put(c.report, report))
    BY <1>1, <2>1
  <2>3. /\ M.lot = [L.lot EXCEPT ![c.lot] = lot]
        /\ M.reportReference = [L.reportReference EXCEPT ![c.report] = c.batch]
        /\ M.report = [L.report EXCEPT ![c.report] = report]
    BY <1>2, <2>2 DEF Overwrite, Put
  <2>4. \A t \in tabs \ {"lot", "reportReference", "report"} : M[t] = L[t]
    BY <1>1, <2>1
  <2> QED BY <1>5, <2>3, <2>4
          DEF Unconfigured, Costed, Reported, Scored, Reviewed, Reviews, b, refs, lot, report
<1>6. CASE c.fn = "EvaluatePrice"
  <2> DEFINE ref == [batch |-> c.batch, report |-> c.report, anomaly |-> c.anomaly]
  <2>1. /\ DOMAIN O = {"evaluation", "anomalyReference", "anomaly"}
        /\ O.evaluation = Put(c.batch, ref) /\ O.anomalyReference = Put(c.anomaly, ref)
        /\ O.anomaly = Put(c.anomaly, scored(L, c))
    BY <1>6 DEF OwnWrites, EvaluationWrites, scored, Put
  <2> HIDE DEF O, ref
  <2>2. /\ M.evaluation = Overwrite(L.evaluation, Put(c.batch, ref))
        /\ M.anomalyReference = Overwrite(L.anomalyReference, Put(c.anomaly, ref))
        /\ M.anomaly = Overwrite(L.anomaly, Put(c.anomaly, scored(L, c)))
    BY <1>1, <2>1
  <2>3. /\ M.evaluation = [L.evaluation EXCEPT ![c.batch] = ref]
        /\ M.anomalyReference = [L.anomalyReference EXCEPT ![c.anomaly] = ref]
        /\ M.anomaly = [L.anomaly EXCEPT ![c.anomaly] = scored(L, c)]
    BY <1>3, <2>2 DEF Overwrite, Put
  <2>4. \A t \in tabs \ {"evaluation", "anomalyReference", "anomaly"} : M[t] = L[t]
    BY <1>1, <2>1
  <2> QED BY <1>6, <2>3, <2>4
          DEF Unconfigured, Costed, Reported, Scored, Reviewed, Reviews, ref
<1>7. CASE c.fn \in Reviews
  <2> DEFINE k == <<c.anomaly, c.op>>
             act == [action |-> ActionOf(c.fn), outcome |-> c.outcome]
             a == [L.anomaly[c.anomaly] EXCEPT !.review = Review[ActionOf(c.fn)].to]
  <2>1. /\ DOMAIN O = {"reviewActionReference", "reviewAction", "anomaly"}
        /\ O.reviewActionReference = Put(k, c.op) /\ O.reviewAction = Put(k, act)
        /\ O.anomaly = Put(c.anomaly, a)
    BY <1>7 DEF OwnWrites, ReviewWrites, Reviews, ActionOf
  <2> HIDE DEF O, k, act, a
  <2>2. /\ M.reviewActionReference = Overwrite(L.reviewActionReference, Put(k, c.op))
        /\ M.reviewAction = Overwrite(L.reviewAction, Put(k, act))
        /\ M.anomaly = Overwrite(L.anomaly, Put(c.anomaly, a))
    BY <1>1, <2>1
  <2>3. /\ M.reviewActionReference = [L.reviewActionReference EXCEPT ![k] = c.op]
        /\ M.reviewAction = [L.reviewAction EXCEPT ![k] = act]
        /\ M.anomaly = [L.anomaly EXCEPT ![c.anomaly] = a]
    BY <1>3, <2>2 DEF Overwrite, Put
  <2>4. \A t \in tabs \ {"reviewActionReference", "reviewAction", "anomaly"} : M[t] = L[t]
    BY <1>1, <2>1
  <2> QED BY <1>7, <2>3, <2>4
          DEF Unconfigured, Costed, Reported, Scored, Reviewed, Reviews, k, act, a
<1>8. CASE c.fn \notin {"RecordFreightCost", "ReportRetailPrice", "EvaluatePrice"} \cup Reviews
  <2>1. \A t \in tabs : t \notin DOMAIN O
    BY <1>8, CommandTyped
    DEF OwnWrites, OfferWrites, AcceptWrites, AcceptedTransfer, ++, authorize, Reviews
  <2> HIDE DEF O
  <2>2. \A t \in tabs : M[t] = L[t]
    BY <1>1, <2>1
  <2> QED BY <1>8, <2>2
          DEF Unconfigured, Costed, Reported, Scored, Reviewed
<1> QED BY <1>4, <1>5, <1>6, <1>7, <1>8

\* The states in which a mutation of an existing batch is accepted, and the state
\* it leaves.
Before(fn) ==
  CASE fn = "OfferPickup"       -> {"CREATED"}
    [] fn = "AcceptPickup"      -> {"PICKUP_PENDING"}
    [] fn = "RecordFreightCost" -> {"IN_TRANSPORT", "DELIVERY_PENDING"}
    [] fn = "OfferDelivery"     -> {"IN_TRANSPORT"}
    [] fn = "AcceptDelivery"    -> {"DELIVERY_PENDING"}
    [] fn = "ReportRetailPrice" -> {"RECEIVED"}
    [] OTHER                    -> {"RETAIL_REPORTED"}

After(fn, state) ==
  CASE fn = "CreateBatch"       -> "CREATED"
    [] fn = "OfferPickup"       -> "PICKUP_PENDING"
    [] fn = "AcceptPickup"      -> "IN_TRANSPORT"
    [] fn = "OfferDelivery"     -> "DELIVERY_PENDING"
    [] fn = "AcceptDelivery"    -> "RECEIVED"
    [] fn = "ReportRetailPrice" -> "RETAIL_REPORTED"
    [] OTHER                    -> state

\* The record r of the batch becomes s, and its references e become f.
Advances(L, c, r, s, e, f) ==
  /\ c.fn = "CreateBatch" <=> r = None
  /\ r # None => r \in Batch /\ e \in EvidenceRefs /\ r.state \in Before(c.fn)
  /\ s \in Batch /\ f \in EvidenceRefs
  /\ s.version = version(L, c.batch) + 1
  /\ s.state = After(c.fn, r.state)
  /\ s.state = nextBatch(L, c).state /\ s.owner = nextBatch(L, c).owner
  /\ s.quantity = quantity(L, c)
  /\ s.lot = IF c.fn = "CreateBatch" THEN None
             ELSE IF c.fn = "ReportRetailPrice" THEN c.lot ELSE r.lot
  /\ f = nextEvidence(L, c)

\* An accepted mutation advances its batch.
LEMMA BatchAdvances ==
  ASSUME NEW L, IsWorld(L), PairedIn(L), NEW c \in Command, Accepts(L, c),
         c.fn # "Bootstrap"
  PROVE  Advances(L, c, L.batch[c.batch],
                  [nextBatch(L, c) EXCEPT !.version = version(L, c.batch) + 1],
                  L.batchEvidence[c.batch], nextEvidence(L, c))
<1> DEFINE r == L.batch[c.batch]
           n == nextBatch(L, c)
           s == [n EXCEPT !.version = version(L, c.batch) + 1]
           e == L.batchEvidence[c.batch]
<1>1. /\ Admitted(L, c)
      /\ c.fn = "CreateBatch" <=> r = None
      /\ r \in Opt(Batch) /\ version(L, c.batch) + 1 \in 1..MaxVersion
  BY AdmittedBatch
<1>2. /\ c.batch \in BatchId /\ c.fn \in DOMAIN authorize
      /\ L.batchEvidence \in [BatchId -> Opt(EvidenceRefs)]
  BY WorldTyped, CommandTyped
<1>3. r # None => r \in Batch /\ e # None /\ e \in EvidenceRefs
  BY <1>1, <1>2 DEF PairedIn, Opt
<1>4. r # None => r.state \in Before(c.fn)
  BY <1>1, <1>2
  DEF Accepts, CanOfferPickup, CanOfferDelivery, CanOffer, CanAccept, Handoff,
      CanRecordFreightCost, CanReportRetailPrice, CanEvaluatePrice, CanReview,
      Reviewable, Before, authorize
<1>5. n \in Unversioned /\ nextEvidence(L, c) \in EvidenceRefs
  BY <1>1, <1>3, NextBatchTyped, NextEvidenceTyped
<1>6. /\ s \in Batch /\ s.version = version(L, c.batch) + 1
      /\ s.state = n.state /\ s.owner = n.owner
      /\ s.lot = n.lot /\ s.quantity = n.quantity
  <2> HIDE DEF n
  <2> QED BY <1>1, <1>5 DEF Unversioned, Batch
<1>7. /\ n.state = After(c.fn, r.state)
      /\ n.quantity = quantity(L, c)
      /\ n.lot = IF c.fn = "CreateBatch" THEN None
                 ELSE IF c.fn = "ReportRetailPrice" THEN c.lot ELSE r.lot
  <2>1. CASE c.fn = "CreateBatch"
    BY <2>1 DEF nextBatch, newBatch, After, quantity
  <2>2. CASE c.fn \in {"AcceptPickup", "AcceptDelivery"}
    BY <1>1, <1>3, <2>2 DEF nextBatch, received, handedOver, Handoff, After, quantity, Batch
  <2>3. CASE c.fn \in {"OfferPickup", "OfferDelivery", "ReportRetailPrice"}
    BY <1>1, <1>3, <2>3 DEF nextBatch, After, quantity, Batch
  <2>4. CASE c.fn \in {"RecordFreightCost", "EvaluatePrice", "OpenReview", "ResolveReview"}
    BY <1>1, <1>3, <2>4 DEF nextBatch, After, quantity, Batch
  <2> QED BY <1>2, <2>1, <2>2, <2>3, <2>4 DEF authorize
<1> HIDE DEF n, s, r, e
<1>8. Advances(L, c, r, s, e, nextEvidence(L, c))
  BY <1>1, <1>3, <1>4, <1>5, <1>6, <1>7 DEF Advances, n
<1> QED BY <1>8 DEF n, s, r, e

\* All that an accepted mutation does.
Effect(L, c, M) ==
  /\ IsWorld(L) /\ IsWorld(M) /\ PairedIn(L) /\ PairedIn(M)
  /\ c \in Command /\ c.fn \in Mutation /\ Accepts(L, c)
  /\ c.batch \in BatchId
  /\ Advances(L, c, L.batch[c.batch], M.batch[c.batch],
              L.batchEvidence[c.batch], M.batchEvidence[c.batch])
  /\ Becomes(c.fn, L.batch[c.batch], M.batch[c.batch])
  /\ \A b \in BatchId \ {c.batch} : /\ M.batch[b] = L.batch[b]
                                   /\ M.batchEvidence[b] = L.batchEvidence[b]
  /\ Receipted(L, c, M) /\ Indexed(L, c, M) /\ Documented(L, c, M)
  /\ Handed(L, c, M) /\ Unconfigured(L, M) /\ Costed(L, c, M)
  /\ Reported(L, c, M) /\ Scored(L, c, M) /\ Reviewed(L, c, M)

\* The effect of a mutation, put together.
LEMMA MutationEffect ==
  ASSUME NEW L, IsWorld(L), PairedIn(L), NEW c \in Command, Accepts(L, c),
         c.fn # "Bootstrap", NEW M, M = flush(L, Plan(L, c))
  PROVE  Effect(L, c, M)
<1> DEFINE s == [nextBatch(L, c) EXCEPT !.version = version(L, c.batch) + 1]
           f == nextEvidence(L, c)
<1>1. IsWorld(M) /\ PairedIn(M)
  BY InvokeKeepsTypes
<1>2. c.batch \in BatchId /\ c.fn \in Mutation
  BY CommandTyped DEF Mutation
<1>3. Advances(L, c, L.batch[c.batch], s, L.batchEvidence[c.batch], f)
  BY BatchAdvances
<1>8. Becomes(c.fn, L.batch[c.batch], s)
  BY NextHolder
<1>4. /\ M.batch = [L.batch EXCEPT ![c.batch] = s]
      /\ M.batchEvidence = [L.batchEvidence EXCEPT ![c.batch] = f]
  BY BatchFlushed
<1> HIDE DEF s, f
<1>5. /\ M.batch[c.batch] = s /\ M.batchEvidence[c.batch] = f
      /\ \A b \in BatchId \ {c.batch} : /\ M.batch[b] = L.batch[b]
                                       /\ M.batchEvidence[b] = L.batchEvidence[b]
  BY <1>2, <1>4, WorldTyped
<1>6. /\ Receipted(L, c, M) /\ Indexed(L, c, M) /\ Documented(L, c, M)
      /\ Handed(L, c, M)
  BY ReceiptFlushed, IndexFlushed, DocumentFlushed, TransfersFlushed
<1>7. /\ Unconfigured(L, M) /\ Costed(L, c, M)
      /\ Reported(L, c, M) /\ Scored(L, c, M) /\ Reviewed(L, c, M)
  BY OwnFlushed
<1> QED BY <1>1, <1>2, <1>3, <1>5, <1>6, <1>7, <1>8 DEF Effect

\* Bootstrap writes the configuration, and nothing else.
LEMMA BootstrapEffect ==
  ASSUME NEW L, NEW c, c.fn = "Bootstrap", NEW M, M = flush(L, Plan(L, c))
  PROVE  /\ \A t \in Table \ {"configuration", "policy", "sourceKey"} : M[t] = L[t]
         /\ M.configuration = Overwrite(L.configuration, Put("v1", c.config))
         /\ M.policy = Overwrite(L.policy, Put(c.config.policy, c.config.threshold))
<1>1. /\ Plan(L, c) = bootstrap(c)
      /\ DOMAIN bootstrap(c) = {"configuration", "policy", "sourceKey"}
      /\ bootstrap(c).configuration = Put("v1", c.config)
      /\ bootstrap(c).policy = Put(c.config.policy, c.config.threshold)
  BY DEF Plan, bootstrap
<1>2. "configuration" \in Table /\ "policy" \in Table
  BY DEF Table, Keys
<1> QED BY <1>1, <1>2 DEF flush

-----------------------------------------------------------------------------
(* Receipts and indexes                                                    *)

\* The receipts of batch b.
ReceiptsOf(L, b) == {k \in OpKey : L.operation[k] # None /\ L.operation[k].batch = b}

\* A batch's history is its receipts in the order of its versions, without a gap.
Chained(L) ==
  /\ \A b \in BatchId, n \in 1..MaxVersion :
       (L.history[<<b, n>>] # None) <=> (n <= version(L, b))
  /\ \A b \in BatchId, n \in 1..MaxVersion : L.history[<<b, n>>] # None =>
       LET h == L.history[<<b, n>>]
       IN  h.batch = b /\ h.version = n /\ L.operation[<<h.actor, h.op>>] = h
  /\ \A k \in OpKey : L.operation[k] # None =>
       LET h == L.operation[k]
       IN  h.actor = k[1] /\ h.op = k[2] /\ L.history[<<h.batch, h.version>>] = h
  /\ \A b \in BatchId : /\ IsFiniteSet(ReceiptsOf(L, b))
                        /\ Cardinality(ReceiptsOf(L, b)) = version(L, b)

\* A mutation counts its batch up by one and leaves the other batches' versions.
LEMMA VersionsAfter ==
  ASSUME NEW L, NEW c, NEW M, Effect(L, c, M)
  PROVE  /\ version(L, c.batch) \in Nat
         /\ version(L, c.batch) + 1 \in 1..MaxVersion
         /\ version(M, c.batch) = version(L, c.batch) + 1
         /\ M.batch[c.batch] # None
         /\ \A b \in BatchId \ {c.batch} : version(M, b) = version(L, b)
<1>1. M.batch[c.batch] \in Batch /\ M.batch[c.batch].version = version(L, c.batch) + 1
  BY DEF Effect, Advances
<1>2. None \notin Batch
  BY EngineAssumption, ValuesOf DEF Table, Keys
<1>3. version(M, c.batch) = version(L, c.batch) + 1
  BY <1>1, <1>2 DEF version
<1>4. version(L, c.batch) + 1 \in 1..MaxVersion /\ version(L, c.batch) \in Nat
  <2>1. L.batch[c.batch] \in Opt(Batch)
    BY WorldTyped DEF Effect
  <2>2. version(L, c.batch) \in Nat
    BY <2>1, EngineAssumption DEF version, Opt, Batch
  <2> QED BY <1>1, <2>2 DEF Batch
<1>5. \A b \in BatchId \ {c.batch} : version(M, b) = version(L, b)
  BY DEF Effect, version
<1> QED BY <1>1, <1>2, <1>3, <1>4, <1>5

\* The new receipt is one, under a key that was free.
LEMMA ReceiptTyped ==
  ASSUME NEW L, NEW c, NEW M, Effect(L, c, M)
  PROVE  /\ receipt(L, c) \in Receipt /\ receipt(L, c) # None
         /\ <<c.actor, c.op>> \in OpKey
         /\ L.operation[<<c.actor, c.op>>] = None
<1>1. c \in Command /\ c.fn \in Mutation /\ Accepts(L, c)
  BY DEF Effect
<1>2. L.operation[<<c.actor, c.op>>] = None
  BY <1>1 DEF Accepts, Admitted, FreshOperation, Mutation
<1>3. receipt(L, c) \in Receipt /\ <<c.actor, c.op>> \in OpKey
  BY <1>1, VersionsAfter, CommandTyped DEF receipt, Receipt, OpKey
<1>4. None \notin Receipt
  BY EngineAssumption, ValuesOf DEF Table, Keys
<1> QED BY <1>2, <1>3, <1>4

\* A mutation extends the chain of its batch at its end.
LEMMA ChainedKept ==
  ASSUME NEW L, NEW c, NEW M, Effect(L, c, M), Chained(L)
  PROVE  Chained(M)
<1> DEFINE h == receipt(L, c)
           k == <<c.actor, c.op>>
           v == version(L, c.batch) + 1
<1>1. /\ h \in Receipt /\ h # None /\ k \in OpKey /\ L.operation[k] = None
      /\ h.actor = c.actor /\ h.op = c.op /\ h.batch = c.batch /\ h.version = v
  BY ReceiptTyped DEF receipt
<1>2. /\ v \in 1..MaxVersion /\ v - 1 \in Nat /\ c.batch \in BatchId
      /\ version(M, c.batch) = v /\ version(L, c.batch) = v - 1
      /\ \A b \in BatchId \ {c.batch} : version(M, b) = version(L, b)
      /\ \A b \in BatchId : version(L, b) \in Nat
  <2>1. \A b \in BatchId : L.batch[b] \in Opt(Batch)
    BY WorldTyped DEF Effect
  <2>2. \A b \in BatchId : version(L, b) \in Nat
    BY <2>1 DEF version, Opt, Batch
  <2> QED BY <2>2, VersionsAfter DEF Effect
<1>3. /\ M.operation = [L.operation EXCEPT ![k] = h]
      /\ M.history = [L.history EXCEPT ![<<c.batch, v>>] = h]
  BY DEF Effect, Receipted, receipt
<1>4. /\ L.operation \in [OpKey -> Opt(Receipt)]
      /\ L.history \in [BatchId \X (1..MaxVersion) -> Opt(Receipt)]
  BY RecordsTyped DEF Effect
<1> HIDE DEF h, k, v
<1>5. /\ M.operation[k] = h
      /\ \A i \in OpKey \ {k} : M.operation[i] = L.operation[i]
  BY <1>1, <1>3, <1>4
<1>6. /\ M.history[<<c.batch, v>>] = h
      /\ \A b \in BatchId, n \in 1..MaxVersion :
           <<b, n>> # <<c.batch, v>> => M.history[<<b, n>>] = L.history[<<b, n>>]
  BY <1>2, <1>3, <1>4
<1>0. \A b \in BatchId, n \in 1..MaxVersion :
         (L.history[<<b, n>>] # None) <=> (n <= version(L, b))
  BY DEF Chained
<1>7. L.history[<<c.batch, v>>] = None
  <2>1. (L.history[<<c.batch, v>>] # None) <=> (v <= version(L, c.batch))
    BY <1>2, <1>0
  <2> QED BY <1>2, <2>1
<1>8. ASSUME NEW b \in BatchId, NEW n \in 1..MaxVersion
      PROVE  (M.history[<<b, n>>] # None) <=> (n <= version(M, b))
  <2>1. CASE b = c.batch
    <3>1. (L.history[<<b, n>>] # None) <=> (n <= v - 1)
      BY <1>2, <1>0, <2>1
    <3>2. CASE n = v
      BY <1>1, <1>2, <1>6, <2>1, <3>2
    <3>3. CASE n # v
      <4>1. M.history[<<b, n>>] = L.history[<<b, n>>]
        BY <1>6, <3>3
      <4> QED BY <1>2, <2>1, <3>1, <3>3, <4>1
    <3> QED BY <3>2, <3>3
  <2>2. CASE b # c.batch
    <3>1. M.history[<<b, n>>] = L.history[<<b, n>>] /\ version(M, b) = version(L, b)
      BY <1>2, <1>6, <2>2
    <3> QED BY <1>0, <3>1
  <2> QED BY <2>1, <2>2
<1>9. ASSUME NEW i \in OpKey, L.operation[i] # None
      PROVE  M.operation[i] = L.operation[i]
  BY <1>1, <1>5, <1>9
<1>10. ASSUME NEW b \in BatchId, NEW n \in 1..MaxVersion, M.history[<<b, n>>] # None
       PROVE  LET g == M.history[<<b, n>>]
              IN  g.batch = b /\ g.version = n /\ M.operation[<<g.actor, g.op>>] = g
  <2>1. CASE <<b, n>> = <<c.batch, v>>
    <3>1. M.history[<<b, n>>] = h /\ b = c.batch /\ n = v
      BY <1>6, <2>1
    <3>2. M.operation[<<h.actor, h.op>>] = h
      BY <1>1, <1>5 DEF k
    <3> QED BY <1>1, <3>1, <3>2
  <2>2. CASE <<b, n>> # <<c.batch, v>>
    <3> DEFINE g == L.history[<<b, n>>]
    <3>1. M.history[<<b, n>>] = g /\ g # None
      BY <1>6, <1>10, <2>2
    <3>2. g.batch = b /\ g.version = n /\ L.operation[<<g.actor, g.op>>] = g
      BY <3>1 DEF Chained
    <3>3. <<b, n>> \in BatchId \X (1..MaxVersion) /\ g \in Receipt
      BY <1>4, <3>1 DEF Opt
    <3>4. <<g.actor, g.op>> \in OpKey
      BY <3>3 DEF Receipt, OpKey
    <3>5. M.operation[<<g.actor, g.op>>] = g
      BY <1>9, <3>1, <3>2, <3>4
    <3> HIDE DEF g
    <3> QED BY <3>1, <3>2, <3>5
  <2> QED BY <2>1, <2>2
<1>11. ASSUME NEW i \in OpKey, M.operation[i] # None
       PROVE  LET g == M.operation[i]
              IN  g.actor = i[1] /\ g.op = i[2] /\ M.history[<<g.batch, g.version>>] = g
  <2>1. CASE i = k
    <3>1. i[1] = c.actor /\ i[2] = c.op /\ M.operation[i] = h
      BY <1>5, <2>1 DEF k
    <3> QED BY <1>1, <1>6, <3>1
  <2>2. CASE i # k
    <3> DEFINE g == L.operation[i]
    <3>1. M.operation[i] = g /\ g # None
      BY <1>5, <1>11, <2>2
    <3>2. g.actor = i[1] /\ g.op = i[2] /\ L.history[<<g.batch, g.version>>] = g
      BY <3>1 DEF Chained
    <3>3. g.batch \in BatchId /\ g.version \in 1..MaxVersion
      BY <1>4, <3>1 DEF Opt, Receipt
    <3>4. <<g.batch, g.version>> # <<c.batch, v>>
      BY <1>7, <3>1, <3>2
    <3>5. M.history[<<g.batch, g.version>>] = g
      BY <1>6, <3>2, <3>3, <3>4
    <3> HIDE DEF g
    <3> QED BY <3>1, <3>2, <3>5
  <2> QED BY <2>1, <2>2
<1>12. ASSUME NEW b \in BatchId
       PROVE  /\ IsFiniteSet(ReceiptsOf(M, b))
              /\ Cardinality(ReceiptsOf(M, b)) = version(M, b)
  <2>1. IsFiniteSet(ReceiptsOf(L, b)) /\ Cardinality(ReceiptsOf(L, b)) = version(L, b)
    BY DEF Chained
  <2>2. CASE b = c.batch
    <3>1. k \notin ReceiptsOf(L, b) /\ ReceiptsOf(M, b) = ReceiptsOf(L, b) \cup {k}
      BY <1>1, <1>5, <2>2 DEF ReceiptsOf
    <3>2. /\ IsFiniteSet(ReceiptsOf(L, b) \cup {k})
          /\ Cardinality(ReceiptsOf(L, b) \cup {k}) = Cardinality(ReceiptsOf(L, b)) + 1
      BY <2>1, <3>1, FS_AddElement, Zenon
    <3> QED BY <1>2, <2>1, <2>2, <3>1, <3>2
  <2>3. CASE b # c.batch
    <3>1. ReceiptsOf(M, b) = ReceiptsOf(L, b)
      BY <1>1, <1>5, <2>3 DEF ReceiptsOf
    <3> QED BY <1>2, <2>1, <2>3, <3>1
  <2> QED BY <2>2, <2>3
<1> QED BY <1>8, <1>10, <1>11, <1>12 DEF Chained

\* Each index has one entry for each batch: at its owner, and at its state.
IndexedIn(L) ==
  /\ \A m \in Member, b \in BatchId :
       L.owner[<<m, b>>] = IF L.batch[b] # None /\ L.batch[b].owner = m THEN b ELSE None
  /\ \A s \in State, b \in BatchId :
       L.state[<<s, b>>] = IF L.batch[b] # None /\ L.batch[b].state = s THEN b ELSE None

\* A mutation moves the entries of its batch along.
LEMMA IndexesKept ==
  ASSUME NEW L, NEW c, NEW M, Effect(L, c, M), IndexedIn(L)
  PROVE  IndexedIn(M)
<1> DEFINE r == L.batch[c.batch]
           s == M.batch[c.batch]
<1>1. /\ c.batch \in BatchId /\ c.batch # None /\ s # None
      /\ \A b \in BatchId \ {c.batch} : M.batch[b] = L.batch[b]
  <2>1. c.batch \in BatchId /\ \A b \in BatchId \ {c.batch} : M.batch[b] = L.batch[b]
    BY DEF Effect
  <2>2. None \notin BatchId
    BY EngineAssumption, ValuesOf DEF Table, Keys
  <2> QED BY <2>1, <2>2, VersionsAfter
<1>2. /\ IndexEntry(L.owner, M.owner, c.batch, r.owner, s.owner, r = None)
      /\ IndexEntry(L.state, M.state, c.batch, r.state, s.state, r = None)
  BY DEF Effect, Indexed, Advances
<1>3. DOMAIN L.owner = Member \X BatchId /\ DOMAIN L.state = State \X BatchId
  BY RecordsTyped DEF Effect
<1>4. ASSUME NEW m \in Member, NEW b \in BatchId
      PROVE  M.owner[<<m, b>>] = IF M.batch[b] # None /\ M.batch[b].owner = m THEN b ELSE None
  <2>1. L.owner[<<m, b>>] = IF L.batch[b] # None /\ L.batch[b].owner = m THEN b ELSE None
    BY DEF IndexedIn
  <2>2. M.owner[<<m, b>>] = IF b # c.batch THEN L.owner[<<m, b>>]
                            ELSE IF m = s.owner THEN c.batch
                            ELSE IF r # None /\ m = r.owner THEN None
                            ELSE L.owner[<<m, b>>]
    BY <1>2, <1>3 DEF IndexEntry
  <2> HIDE DEF r, s
  <2>3. CASE b = c.batch
    BY <1>1, <2>1, <2>2, <2>3 DEF r, s
  <2>4. CASE b # c.batch
    BY <1>1, <2>1, <2>2, <2>4
  <2> QED BY <2>3, <2>4
<1>5. ASSUME NEW st \in State, NEW b \in BatchId
      PROVE  M.state[<<st, b>>] = IF M.batch[b] # None /\ M.batch[b].state = st THEN b ELSE None
  <2>1. L.state[<<st, b>>] = IF L.batch[b] # None /\ L.batch[b].state = st THEN b ELSE None
    BY DEF IndexedIn
  <2>2. M.state[<<st, b>>] = IF b # c.batch THEN L.state[<<st, b>>]
                             ELSE IF st = s.state THEN c.batch
                             ELSE IF r # None /\ st = r.state THEN None
                             ELSE L.state[<<st, b>>]
    BY <1>2, <1>3 DEF IndexEntry
  <2> HIDE DEF r, s
  <2>3. CASE b = c.batch
    BY <1>1, <2>1, <2>2, <2>3 DEF r, s
  <2>4. CASE b # c.batch
    BY <1>1, <2>1, <2>2, <2>4
  <2> QED BY <2>3, <2>4
<1> QED BY <1>4, <1>5 DEF IndexedIn

-----------------------------------------------------------------------------
(* What the batch refers to                                                *)

\* None is no identifier.
LEMMA NoneApart ==
  /\ None \notin BatchId /\ None \notin DocId /\ None \notin CostId
  /\ None \notin ReportId /\ None \notin LotId /\ None \notin OpId
  /\ None \notin TransferId
  /\ None \notin Batch /\ None \notin Cost /\ None \notin Report
  /\ None \notin Lot /\ None \notin Evaluation /\ None \notin Anomaly
  /\ None \notin Purchase /\ None \notin ReviewAction
<1>1. \A t \in Table : None \notin Values[t]
  BY EngineAssumption
<1>2. /\ None \notin BatchId /\ None \notin OpId
      /\ None \notin TransferId
      /\ None \notin Batch /\ None \notin Cost /\ None \notin Report
      /\ None \notin Lot /\ None \notin Evaluation /\ None \notin Anomaly
      /\ None \notin Purchase /\ None \notin ReviewAction
  BY <1>1, ValuesOf DEF Table, Keys
<1> QED BY <1>2, EngineAssumption

\* The references of the batch after the mutation, field by field.
LEMMA RefsAfter ==
  ASSUME NEW L, NEW c, NEW M, Effect(L, c, M)
  PROVE  LET e == L.batchEvidence[c.batch]
             f == M.batchEvidence[c.batch]
         IN  /\ f.cks = IF c.fn = "CreateBatch" THEN Doc(c, "PRODUCER_ELIGIBILITY").id ELSE e.cks
             /\ f.purchase = IF c.fn = "CreateBatch" THEN None
                             ELSE IF c.fn = "OfferPickup" THEN Doc(c, "PURCHASE_INVOICE").id
                             ELSE e.purchase
             /\ f.hks = IF c.fn = "CreateBatch" THEN None
                        ELSE IF c.fn = "OfferPickup" THEN Doc(c, "TRADE_NOTIFICATION").id
                        ELSE e.hks
             /\ f.transport = IF c.fn = "CreateBatch" THEN None
                              ELSE IF c.fn = "OfferPickup" THEN Doc(c, "TRANSPORT_MANIFEST").id
                              ELSE e.transport
             /\ f.freight = IF c.fn = "CreateBatch" THEN None
                            ELSE IF c.fn = "RecordFreightCost" THEN c.cost ELSE e.freight
             /\ f.report = IF c.fn = "CreateBatch" THEN None
                           ELSE IF c.fn = "ReportRetailPrice" THEN c.report ELSE e.report
<1> DEFINE e == L.batchEvidence[c.batch]
           f == M.batchEvidence[c.batch]
<1>1. /\ f = nextEvidence(L, c) /\ f \in EvidenceRefs
      /\ c.fn # "CreateBatch" => e \in EvidenceRefs
  BY DEF Effect, Advances
<1>2. c.fn \in Mutation
  BY DEF Effect
<1>3. CASE c.fn = "CreateBatch"
  BY <1>1, <1>3 DEF nextEvidence, NoEvidence
<1>4. CASE c.fn = "OfferPickup"
  BY <1>1, <1>4 DEF nextEvidence, EvidenceRefs
<1>5. CASE c.fn = "RecordFreightCost"
  BY <1>1, <1>5 DEF nextEvidence, EvidenceRefs
<1>6. CASE c.fn = "ReportRetailPrice"
  BY <1>1, <1>6 DEF nextEvidence, EvidenceRefs
<1>7. CASE c.fn \notin {"CreateBatch", "OfferPickup", "RecordFreightCost", "ReportRetailPrice"}
  BY <1>1, <1>7 DEF nextEvidence
<1> QED BY <1>3, <1>4, <1>5, <1>6, <1>7

\* The batch itself after the mutation.
LEMMA BatchAfter ==
  ASSUME NEW L, NEW c, NEW M, Effect(L, c, M)
  PROVE  LET r == L.batch[c.batch]
             s == M.batch[c.batch]
         IN  /\ (c.fn = "CreateBatch") <=> (r = None)
             /\ r # None => r \in Batch /\ r.state \in Before(c.fn) /\ s.quantity = r.quantity
             /\ s # None /\ s \in Batch
             /\ s.state = After(c.fn, r.state)
             /\ s.quantity = quantity(L, c)
             /\ s.lot = IF c.fn = "CreateBatch" THEN None
                        ELSE IF c.fn = "ReportRetailPrice" THEN c.lot ELSE r.lot
<1>1. Advances(L, c, L.batch[c.batch], M.batch[c.batch],
               L.batchEvidence[c.batch], M.batchEvidence[c.batch])
  BY DEF Effect
<1>2. quantity(L, c) = IF c.fn = "CreateBatch" THEN c.quantity ELSE L.batch[c.batch].quantity
  BY DEF quantity
<1> QED BY <1>1, <1>2, NoneApart DEF Advances

\* A required document of an accepted proposal: one of its bundle, for the batch.
LEMMA DocOf ==
  ASSUME NEW L, NEW c, NEW M, Effect(L, c, M), NEW type \in required(c.fn)
  PROVE  /\ Doc(c, type) \in c.docs /\ Doc(c, type) \in Document
         /\ Doc(c, type).type = type /\ Doc(c, type).id \in DocId
         /\ Doc(c, type).quantity = quantity(L, c)
<1>1. c \in Command /\ Evidenced(L, c, quantity(L, c))
  BY DEF Effect, Accepts, Mutation, Admitted
<1>2. /\ {d.type : d \in c.docs} = required(c.fn)
      /\ \A d \in c.docs : d.quantity = quantity(L, c)
  BY <1>1 DEF Evidenced, Bound
<1>3. Doc(c, type) \in c.docs /\ Doc(c, type).type = type
  BY <1>1, <1>2, RequiredDocument
<1>4. c.docs \subseteq Document
  BY <1>1, CommandTyped
<1> HIDE DEF Doc
<1> QED BY <1>2, <1>3, <1>4, DocumentTyped

-----------------------------------------------------------------------------
(* Freight                                                                 *)

\* A batch's freight cost is on record under both its keys, for the batch and for
\* its quantity, from before its delivery is accepted.
Freighted(L, b) ==
  LET k == L.batchEvidence[b].freight
  IN  /\ k # None => /\ k \in CostId /\ L.costReference[k] = b
                     /\ L.cost[k] # None
                     /\ L.cost[k].quantity = L.batch[b].quantity
      /\ L.batch[b].state \in AtRetailer => k # None

\* Each batch with its freight cost, each cost with its reference.
FreightIn(L) ==
  /\ \A b \in BatchId : L.batch[b] # None => Freighted(L, b)
  /\ \A k \in CostId : L.costReference[k] = None => L.cost[k] = None
  /\ \A k \in CostId : L.costReference[k] # None =>
       L.cost[k] # None /\ L.cost[k].batch = L.costReference[k]

newCost(c) ==
  LET d == Doc(c, "FREIGHT_INVOICE")
  IN  [batch |-> c.batch, total |-> d.total, quantity |-> d.quantity, doc |-> d.id]

\* A freight cost is recorded under a fresh identifier, for the batch's quantity.
LEMMA FreightGuard ==
  ASSUME NEW L, NEW c, NEW M, Effect(L, c, M), c.fn = "RecordFreightCost"
  PROVE  /\ c.cost \in CostId /\ L.costReference[c.cost] = None
         /\ L.batchEvidence[c.batch].freight = None
         /\ newCost(c) \in Cost /\ newCost(c).batch = c.batch
         /\ newCost(c).quantity = L.batch[c.batch].quantity
         /\ Doc(c, "FREIGHT_INVOICE").id \in DocId
<1> DEFINE d == Doc(c, "FREIGHT_INVOICE")
<1>1. c \in Command /\ CanRecordFreightCost(L, c)
  BY DEF Effect, Accepts
<1>2. d.quantity = quantity(L, c) /\ d.id \in DocId /\ d \in Document
  BY DocOf DEF required
<1>3. quantity(L, c) = L.batch[c.batch].quantity
  BY DEF quantity
<1>4. c.cost \in CostId /\ c.batch \in BatchId
  BY <1>1, CommandTyped
<1>5. /\ L.costReference[c.cost] = None /\ L.batchEvidence[c.batch].freight = None
      /\ 0 <= d.total /\ d.total <= MaxTotal
  BY <1>1 DEF CanRecordFreightCost, FreshCost, NoFreightCost
<1>6. L.batch[c.batch].quantity \in Quantity
  BY BatchAfter DEF Batch
<1> HIDE DEF d
<1>7. d.total \in Total
  <2>1. d.total \in Int
    BY <1>2, DocumentTyped
  <2>2. MaxTotal \in Nat
    BY EngineAssumption
  <2> QED BY <1>5, <2>1, <2>2 DEF Total
<1>8. newCost(c) = [batch |-> c.batch, total |-> d.total, quantity |-> d.quantity, doc |-> d.id]
  BY DEF newCost, d
<1>9. newCost(c) \in Cost
  BY <1>2, <1>3, <1>4, <1>6, <1>7, <1>8 DEF Cost
<1> QED BY <1>2, <1>3, <1>4, <1>5, <1>8, <1>9 DEF d

\* A mutation keeps the freight costs with their batches.
LEMMA FreightKept ==
  ASSUME NEW L, NEW c, NEW M, Effect(L, c, M), FreightIn(L)
  PROVE  FreightIn(M)
<1> DEFINE r == L.batch[c.batch]
           s == M.batch[c.batch]
           e == L.batchEvidence[c.batch]
           f == M.batchEvidence[c.batch]
           new == newCost(c)
           k == c.cost
<1>1. /\ c.batch \in BatchId /\ c.fn \in Mutation
      /\ \A b \in BatchId \ {c.batch} : /\ M.batch[b] = L.batch[b]
                                       /\ M.batchEvidence[b] = L.batchEvidence[b]
      /\ IsWorld(L)
  BY DEF Effect
<1>2. /\ L.costReference \in [CostId -> Opt(BatchId)] /\ L.cost \in [CostId -> Opt(Cost)]
  BY <1>1, RecordsTyped, WorldTyped
<1>3. /\ f.freight = IF c.fn = "CreateBatch" THEN None
                     ELSE IF c.fn = "RecordFreightCost" THEN k ELSE e.freight
      /\ (c.fn = "CreateBatch") <=> (r = None)
      /\ r # None => r.state \in Before(c.fn) /\ s.quantity = r.quantity
      /\ s # None /\ s.state = After(c.fn, r.state)
  BY RefsAfter, BatchAfter
<1>4. IF c.fn = "RecordFreightCost"
      THEN /\ M.costReference = [L.costReference EXCEPT ![k] = c.batch]
           /\ M.cost = [L.cost EXCEPT ![k] = new]
      ELSE M.costReference = L.costReference /\ M.cost = L.cost
  BY DEF Effect, Costed, newCost
<1>5. c.fn = "AcceptDelivery" => e.freight # None
  BY DEF Effect, Accepts, CanAccept, FreightOnRecord
<1>6. c.fn = "RecordFreightCost" =>
        /\ k \in CostId /\ L.costReference[k] = None
        /\ new # None /\ new.batch = c.batch /\ new.quantity = r.quantity
  BY FreightGuard, NoneApart
<1>7. s.state \in AtRetailer =>
        c.fn = "AcceptDelivery" \/ (r # None /\ r.state \in AtRetailer)
  BY <1>1, <1>3 DEF After, Before, AtRetailer, Mutation, authorize
<1>8. r # None => Freighted(L, c.batch)
  BY <1>1 DEF FreightIn
<1>9. \A x \in CostId : L.costReference[x] # None =>
        M.costReference[x] = L.costReference[x] /\ M.cost[x] = L.cost[x]
  BY <1>2, <1>4, <1>6
<1>10. c.batch # None /\ None \notin CostId
  BY <1>1, NoneApart
<1>11. c.fn = "RecordFreightCost" =>
         M.costReference[k] = c.batch /\ M.cost[k] = new
  BY <1>2, <1>4, <1>6
<1> HIDE DEF r, s, e, f, new, k
<1>12. Freighted(M, c.batch)
  <2>1. CASE c.fn = "CreateBatch"
    BY <1>3, <1>7, <2>1 DEF Freighted, s, f, After, AtRetailer
  <2>2. CASE c.fn = "RecordFreightCost"
    BY <1>3, <1>6, <1>10, <1>11, <2>2 DEF Freighted, s, f
  <2>3. CASE c.fn \notin {"CreateBatch", "RecordFreightCost"}
    <3>1. f.freight = e.freight /\ s.quantity = r.quantity /\ r # None
      BY <1>3, <2>3
    <3>2. e.freight # None =>
             /\ e.freight \in CostId /\ L.costReference[e.freight] = c.batch
             /\ L.cost[e.freight] # None /\ L.cost[e.freight].quantity = r.quantity
      BY <1>8, <3>1 DEF Freighted, e, r
    <3>3. e.freight # None =>
             /\ M.costReference[e.freight] = c.batch
             /\ M.cost[e.freight] # None /\ M.cost[e.freight].quantity = r.quantity
      BY <1>9, <1>10, <3>2
    <3>4. s.state \in AtRetailer => e.freight # None
      BY <1>5, <1>7, <1>8, <3>1 DEF Freighted, e, r
    <3> QED BY <3>1, <3>2, <3>3, <3>4 DEF Freighted, s, f
  <2> QED BY <2>1, <2>2, <2>3
<1>13. ASSUME NEW b \in BatchId \ {c.batch}, M.batch[b] # None
       PROVE  Freighted(M, b)
  <2>1. M.batch[b] = L.batch[b] /\ M.batchEvidence[b] = L.batchEvidence[b]
    BY <1>1
  <2>2. Freighted(L, b)
    BY <1>13, <2>1 DEF FreightIn
  <2> DEFINE x == L.batchEvidence[b].freight
  <2>3. x # None => x \in CostId /\ L.costReference[x] = b /\ b # None
    BY <2>2, NoneApart DEF Freighted
  <2>4. x # None => M.costReference[x] = L.costReference[x] /\ M.cost[x] = L.cost[x]
    BY <1>9, <2>3
  <2> QED BY <2>1, <2>2, <2>4 DEF Freighted
<1>14. ASSUME NEW x \in CostId
       PROVE  /\ M.costReference[x] = None => M.cost[x] = None
              /\ M.costReference[x] # None =>
                   M.cost[x] # None /\ M.cost[x].batch = M.costReference[x]
  <2>1. /\ L.costReference[x] = None => L.cost[x] = None
        /\ L.costReference[x] # None =>
             L.cost[x] # None /\ L.cost[x].batch = L.costReference[x]
    BY DEF FreightIn
  <2>2. CASE c.fn = "RecordFreightCost" /\ x = k
    BY <1>6, <1>10, <1>11, <2>2
  <2>3. CASE ~(c.fn = "RecordFreightCost" /\ x = k)
    <3>1. M.costReference[x] = L.costReference[x] /\ M.cost[x] = L.cost[x]
      BY <1>2, <1>4, <2>3
    <3> QED BY <2>1, <3>1
  <2> QED BY <2>2, <2>3
<1> QED BY <1>12, <1>13, <1>14 DEF FreightIn

-----------------------------------------------------------------------------
(* Documents                                                               *)

\* An accepted bundle has one document of each type it needs, and the documents
\* have different identities.
LEMMA DocumentsApart ==
  ASSUME NEW L, NEW c \in Command, NEW q, Evidenced(L, c, q),
         NEW d \in c.docs, NEW e \in c.docs, d.type = e.type \/ d.id = e.id
  PROVE  d = e
<1> DEFINE S == c.docs
           T == {x.type : x \in S}
           f == [x \in S |-> x.type]
<1>1. IsFiniteSet(S)
  BY DEF Command, Bundles
<1>2. T = required(c.fn) /\ Cardinality(S) = Cardinality(T)
  BY DEF Evidenced
<1>3. f \in Surjection(S, T)
  BY DEF Surjection
<1> HIDE DEF f, T
<1>4. f \in Injection(S, T)
  BY <1>1, <1>2, <1>3, FS_SurjSameCardinalityImpliesInj, Zenon
<1>5. d.type = e.type => d = e
  <2>1. f[d] = d.type /\ f[e] = e.type
    BY DEF f
  <2>2. f \in [S -> T]
    BY <1>4, Zenon DEF Injection
  <2> QED BY <1>4, <2>1, <2>2 DEF Injection, IsInjective
<1>6. d.id = e.id => d = e
  BY DEF Evidenced, DistinctInBundle
<1> QED BY <1>5, <1>6

\* What the document table holds after an accepted mutation.
LEMMA DocumentsAfter ==
  ASSUME NEW L, NEW c, NEW M, Effect(L, c, M)
  PROVE  /\ c.docs \subseteq Document /\ Ids(c) \subseteq DocId
         /\ {d.type : d \in c.docs} = required(c.fn)
         /\ \A d \in c.docs :
              /\ L.document[d.id] = None
              /\ M.document[d.id] = [batch |-> c.batch, op |-> c.op, type |-> d.type]
              /\ M.document[d.id] # None
         /\ \A i \in DocId \ Ids(c) : M.document[i] = L.document[i]
<1>1. c \in Command /\ Evidenced(L, c, quantity(L, c)) /\ IsWorld(L) /\ IsWorld(M)
  BY DEF Effect, Accepts, Mutation, Admitted
<1>2. c.docs \subseteq Document /\ Ids(c) \subseteq DocId
  BY <1>1, CommandTyped, DocumentTyped DEF Ids
<1>3. L.document \in [DocId -> Opt([batch : BatchId, op : OpId, type : DocType])]
  BY <1>1, RecordsTyped
<1> DEFINE W == [i \in Ids(c) |-> [batch |-> c.batch, op |-> c.op,
                                   type |-> (CHOOSE d \in c.docs : d.id = i).type]]
<1>4. M.document = Overwrite(L.document, W)
  BY DEF Effect, Documented
<1>5. ASSUME NEW d \in c.docs
      PROVE  /\ L.document[d.id] = None
             /\ M.document[d.id] = [batch |-> c.batch, op |-> c.op, type |-> d.type]
             /\ M.document[d.id] # None
  <2>1. d.id \in Ids(c) /\ d.id \in DocId
    BY <1>2 DEF Ids
  <2>2. L.document[d.id] = None
    BY <1>1 DEF Evidenced, Unused, UnusedDocuments
  <2> DEFINE e == CHOOSE x \in c.docs : x.id = d.id
  <2>3. e \in c.docs /\ e.id = d.id
    OBVIOUS
  <2> HIDE DEF e
  <2>4. e = d
    BY <1>1, <2>3, DocumentsApart
  <2>5. W[d.id] = [batch |-> c.batch, op |-> c.op, type |-> d.type]
    BY <2>1, <2>4 DEF e
  <2> HIDE DEF W
  <2>6. M.document[d.id] = W[d.id]
    <3>1. DOMAIN W = Ids(c)
      BY DEF W
    <3> QED BY <1>3, <1>4, <2>1, <3>1 DEF Overwrite
  <2>7. [batch |-> c.batch, op |-> c.op, type |-> d.type] # None
    <3>1. None \notin [batch : BatchId, op : OpId, type : DocType]
      BY EngineAssumption, ValuesOf DEF Table, Keys
    <3>2. d.type \in DocType /\ c.batch \in BatchId /\ c.op \in OpId
      BY <1>1, <1>2, CommandTyped, DocumentTyped
    <3> QED BY <3>1, <3>2
  <2> QED BY <2>2, <2>5, <2>6, <2>7
<1>6. \A i \in DocId \ Ids(c) : M.document[i] = L.document[i]
  <2>1. DOMAIN W = Ids(c)
    OBVIOUS
  <2> HIDE DEF W
  <2> QED BY <1>3, <1>4, <2>1 DEF Overwrite
<1>7. {d.type : d \in c.docs} = required(c.fn)
  BY <1>1 DEF Evidenced
<1> QED BY <1>2, <1>5, <1>6, <1>7

\* The openings kept in the private collections are those of documents on record,
\* the trade openings those of the purchase invoices.
OpeningsIn(L) ==
  /\ \A i \in DocId : (L.tradeOpening[i] # None)
       <=> (L.document[i] # None /\ L.document[i].type = "PURCHASE_INVOICE")
  /\ \A i \in DocId : L.freightOpening[i] # None => L.document[i] # None

\* The purchase that a pickup offer opens is valid and for the batch's quantity.
LEMMA PurchaseGuard ==
  ASSUME NEW L, NEW c, NEW M, Effect(L, c, M), c.fn = "OfferPickup"
  PROVE  LET d == Doc(c, "PURCHASE_INVOICE")
         IN  /\ d \in c.docs /\ d.type = "PURCHASE_INVOICE" /\ d.id \in DocId
             /\ Opening(d) \in Purchase
             /\ Opening(d).quantity = L.batch[c.batch].quantity
             /\ M.tradeOpening = [L.tradeOpening EXCEPT ![d.id] = Opening(d)]
<1> DEFINE d == Doc(c, "PURCHASE_INVOICE")
<1>1. /\ d \in c.docs /\ d \in Document /\ d.type = "PURCHASE_INVOICE" /\ d.id \in DocId
      /\ d.quantity = quantity(L, c)
  BY DocOf DEF required
<1>2. quantity(L, c) = L.batch[c.batch].quantity
  BY DEF quantity
<1>3. validPurchase(Opening(d)) /\ M.tradeOpening = [L.tradeOpening EXCEPT ![d.id] = Opening(d)]
  BY DEF Effect, Accepts, CanOfferPickup, Documented
<1> HIDE DEF d
<1>4. Opening(d).quantity = d.quantity
  BY DEF Opening
<1>5. Opening(d) \in Purchase
  <2>1. d.quantity \in Int /\ d.price \in Int /\ d.total \in Int
    BY <1>1, DocumentTyped
  <2>2. MaxQuantity \in Nat /\ MaxTotal \in Nat /\ MaxPrice \in Nat
    BY EngineAssumption, PriceAssumption
  <2> QED BY <1>3, <2>1, <2>2 DEF validPurchase, Opening, Purchase, Quantity
<1> QED BY <1>1, <1>2, <1>3, <1>4, <1>5 DEF d

\* A mutation keeps the openings with their documents.
LEMMA OpeningsKept ==
  ASSUME NEW L, NEW c, NEW M, Effect(L, c, M), OpeningsIn(L)
  PROVE  OpeningsIn(M)
<1> DEFINE buy == Doc(c, "PURCHASE_INVOICE")
           inv == Doc(c, "FREIGHT_INVOICE")
<1>1. /\ Ids(c) \subseteq DocId
      /\ {d.type : d \in c.docs} = required(c.fn)
      /\ \A d \in c.docs : /\ L.document[d.id] = None
                           /\ M.document[d.id].type = d.type
                           /\ M.document[d.id] # None
      /\ \A i \in DocId \ Ids(c) : M.document[i] = L.document[i]
  <2>1. /\ Ids(c) \subseteq DocId /\ {d.type : d \in c.docs} = required(c.fn)
        /\ \A i \in DocId \ Ids(c) : M.document[i] = L.document[i]
    BY DocumentsAfter
  <2>2. ASSUME NEW d \in c.docs
        PROVE  /\ L.document[d.id] = None /\ M.document[d.id] # None
               /\ M.document[d.id] = [batch |-> c.batch, op |-> c.op, type |-> d.type]
    BY DocumentsAfter
  <2>3. ASSUME NEW d \in c.docs PROVE M.document[d.id].type = d.type
    <3>1. M.document[d.id] = [batch |-> c.batch, op |-> c.op, type |-> d.type]
      BY <2>2
    <3> QED BY <3>1
  <2> QED BY <2>1, <2>2, <2>3
<1>2. /\ c \in Command /\ Evidenced(L, c, quantity(L, c)) /\ c.fn \in Mutation /\ IsWorld(L)
  BY DEF Effect, Accepts, Mutation, Admitted
<1>3. /\ L.tradeOpening \in [DocId -> Opt(Purchase)]
      /\ L.freightOpening \in [DocId -> Opt([quantity : Quantity, total : Total])]
  BY <1>2, WorldTyped, RecordsTyped
<1>4. IF c.fn = "OfferPickup"
      THEN /\ buy \in c.docs /\ buy.type = "PURCHASE_INVOICE" /\ buy.id \in DocId
           /\ \A i \in DocId : M.tradeOpening[i] = IF i = buy.id THEN Opening(buy)
                                                   ELSE L.tradeOpening[i]
           /\ Opening(buy) # None
      ELSE M.tradeOpening = L.tradeOpening
  <2>1. CASE c.fn = "OfferPickup"
    <3>1. /\ buy \in c.docs /\ buy.type = "PURCHASE_INVOICE" /\ buy.id \in DocId
          /\ Opening(buy) \in Purchase
          /\ M.tradeOpening = [L.tradeOpening EXCEPT ![buy.id] = Opening(buy)]
      BY <2>1, PurchaseGuard
    <3> HIDE DEF buy
    <3> QED BY <1>3, <2>1, <3>1, NoneApart
  <2>2. CASE c.fn # "OfferPickup"
    BY <2>2 DEF Effect, Documented
  <2> QED BY <2>1, <2>2
<1>5. \A i \in DocId : M.freightOpening[i] # L.freightOpening[i] =>
        \E d \in c.docs : d.id = i
  <2>1. CASE c.fn = "RecordFreightCost"
    <3>1. inv \in c.docs /\ inv.id \in DocId
      BY <2>1, DocOf DEF required
    <3>2. M.freightOpening = [L.freightOpening EXCEPT ![inv.id] =
                                [quantity |-> inv.quantity, total |-> inv.total]]
      BY <2>1 DEF Effect, Costed
    <3> HIDE DEF inv
    <3> QED BY <1>3, <3>1, <3>2
  <2>2. CASE c.fn # "RecordFreightCost"
    BY <2>2 DEF Effect, Costed
  <2> QED BY <2>1, <2>2
<1> HIDE DEF buy, inv
<1>6. ASSUME NEW i \in DocId
      PROVE  (M.tradeOpening[i] # None)
               <=> (M.document[i] # None /\ M.document[i].type = "PURCHASE_INVOICE")
  <2>0. (L.tradeOpening[i] # None)
          <=> (L.document[i] # None /\ L.document[i].type = "PURCHASE_INVOICE")
    BY DEF OpeningsIn
  <2>1. CASE i \in Ids(c)
    <3>1. PICK d \in c.docs : d.id = i
      BY <2>1 DEF Ids
    <3>2. /\ L.document[i] = None /\ M.document[i] # None /\ M.document[i].type = d.type
          /\ L.tradeOpening[i] = None
      BY <1>1, <2>0, <3>1
    <3>3. CASE c.fn = "OfferPickup"
      <4>1. (i = buy.id) <=> (d.type = "PURCHASE_INVOICE")
        BY <1>2, <1>4, <3>1, <3>3, DocumentsApart
      <4> QED BY <1>4, <3>2, <3>3, <4>1
    <3>4. CASE c.fn # "OfferPickup"
      <4>1. d.type \in required(c.fn)
        BY <1>1
      <4>2. d.type # "PURCHASE_INVOICE"
        BY <3>4, <4>1 DEF required
      <4> QED BY <1>4, <3>2, <3>4, <4>2
    <3> QED BY <3>3, <3>4
  <2>2. CASE i \notin Ids(c)
    <3>1. M.document[i] = L.document[i]
      BY <1>1, <2>2
    <3>2. M.tradeOpening[i] = L.tradeOpening[i]
      BY <1>4, <2>2 DEF Ids
    <3> QED BY <2>0, <3>1, <3>2
  <2> QED BY <2>1, <2>2
<1>7. ASSUME NEW i \in DocId, M.freightOpening[i] # None
      PROVE  M.document[i] # None
  <2>1. CASE \E d \in c.docs : d.id = i
    BY <1>1, <2>1
  <2>2. CASE ~\E d \in c.docs : d.id = i
    <3>1. M.freightOpening[i] = L.freightOpening[i] /\ i \notin Ids(c)
      BY <1>5, <2>2 DEF Ids
    <3>2. L.document[i] # None
      BY <1>7, <3>1 DEF OpeningsIn
    <3> QED BY <1>1, <3>1, <3>2
  <2> QED BY <2>1, <2>2
<1> QED BY <1>6, <1>7 DEF OpeningsIn

-----------------------------------------------------------------------------
(* Purchases                                                               *)

\* From its first offer on, a batch has a purchase opening, for its quantity.
Purchased(L, b) ==
  LET k == L.batchEvidence[b].purchase
  IN  /\ (k # None) <=> (L.batch[b].state # "CREATED")
      /\ k # None => /\ k \in DocId /\ L.tradeOpening[k] # None
                     /\ L.tradeOpening[k].quantity = L.batch[b].quantity

PurchasedIn(L) == \A b \in BatchId : L.batch[b] # None => Purchased(L, b)

\* A mutation keeps the purchases with their batches.
LEMMA PurchaseKept ==
  ASSUME NEW L, NEW c, NEW M, Effect(L, c, M), OpeningsIn(L), PurchasedIn(L)
  PROVE  PurchasedIn(M)
<1> DEFINE r == L.batch[c.batch]
           s == M.batch[c.batch]
           e == L.batchEvidence[c.batch]
           f == M.batchEvidence[c.batch]
           buy == Doc(c, "PURCHASE_INVOICE")
<1>0. ASSUME NEW d \in c.docs PROVE L.document[d.id] = None
  <2>1. /\ L.document[d.id] = None /\ M.document[d.id] # None
        /\ M.document[d.id] = [batch |-> c.batch, op |-> c.op, type |-> d.type]
    BY DocumentsAfter
  <2> QED BY <2>1
<1>1. /\ c.batch \in BatchId /\ c.fn \in Mutation
      /\ \A b \in BatchId \ {c.batch} : /\ M.batch[b] = L.batch[b]
                                       /\ M.batchEvidence[b] = L.batchEvidence[b]
      /\ IsWorld(L)
  BY DEF Effect
<1>2. L.tradeOpening \in [DocId -> Opt(Purchase)]
  BY <1>1, WorldTyped
<1>3. /\ f.purchase = IF c.fn = "CreateBatch" THEN None
                      ELSE IF c.fn = "OfferPickup" THEN buy.id ELSE e.purchase
      /\ (c.fn = "CreateBatch") <=> (r = None)
      /\ r # None => r.state \in Before(c.fn) /\ s.quantity = r.quantity
      /\ s # None /\ s.state = After(c.fn, r.state)
  BY RefsAfter, BatchAfter
<1>4. c.fn = "OfferPickup" =>
        /\ buy \in c.docs /\ buy.id \in DocId /\ Opening(buy) # None
        /\ Opening(buy).quantity = r.quantity
        /\ M.tradeOpening = [L.tradeOpening EXCEPT ![buy.id] = Opening(buy)]
  BY PurchaseGuard, NoneApart
<1>5. c.fn # "OfferPickup" => M.tradeOpening = L.tradeOpening
  BY DEF Effect, Documented
<1> HIDE DEF buy
<1>6. ASSUME NEW i \in DocId, L.tradeOpening[i] # None
      PROVE  M.tradeOpening[i] = L.tradeOpening[i]
  <2>1. L.document[i] # None
    BY <1>6 DEF OpeningsIn
  <2>2. c.fn = "OfferPickup" => L.document[buy.id] = None
    BY <1>0, <1>4
  <2> QED BY <1>2, <1>4, <1>5, <2>1, <2>2
<1>7. c.fn \notin {"CreateBatch", "OfferPickup"} =>
        (s.state # "CREATED" /\ r # None /\ r.state # "CREATED")
  BY <1>1, <1>3 DEF After, Before, Mutation, authorize
<1>8. None \notin DocId
  BY NoneApart
<1> HIDE DEF r, s, e, f
<1>9. Purchased(M, c.batch)
  <2>1. CASE c.fn = "CreateBatch"
    BY <1>3, <2>1 DEF Purchased, s, f, After
  <2>2. CASE c.fn = "OfferPickup"
    <3>1. f.purchase = buy.id /\ s.state = "PICKUP_PENDING" /\ s.quantity = r.quantity
      BY <1>3, <2>2 DEF After
    <3>2. M.tradeOpening[buy.id] = Opening(buy)
      BY <1>2, <1>4, <2>2
    <3> QED BY <1>4, <1>8, <2>2, <3>1, <3>2 DEF Purchased, s, f
  <2>3. CASE c.fn \notin {"CreateBatch", "OfferPickup"}
    <3>1. /\ f.purchase = e.purchase /\ s.quantity = r.quantity
          /\ s.state # "CREATED" /\ r.state # "CREATED" /\ r # None
      BY <1>3, <1>7, <2>3
    <3>2. /\ e.purchase # None /\ e.purchase \in DocId
          /\ L.tradeOpening[e.purchase] # None
          /\ L.tradeOpening[e.purchase].quantity = r.quantity
      BY <1>1, <3>1 DEF PurchasedIn, Purchased, e, r
    <3>3. M.tradeOpening[e.purchase] = L.tradeOpening[e.purchase]
      BY <1>6, <3>2
    <3> QED BY <3>1, <3>2, <3>3 DEF Purchased, s, f
  <2> QED BY <2>1, <2>2, <2>3
<1>10. ASSUME NEW b \in BatchId \ {c.batch}, M.batch[b] # None
       PROVE  Purchased(M, b)
  <2>1. M.batch[b] = L.batch[b] /\ M.batchEvidence[b] = L.batchEvidence[b]
    BY <1>1
  <2>2. Purchased(L, b)
    BY <1>10, <2>1 DEF PurchasedIn
  <2> DEFINE k == L.batchEvidence[b].purchase
  <2>3. k # None => k \in DocId /\ L.tradeOpening[k] # None
    BY <2>2 DEF Purchased
  <2>4. k # None => M.tradeOpening[k] = L.tradeOpening[k]
    BY <1>6, <2>3
  <2> QED BY <2>1, <2>2, <2>4 DEF Purchased
<1> QED BY <1>9, <1>10 DEF PurchasedIn

-----------------------------------------------------------------------------
(* Reports and lots                                                        *)

newLot(L, c) ==
  [batch |-> c.batch, report |-> c.report, quantity |-> L.batch[c.batch].quantity]

newReport(L, c) ==
  LET refs == L.batchEvidence[c.batch]
  IN  [batch |-> c.batch, lot |-> c.lot, quantity |-> L.batch[c.batch].quantity,
       price |-> c.price, purchase |-> refs.purchase,
       cost |-> refs.freight, policy |-> c.policy]

\* A report takes a fresh lot and a fresh report identifier.
LEMMA ReportGuard ==
  ASSUME NEW L, NEW c, NEW M, Effect(L, c, M), c.fn = "ReportRetailPrice"
  PROVE  /\ c.lot \in LotId /\ L.lot[c.lot] = None
         /\ c.report \in ReportId /\ L.reportReference[c.report] = None
         /\ newLot(L, c) \in Lot /\ newReport(L, c) \in Report
         /\ newReport(L, c).batch = c.batch /\ newLot(L, c).batch = c.batch
         /\ M.lot = [L.lot EXCEPT ![c.lot] = newLot(L, c)]
         /\ M.reportReference = [L.reportReference EXCEPT ![c.report] = c.batch]
         /\ M.report = [L.report EXCEPT ![c.report] = newReport(L, c)]
<1> DEFINE r == L.batch[c.batch]
           e == L.batchEvidence[c.batch]
<1>1. c \in Command /\ CanReportRetailPrice(L, c)
  BY DEF Effect, Accepts
<1>2. /\ c.batch \in BatchId /\ c.lot \in LotId /\ c.report \in ReportId
      /\ c.policy \in PolicyId /\ c.price \in Int
  BY <1>1, CommandTyped
<1>3. /\ L.lot[c.lot] = None /\ L.reportReference[c.report] = None
      /\ e.purchase # None /\ e.freight # None /\ 0 <= c.price /\ c.price <= MaxPrice
  BY <1>1 DEF CanReportRetailPrice, FreshReport
<1>4. r \in Batch /\ e \in EvidenceRefs
  BY DEF Effect, Advances
<1>5. r.quantity \in Quantity /\ e.purchase \in DocId /\ e.freight \in CostId
  BY <1>3, <1>4 DEF Batch, EvidenceRefs, Opt
<1>6. c.price \in 0..MaxPrice
  <2>1. MaxPrice \in Nat
    BY PriceAssumption
  <2> QED BY <1>2, <1>3, <2>1
<1> HIDE DEF r, e
<1>7. newLot(L, c) \in Lot /\ newLot(L, c).batch = c.batch
  BY <1>2, <1>5 DEF newLot, Lot, r
<1>8. newReport(L, c) \in Report /\ newReport(L, c).batch = c.batch
  BY <1>2, <1>5, <1>6 DEF newReport, Report, r, e
<1>9. /\ M.lot = [L.lot EXCEPT ![c.lot] = newLot(L, c)]
      /\ M.reportReference = [L.reportReference EXCEPT ![c.report] = c.batch]
      /\ M.report = [L.report EXCEPT ![c.report] = newReport(L, c)]
  BY DEF Effect, Reported, newLot, newReport
<1> QED BY <1>2, <1>3, <1>7, <1>8, <1>9

\* A batch has a report and a lot once it is reported, and they are its own.
Sold(L, b) ==
  LET r == L.batch[b]
      k == L.batchEvidence[b].report
  IN  /\ (k # None) <=> (r.state = "RETAIL_REPORTED")
      /\ (r.lot # None) <=> (r.state = "RETAIL_REPORTED")
      /\ k # None => k \in ReportId /\ L.reportReference[k] = b
      /\ r.lot # None => /\ r.lot \in LotId
                         /\ L.lot[r.lot] = [batch |-> b, quantity |-> r.quantity, report |-> k]

\* Lot l is the lot of its batch.
LotOf(L, l) ==
  LET b == L.lot[l].batch
  IN  b \in BatchId /\ L.batch[b] # None /\ L.batch[b].lot = l

\* Batches, lots and reports, one for one.
SoldIn(L) ==
  /\ \A b \in BatchId : L.batch[b] # None => Sold(L, b)
  /\ \A l \in LotId : L.lot[l] # None => LotOf(L, l)
  /\ \A k \in ReportId : L.reportReference[k] = None => L.report[k] = None
  /\ \A k \in ReportId : L.reportReference[k] # None =>
       L.report[k] # None /\ L.report[k].batch = L.reportReference[k]

\* A mutation keeps the lots and the reports with their batches.
LEMMA SoldKept ==
  ASSUME NEW L, NEW c, NEW M, Effect(L, c, M), SoldIn(L)
  PROVE  SoldIn(M)
<1> DEFINE r == L.batch[c.batch]
           s == M.batch[c.batch]
           e == L.batchEvidence[c.batch]
           f == M.batchEvidence[c.batch]
           lot == newLot(L, c)
           new == newReport(L, c)
           k == c.report
           l == c.lot
           reporting == c.fn = "ReportRetailPrice"
<1>1. /\ c.batch \in BatchId /\ c.fn \in Mutation
      /\ \A b \in BatchId \ {c.batch} : /\ M.batch[b] = L.batch[b]
                                       /\ M.batchEvidence[b] = L.batchEvidence[b]
      /\ IsWorld(L)
  BY DEF Effect
<1>2. /\ L.reportReference \in [ReportId -> Opt(BatchId)] /\ L.report \in [ReportId -> Opt(Report)]
      /\ L.lot \in [LotId -> Opt(Lot)]
  BY <1>1, RecordsTyped, WorldTyped
<1>3. /\ f.report = IF c.fn = "CreateBatch" THEN None
                    ELSE IF reporting THEN k ELSE e.report
      /\ (c.fn = "CreateBatch") <=> (r = None)
      /\ r # None => r.state \in Before(c.fn) /\ s.quantity = r.quantity
      /\ s # None /\ s.state = After(c.fn, r.state)
      /\ s.lot = IF c.fn = "CreateBatch" THEN None
                 ELSE IF reporting THEN l ELSE r.lot
  BY RefsAfter, BatchAfter
<1>4. reporting =>
        /\ l \in LotId /\ L.lot[l] = None /\ k \in ReportId /\ L.reportReference[k] = None
        /\ lot # None /\ new # None /\ new.batch = c.batch /\ lot.batch = c.batch
        /\ M.lot = [L.lot EXCEPT ![l] = lot]
        /\ M.reportReference = [L.reportReference EXCEPT ![k] = c.batch]
        /\ M.report = [L.report EXCEPT ![k] = new]
  BY ReportGuard, NoneApart
<1>5. ~reporting => /\ M.lot = L.lot /\ M.reportReference = L.reportReference
                    /\ M.report = L.report
  BY DEF Effect, Reported
<1>6. reporting => lot = [batch |-> c.batch, quantity |-> s.quantity, report |-> k]
  BY <1>3 DEF newLot
<1>7. ~reporting /\ c.fn # "CreateBatch" =>
        (s.state = "RETAIL_REPORTED") <=> (r.state = "RETAIL_REPORTED")
  BY <1>1, <1>3 DEF After, Before, Mutation, authorize
<1>8. reporting => r # None /\ r.state = "RECEIVED" /\ s.state = "RETAIL_REPORTED"
  BY <1>3 DEF After, Before
<1>9. None \notin BatchId /\ None \notin ReportId /\ None \notin LotId
  BY NoneApart
<1>10. r # None => Sold(L, c.batch)
  BY <1>1 DEF SoldIn
<1> HIDE DEF r, s, e, f, lot, new, k, l
<1>11. \A x \in ReportId : L.reportReference[x] # None => M.reportReference[x] = L.reportReference[x]
  BY <1>2, <1>4, <1>5
<1>12. \A x \in LotId : L.lot[x] # None => M.lot[x] = L.lot[x]
  BY <1>2, <1>4, <1>5
<1>13. Sold(M, c.batch)
  <2>1. CASE c.fn = "CreateBatch"
    BY <1>3, <2>1 DEF Sold, s, f, After
  <2>2. CASE reporting
    <3>1. f.report = k /\ s.lot = l /\ k # None /\ l # None
      BY <1>3, <1>4, <1>9, <2>2
    <3>2. M.lot[l] = lot /\ M.reportReference[k] = c.batch
      BY <1>2, <1>4, <2>2
    <3> QED BY <1>4, <1>6, <1>8, <2>2, <3>1, <3>2 DEF Sold, s, f
  <2>3. CASE ~reporting /\ c.fn # "CreateBatch"
    <3>1. f.report = e.report /\ s.lot = r.lot /\ r # None /\ s.quantity = r.quantity
      BY <1>3, <2>3
    <3>2. /\ (e.report # None) <=> (r.state = "RETAIL_REPORTED")
          /\ (r.lot # None) <=> (r.state = "RETAIL_REPORTED")
          /\ e.report # None => e.report \in ReportId /\ L.reportReference[e.report] = c.batch
          /\ r.lot # None => /\ r.lot \in LotId
                             /\ L.lot[r.lot] = [batch |-> c.batch, quantity |-> r.quantity,
                                                report |-> e.report]
      BY <1>10, <3>1 DEF Sold, r, e
    <3> QED BY <1>5, <1>7, <2>3, <3>1, <3>2 DEF Sold, s, f
  <2> QED BY <2>1, <2>2, <2>3
<1>14. ASSUME NEW b \in BatchId \ {c.batch}, M.batch[b] # None
       PROVE  Sold(M, b)
  <2>1. M.batch[b] = L.batch[b] /\ M.batchEvidence[b] = L.batchEvidence[b]
    BY <1>1
  <2>2. Sold(L, b)
    BY <1>14, <2>1 DEF SoldIn
  <2> DEFINE x == L.batchEvidence[b].report
             y == L.batch[b].lot
  <2>3. x # None => x \in ReportId /\ L.reportReference[x] = b /\ b # None
    BY <1>9, <2>2 DEF Sold
  <2>4. y # None => /\ y \in LotId
                    /\ L.lot[y] = [batch |-> b, quantity |-> L.batch[b].quantity, report |-> x]
    BY <2>2 DEF Sold
  <2>5. ASSUME y # None PROVE L.lot[y] # None
    <3>1. x # None
      BY <2>2, <2>5 DEF Sold
    <3>2. L.batch[b] \in Batch
      BY <1>1, <1>14, <2>1, WorldTyped DEF Opt
    <3>3. L.lot[y] \in Lot
      BY <2>3, <2>4, <2>5, <3>1, <3>2 DEF Lot, Batch
    <3> QED BY <3>3, NoneApart
  <2>6. x # None => M.reportReference[x] = L.reportReference[x]
    BY <1>11, <2>3
  <2>7. y # None => M.lot[y] = L.lot[y]
    BY <1>12, <2>4, <2>5
  <2> QED BY <2>1, <2>2, <2>6, <2>7 DEF Sold
<1>15. ASSUME NEW x \in LotId, M.lot[x] # None
       PROVE  LotOf(M, x)
  <2>1. CASE reporting /\ x = l
    <3>1. M.lot[x] = lot
      BY <1>2, <1>4, <2>1
    <3> QED BY <1>1, <1>3, <1>4, <1>8, <2>1, <3>1 DEF LotOf, s
  <2>2. CASE ~(reporting /\ x = l)
    <3>1. M.lot[x] = L.lot[x]
      BY <1>2, <1>4, <1>5, <2>2
    <3>2. LotOf(L, x)
      BY <1>15, <3>1 DEF SoldIn
    <3> DEFINE b == L.lot[x].batch
    <3>3. b \in BatchId /\ L.batch[b] # None /\ L.batch[b].lot = x
      BY <3>2 DEF LotOf
    <3>4. CASE b = c.batch
      <4>1. r # None /\ r.lot = x /\ r.lot # None
        BY <1>9, <3>3, <3>4 DEF r
      <4>2. r.state = "RETAIL_REPORTED"
        BY <1>10, <4>1 DEF Sold, r
      <4>3. ~reporting /\ s.lot = r.lot
        BY <1>3, <1>8, <4>1, <4>2
      <4> QED BY <1>3, <3>1, <3>3, <3>4, <4>1, <4>3 DEF LotOf, s
    <3>5. CASE b # c.batch
      BY <1>1, <3>1, <3>3, <3>5 DEF LotOf
    <3> QED BY <3>4, <3>5
  <2> QED BY <2>1, <2>2
<1>16. ASSUME NEW x \in ReportId
       PROVE  /\ M.reportReference[x] = None => M.report[x] = None
              /\ M.reportReference[x] # None =>
                   M.report[x] # None /\ M.report[x].batch = M.reportReference[x]
  <2>1. /\ L.reportReference[x] = None => L.report[x] = None
        /\ L.reportReference[x] # None =>
             L.report[x] # None /\ L.report[x].batch = L.reportReference[x]
    BY DEF SoldIn
  <2>2. CASE reporting /\ x = k
    <3>1. M.reportReference[x] = c.batch /\ M.report[x] = new
      BY <1>2, <1>4, <2>2
    <3> QED BY <1>1, <1>4, <1>9, <2>2, <3>1
  <2>3. CASE ~(reporting /\ x = k)
    <3>1. M.reportReference[x] = L.reportReference[x] /\ M.report[x] = L.report[x]
      BY <1>2, <1>4, <1>5, <2>3
    <3> QED BY <2>1, <3>1
  <2> QED BY <2>2, <2>3
<1> QED BY <1>13, <1>14, <1>15, <1>16 DEF SoldIn

-----------------------------------------------------------------------------
(* Evaluations                                                             *)

newEvaluation(c) == [batch |-> c.batch, report |-> c.report, anomaly |-> c.anomaly]

\* What an accepted evaluation was computed from.
From(L, c, a) ==
  LET e   == L.batchEvidence[c.batch]
      cfg == L.configuration["v1"]
  IN  /\ a.batch = c.batch /\ a.report = e.report
      /\ a.purchase = L.tradeOpening[e.purchase].price
      /\ a.retail = L.report[e.report].price
      /\ a.freight = L.cost[e.freight].total
      /\ a.policy = cfg.policy /\ a.threshold = cfg.threshold
      /\ a.policy = L.report[e.report].policy
      /\ a.purchase \in Int /\ a.retail \in Int /\ a.threshold \in Int
      /\ Accepted(a.purchase, a.retail, a.threshold)
      /\ a.score = priceScore(a.purchase, a.retail, a.threshold)
      /\ a.review = IF a.score.classification = "REVIEW_REQUIRED" THEN "OPEN" ELSE "NOT_REQUIRED"

\* An accepted evaluation is the rule's, on the records of its batch.
LEMMA EvaluationGuard ==
  ASSUME NEW L, NEW c, NEW M, Effect(L, c, M), c.fn = "EvaluatePrice"
  PROVE  /\ c.anomaly \in AnomalyId /\ L.anomalyReference[c.anomaly] = None
         /\ L.evaluation[c.batch] = None /\ L.batch[c.batch].state = "RETAIL_REPORTED"
         /\ scored(L, c) \in Anomaly /\ newEvaluation(c) \in Evaluation
         /\ From(L, c, scored(L, c))
         /\ L.configuration["v1"] \in Configuration
<1> DEFINE e    == L.batchEvidence[c.batch]
           cfg  == L.configuration["v1"]
           buy  == L.tradeOpening[e.purchase]
           rep  == L.report[e.report]
           cost == L.cost[e.freight]
           s    == Rederived(L, c)
           new  == [batch |-> c.batch, report |-> c.report, policy |-> cfg.policy,
                    purchase |-> buy.price, retail |-> rep.price,
                    freight |-> cost.total, threshold |-> cfg.threshold,
                    score |-> s,
                    review |-> IF s.classification = "REVIEW_REQUIRED"
                               THEN "OPEN" ELSE "NOT_REQUIRED"]
<1>1. c \in Command /\ CanEvaluatePrice(L, c) /\ IsWorld(L) /\ Admitted(L, c)
  BY DEF Effect, Accepts
<1>2. e \in EvidenceRefs /\ cfg \in Configuration
  <2>1. e \in EvidenceRefs
    BY DEF Effect, Advances
  <2>2. cfg \in Opt(Configuration) /\ cfg # None
    BY <1>1, WorldTyped DEF Admitted
  <2> QED BY <2>1, <2>2 DEF Opt
<1>3. /\ e.purchase \in DocId /\ e.report \in ReportId /\ e.freight \in CostId
      /\ c.report = e.report
  BY <1>1, <1>2 DEF CanEvaluatePrice, EvidenceRefs, Opt
<1>4. buy \in Purchase /\ rep \in Report /\ cost \in Cost
  <2>1. buy # None /\ rep # None /\ cost # None
    BY <1>1 DEF CanEvaluatePrice
  <2>2. buy \in Opt(Purchase) /\ rep \in Opt(Report) /\ cost \in Opt(Cost)
    BY <1>1, <1>3, WorldTyped
  <2> QED BY <2>1, <2>2 DEF Opt
<1>5. /\ buy.price \in 1..MaxPrice /\ rep.price \in 0..MaxPrice
      /\ cost.total \in Total
      /\ cfg.policy \in PolicyId /\ cfg.threshold \in 0..MaxThreshold
  BY <1>2, <1>4 DEF Purchase, Report, Cost, Configuration
<1>6. Accepted(buy.price, rep.price, cfg.threshold) /\ rep.policy = cfg.policy
  BY <1>1 DEF CanEvaluatePrice
<1>7. s = priceScore(buy.price, rep.price, cfg.threshold)
  BY DEF Rederived
<1>8. scored(L, c) = new
  BY DEF scored, EvaluationWrites, Put
<1>9. /\ c.anomaly \in AnomalyId /\ c.batch \in BatchId /\ c.report \in ReportId
      /\ L.anomalyReference[c.anomaly] = None
      /\ L.evaluation[c.batch] = None /\ L.batch[c.batch].state = "RETAIL_REPORTED"
  BY <1>1, CommandTyped DEF CanEvaluatePrice, NotEvaluated, FreshAnomaly, NoEvaluation
<1> HIDE DEF s, buy, rep, cost, cfg, e
<1>10. buy.price \in Int /\ rep.price \in Int /\ cfg.threshold \in Int
  BY <1>5
<1>11. s \in [increaseBps : Int, classification : {"REVIEW_REQUIRED", "NO_SIGNAL"}]
  BY <1>6, <1>7, <1>10, ScoreTyped
<1>12. new \in Anomaly
  BY <1>5, <1>9, <1>11 DEF Anomaly, ReviewState
<1>13. newEvaluation(c) \in Evaluation
  BY <1>9 DEF newEvaluation, Evaluation
<1>14. From(L, c, scored(L, c))
  <2>1. /\ new.batch = c.batch /\ new.report = e.report
        /\ new.purchase = buy.price /\ new.retail = rep.price /\ new.freight = cost.total
        /\ new.policy = cfg.policy /\ new.threshold = cfg.threshold /\ new.score = s
        /\ new.review = IF s.classification = "REVIEW_REQUIRED" THEN "OPEN" ELSE "NOT_REQUIRED"
    BY <1>3
  <2> HIDE DEF new
  <2> QED BY <1>6, <1>7, <1>8, <1>10, <2>1 DEF From, buy, rep, cost, cfg, e
<1> HIDE DEF new
<1> QED BY <1>2, <1>8, <1>9, <1>12, <1>13, <1>14 DEF cfg

\* An evaluation, its anomaly and the anomaly's reference name each other, for a
\* reported batch.
Evaluated(L, b) ==
  LET a == L.evaluation[b].anomaly
  IN  /\ L.batch[b] # None /\ L.batch[b].state = "RETAIL_REPORTED"
      /\ a \in AnomalyId /\ L.anomalyReference[a] # None /\ L.anomalyReference[a].batch = b

\* Anomaly a is the one its batch was evaluated with.
Attached(L, a) ==
  LET b == L.anomalyReference[a].batch
  IN  /\ L.anomaly[a] # None /\ L.anomaly[a].batch = b /\ b \in BatchId
      /\ L.evaluation[b] # None /\ L.evaluation[b].anomaly = a

\* Evaluations and anomalies, one for one.
EvaluatedIn(L) ==
  /\ \A b \in BatchId : L.evaluation[b] # None => Evaluated(L, b)
  /\ \A a \in AnomalyId : L.anomalyReference[a] = None => L.anomaly[a] = None
  /\ \A a \in AnomalyId : L.anomalyReference[a] # None => Attached(L, a)

\* A review is of the anomaly of the batch's evaluation.
LEMMA ReviewGuard ==
  ASSUME NEW L, NEW c, NEW M, Effect(L, c, M), c.fn \in Reviews
  PROVE  /\ c.anomaly \in AnomalyId /\ c.actor = Regulator
         /\ L.evaluation[c.batch] # None /\ L.evaluation[c.batch].anomaly = c.anomaly
         /\ L.anomaly[c.anomaly] # None /\ L.anomaly[c.anomaly] \in Anomaly
         /\ L.anomaly[c.anomaly].score.classification = "REVIEW_REQUIRED"
         /\ L.anomaly[c.anomaly].review = Review[ActionOf(c.fn)].from
<1>1. /\ c \in Command /\ IsWorld(L) /\ Admitted(L, c)
      /\ CanReview(L, c, ActionOf(c.fn))
  BY DEF Effect, Accepts, Reviews, ActionOf
<1>2. c.anomaly \in AnomalyId /\ c.actor \in Member
  BY <1>1, CommandTyped
<1>3. c.actor = Regulator
  <2>1. authorize[c.fn] = <<c.actor, c.role>> /\ authorize[c.fn] = <<Regulator, "reviewer">>
    BY <1>1 DEF Admitted, authorize, Reviews
  <2> QED BY <2>1
<1>4. L.anomaly[c.anomaly] \in Opt(Anomaly)
  BY <1>1, <1>2, WorldTyped
<1> QED BY <1>1, <1>2, <1>3, <1>4 DEF CanReview, Reviewable, Opt

\* Only its review changes an anomaly, and nothing else of it than its review.
LEMMA AnomalyStays ==
  ASSUME NEW L, NEW c, NEW M, Effect(L, c, M), EvaluatedIn(L),
         NEW a \in AnomalyId, L.anomaly[a] # None, c.fn \notin Reviews \/ a # c.anomaly
  PROVE  M.anomaly[a] = L.anomaly[a]
<1>1. L.anomaly \in [AnomalyId -> Opt(Anomaly)]
  BY WorldTyped DEF Effect
<1>2. CASE c.fn = "EvaluatePrice"
  <2>1. M.anomaly = [L.anomaly EXCEPT ![c.anomaly] = scored(L, c)]
    BY <1>2 DEF Effect, Scored
  <2>2. L.anomaly[c.anomaly] = None
    BY <1>2, EvaluationGuard DEF EvaluatedIn
  <2> QED BY <1>1, <2>1, <2>2
<1>3. CASE c.fn \in Reviews
  <2>1. \E y : M.anomaly = [L.anomaly EXCEPT ![c.anomaly] = y]
    BY <1>3 DEF Effect, Reviewed
  <2> QED BY <1>1, <1>3, <2>1
<1>4. CASE c.fn # "EvaluatePrice" /\ c.fn \notin Reviews
  BY <1>4 DEF Effect, Reviewed
<1> QED BY <1>2, <1>3, <1>4

\* Whatever a mutation does, an anomaly changes by its review only.
LEMMA AnomalyAfter ==
  ASSUME NEW L, NEW c, NEW M, Effect(L, c, M), EvaluatedIn(L),
         NEW a \in AnomalyId, L.anomaly[a] # None
  PROVE  /\ L.anomaly[a] \in Anomaly /\ M.anomaly[a] \in Anomaly
         /\ M.anomaly[a] # None
         /\ M.anomaly[a] = [L.anomaly[a] EXCEPT !.review = M.anomaly[a].review]
<1>1. /\ L.anomaly \in [AnomalyId -> Opt(Anomaly)] /\ M.anomaly \in [AnomalyId -> Opt(Anomaly)]
  BY WorldTyped DEF Effect
<1>2. L.anomaly[a] \in Anomaly
  BY <1>1 DEF Opt
<1>3. CASE c.fn \in Reviews /\ a = c.anomaly
  <2> DEFINE x == Review[ActionOf(c.fn)].to
  <2>1. M.anomaly[a] = [L.anomaly[a] EXCEPT !.review = x]
    BY <1>1, <1>3 DEF Effect, Reviewed
  <2>2. x \in ReviewState
    BY <1>3 DEF Review, ActionOf, Reviews, ReviewState
  <2> HIDE DEF x
  <2>3. M.anomaly[a] \in Anomaly /\ M.anomaly[a].review = x
    BY <1>2, <2>1, <2>2 DEF Anomaly
  <2> QED BY <1>2, <1>3, <2>1, <2>3, NoneApart
<1>4. CASE c.fn \notin Reviews \/ a # c.anomaly
  <2>1. M.anomaly[a] = L.anomaly[a]
    BY <1>4, AnomalyStays
  <2>2. L.anomaly[a] = [L.anomaly[a] EXCEPT !.review = L.anomaly[a].review]
    BY <1>2 DEF Anomaly
  <2> QED BY <1>2, <1>4, <2>1, <2>2
<1> QED BY <1>3, <1>4

\* A mutation keeps the evaluations with their anomalies.
LEMMA EvaluationKept ==
  ASSUME NEW L, NEW c, NEW M, Effect(L, c, M), EvaluatedIn(L)
  PROVE  EvaluatedIn(M)
<1> DEFINE k == c.anomaly
           ref == newEvaluation(c)
           new == scored(L, c)
           evaluating == c.fn = "EvaluatePrice"
<1>1. /\ c.batch \in BatchId /\ c.fn \in Mutation /\ IsWorld(L) /\ IsWorld(M)
      /\ \A b \in BatchId \ {c.batch} : M.batch[b] = L.batch[b]
  BY DEF Effect
<1>2. /\ L.evaluation \in [BatchId -> Opt(Evaluation)]
      /\ L.anomalyReference \in [AnomalyId -> Opt(Evaluation)]
      /\ L.anomaly \in [AnomalyId -> Opt(Anomaly)]
  BY <1>1, RecordsTyped, WorldTyped
<1>3. evaluating =>
        /\ k \in AnomalyId /\ L.anomalyReference[k] = None /\ L.evaluation[c.batch] = None
        /\ L.batch[c.batch].state = "RETAIL_REPORTED"
        /\ ref # None /\ new # None /\ new.batch = c.batch
        /\ ref.batch = c.batch /\ ref.anomaly = k
  <2>1. evaluating =>
          /\ k \in AnomalyId /\ L.anomalyReference[k] = None /\ L.evaluation[c.batch] = None
          /\ L.batch[c.batch].state = "RETAIL_REPORTED"
          /\ new \in Anomaly /\ ref \in Evaluation /\ From(L, c, new)
    BY EvaluationGuard
  <2>2. ref.batch = c.batch /\ ref.anomaly = k
    BY DEF newEvaluation
  <2> HIDE DEF new, ref
  <2>3. evaluating => new.batch = c.batch
    BY <2>1 DEF From
  <2> QED BY <2>1, <2>2, <2>3, NoneApart
<1>4. IF evaluating
      THEN /\ M.evaluation = [L.evaluation EXCEPT ![c.batch] = ref]
           /\ M.anomalyReference = [L.anomalyReference EXCEPT ![k] = ref]
           /\ M.anomaly = [L.anomaly EXCEPT ![k] = new]
      ELSE M.evaluation = L.evaluation /\ M.anomalyReference = L.anomalyReference
  BY DEF Effect, Scored, newEvaluation
<1>5. L.batch[c.batch] # None /\ L.batch[c.batch].state = "RETAIL_REPORTED" =>
        M.batch[c.batch] # None /\ M.batch[c.batch].state = "RETAIL_REPORTED"
  BY <1>1, BatchAfter DEF After, Before, Mutation, authorize
<1>6. evaluating => L.batch[c.batch] # None
  BY BatchAfter
<1>7. \A b \in BatchId : L.batch[b] # None /\ L.batch[b].state = "RETAIL_REPORTED" =>
        M.batch[b] # None /\ M.batch[b].state = "RETAIL_REPORTED"
  BY <1>1, <1>5
<1> HIDE DEF k, ref, new
<1>8. /\ \A x \in AnomalyId : L.anomalyReference[x] # None =>
           M.anomalyReference[x] = L.anomalyReference[x]
      /\ \A b \in BatchId : L.evaluation[b] # None => M.evaluation[b] = L.evaluation[b]
  BY <1>2, <1>3, <1>4
<1>9. \A x \in AnomalyId : L.anomaly[x] # None =>
        M.anomaly[x] # None /\ M.anomaly[x].batch = L.anomaly[x].batch
  <2> SUFFICES ASSUME NEW x \in AnomalyId, L.anomaly[x] # None
               PROVE  M.anomaly[x] # None /\ M.anomaly[x].batch = L.anomaly[x].batch
    OBVIOUS
  <2>1. /\ L.anomaly[x] \in Anomaly /\ M.anomaly[x] # None
        /\ M.anomaly[x] = [L.anomaly[x] EXCEPT !.review = M.anomaly[x].review]
    BY AnomalyAfter
  <2> QED BY <2>1 DEF Anomaly
<1>10. ASSUME NEW b \in BatchId, M.evaluation[b] # None
       PROVE  Evaluated(M, b)
  <2>1. CASE evaluating /\ b = c.batch
    <3>1. M.evaluation[b] = ref /\ M.anomalyReference[k] = ref
      BY <1>2, <1>3, <1>4, <2>1
    <3> QED BY <1>3, <1>6, <1>7, <2>1, <3>1 DEF Evaluated
  <2>2. CASE ~(evaluating /\ b = c.batch)
    <3>1. M.evaluation[b] = L.evaluation[b]
      BY <1>2, <1>4, <2>2
    <3>2. Evaluated(L, b)
      BY <1>10, <3>1 DEF EvaluatedIn
    <3> DEFINE a == L.evaluation[b].anomaly
    <3>3. /\ L.batch[b] # None /\ L.batch[b].state = "RETAIL_REPORTED"
          /\ a \in AnomalyId /\ L.anomalyReference[a] # None /\ L.anomalyReference[a].batch = b
      BY <3>2 DEF Evaluated
    <3>4. M.anomalyReference[a] = L.anomalyReference[a]
      BY <1>8, <3>3
    <3> QED BY <1>7, <3>1, <3>3, <3>4 DEF Evaluated
  <2> QED BY <2>1, <2>2
<1>11. ASSUME NEW a \in AnomalyId
       PROVE  /\ M.anomalyReference[a] = None => M.anomaly[a] = None
              /\ M.anomalyReference[a] # None => Attached(M, a)
  <2>1. CASE evaluating /\ a = k
    <3>1. /\ M.anomalyReference[a] = ref /\ M.anomaly[a] = new
          /\ M.evaluation[c.batch] = ref
      BY <1>1, <1>2, <1>3, <1>4, <2>1
    <3> QED BY <1>1, <1>3, <2>1, <3>1 DEF Attached
  <2>2. CASE ~(evaluating /\ a = k)
    <3>1. M.anomalyReference[a] = L.anomalyReference[a]
      BY <1>2, <1>4, <2>2
    <3>2. CASE L.anomalyReference[a] # None
      <4> DEFINE b == L.anomalyReference[a].batch
      <4>1. /\ L.anomaly[a] # None /\ L.anomaly[a].batch = b /\ b \in BatchId
            /\ L.evaluation[b] # None /\ L.evaluation[b].anomaly = a
        BY <3>2 DEF EvaluatedIn, Attached
      <4>2. M.evaluation[b] = L.evaluation[b]
        BY <1>8, <4>1
      <4>3. M.anomaly[a] # None /\ M.anomaly[a].batch = b
        BY <1>9, <4>1
      <4> QED BY <3>1, <3>2, <4>1, <4>2, <4>3 DEF Attached
    <3>3. CASE L.anomalyReference[a] = None
      <4>1. L.anomaly[a] = None
        BY <3>3 DEF EvaluatedIn
      <4>2. ~(c.fn \in Reviews /\ a = c.anomaly)
        BY <4>1, ReviewGuard
      <4>3. M.anomaly[a] = L.anomaly[a]
        <5>1. CASE evaluating
          BY <1>2, <1>4, <2>2, <5>1
        <5>2. CASE c.fn \in Reviews
          <6>1. \E y : M.anomaly = [L.anomaly EXCEPT ![c.anomaly] = y]
            BY <5>2 DEF Effect, Reviewed
          <6> QED BY <1>2, <4>2, <5>2, <6>1
        <5>3. CASE ~evaluating /\ c.fn \notin Reviews
          BY <5>3 DEF Effect, Reviewed
        <5> QED BY <5>1, <5>2, <5>3
      <4> QED BY <3>1, <3>3, <4>1, <4>3
    <3> QED BY <3>2, <3>3
  <2> QED BY <2>1, <2>2
<1> QED BY <1>10, <1>11 DEF EvaluatedIn

-----------------------------------------------------------------------------
(* Reviews                                                                 *)

\* A receipt is never written over.
LEMMA ReceiptsStay ==
  ASSUME NEW L, NEW c, NEW M, Effect(L, c, M), NEW i \in OpKey, L.operation[i] # None
  PROVE  M.operation[i] = L.operation[i]
<1>1. /\ M.operation = [L.operation EXCEPT ![<<c.actor, c.op>>] = receipt(L, c)]
      /\ IsWorld(L)
  BY DEF Effect, Receipted
<1>2. L.operation \in [OpKey -> Opt(Receipt)]
  BY <1>1, RecordsTyped
<1>3. i # <<c.actor, c.op>>
  BY ReceiptTyped
<1> QED BY <1>1, <1>2, <1>3

\* No receipt is of a later version than its batch.
LEMMA ReceiptBound ==
  ASSUME NEW L, IsWorld(L), Chained(L), NEW i \in OpKey, L.operation[i] # None
  PROVE  /\ L.operation[i].batch \in BatchId /\ L.operation[i].version \in Nat
         /\ L.operation[i].version <= version(L, L.operation[i].batch)
<1> DEFINE h == L.operation[i]
<1>1. h \in Receipt /\ h # None
  BY RecordsTyped DEF Opt
<1>2. L.history[<<h.batch, h.version>>] = h
  BY DEF Chained
<1> HIDE DEF h
<1>3. h.batch \in BatchId /\ h.version \in 1..MaxVersion
  BY <1>1 DEF Receipt
<1>4. (L.history[<<h.batch, h.version>>] # None) <=> (h.version <= version(L, h.batch))
  BY <1>3 DEF Chained
<1>5. h.version \in Nat /\ h.version <= version(L, h.batch)
  BY <1>1, <1>2, <1>3, <1>4
<1> QED BY <1>3, <1>5 DEF h

\* Operation o took the action on anomaly a.
Taking(L, a, o, action) ==
  L.reviewAction[<<a, o>>] # None /\ L.reviewAction[<<a, o>>].action = action

\* The actions of an anomaly are the ones its review state tells of.
Progress(L, a) ==
  LET x == L.anomaly[a]
      acted(o) == L.reviewAction[<<a, o>>] # None
      at(o) == L.operation[<<Regulator, o>>].version
  IN  /\ (x.review = "NOT_REQUIRED") <=> (x.score.classification = "NO_SIGNAL")
      /\ x.review \in {"NOT_REQUIRED", "OPEN"} => \A o \in OpId : ~acted(o)
      /\ x.review = "IN_REVIEW" =>
           \E o \in OpId : /\ Taking(L, a, o, "OPEN_REVIEW")
                           /\ \A p \in OpId : acted(p) => p = o
      /\ x.review = "RESOLVED" =>
           \E o, q \in OpId : /\ Taking(L, a, o, "OPEN_REVIEW")
                              /\ Taking(L, a, q, "RESOLVE_REVIEW")
                              /\ \A p \in OpId : acted(p) => p \in {o, q}
                              /\ at(o) < at(q)

\* The action of operation o on anomaly a has a receipt of the anomaly's batch.
Backed(L, a, o) ==
  LET h == L.operation[<<Regulator, o>>]
  IN  L.anomaly[a] # None /\ h # None /\ h.batch = L.anomaly[a].batch

\* The review actions on record are those of the anomalies' reviews.
ReviewsIn(L) ==
  /\ \A a \in AnomalyId, o \in OpId :
       (L.reviewActionReference[<<a, o>>] # None) <=> (L.reviewAction[<<a, o>>] # None)
  /\ \A a \in AnomalyId, o \in OpId : L.reviewAction[<<a, o>>] # None => Backed(L, a, o)
  /\ \A a \in AnomalyId : L.anomaly[a] # None => Progress(L, a)

\* What a review writes, and that nobody has written it before.
LEMMA ReviewFresh ==
  ASSUME NEW L, NEW c, NEW M, Effect(L, c, M), EvaluatedIn(L), ReviewsIn(L), c.fn \in Reviews
  PROVE  /\ c.op \in OpId /\ <<Regulator, c.op>> \in OpKey
         /\ L.reviewAction[<<c.anomaly, c.op>>] = None
         /\ L.reviewActionReference[<<c.anomaly, c.op>>] = None
         /\ L.anomaly[c.anomaly].batch = c.batch
         /\ M.reviewAction[<<c.anomaly, c.op>>] # None
         /\ M.reviewAction[<<c.anomaly, c.op>>].action = ActionOf(c.fn)
         /\ M.reviewActionReference[<<c.anomaly, c.op>>] # None
         /\ M.operation[<<Regulator, c.op>>] # None
         /\ M.operation[<<Regulator, c.op>>].batch = c.batch
         /\ M.operation[<<Regulator, c.op>>].version = version(L, c.batch) + 1
<1> DEFINE k == <<c.anomaly, c.op>>
           i == <<Regulator, c.op>>
           act == [action |-> ActionOf(c.fn), outcome |-> c.outcome]
<1>1. /\ c \in Command /\ IsWorld(L) /\ c.batch \in BatchId /\ c.op \in OpId
      /\ c.outcome \in Opt(Outcome)
  BY CommandTyped DEF Effect
<1>2. /\ c.anomaly \in AnomalyId /\ c.actor = Regulator
      /\ L.evaluation[c.batch] # None /\ L.evaluation[c.batch].anomaly = c.anomaly
  BY ReviewGuard
<1>3. i \in OpKey /\ L.operation[i] = None /\ receipt(L, c) # None
  BY <1>2, ReceiptTyped
<1>4. L.reviewAction[k] = None
  <2>1. L.reviewAction[k] # None => Backed(L, c.anomaly, c.op)
    BY <1>1, <1>2 DEF ReviewsIn
  <2> QED BY <1>3, <2>1 DEF Backed
<1>5. L.reviewActionReference[k] = None
  BY <1>1, <1>2, <1>4 DEF ReviewsIn
<1>6. L.anomaly[c.anomaly].batch = c.batch
  <2>1. Evaluated(L, c.batch)
    BY <1>1, <1>2 DEF EvaluatedIn
  <2>2. L.anomalyReference[c.anomaly] # None /\ L.anomalyReference[c.anomaly].batch = c.batch
    BY <1>2, <2>1 DEF Evaluated
  <2>3. Attached(L, c.anomaly)
    BY <1>2, <2>2 DEF EvaluatedIn
  <2> QED BY <2>2, <2>3 DEF Attached
<1>7. /\ L.reviewAction \in [AnomalyId \X OpId -> Opt(ReviewAction)]
      /\ L.reviewActionReference \in [AnomalyId \X OpId -> Opt(OpId)]
      /\ L.operation \in [OpKey -> Opt(Receipt)]
  BY <1>1, RecordsTyped
<1>8. /\ M.reviewAction = [L.reviewAction EXCEPT ![k] = act]
      /\ M.reviewActionReference = [L.reviewActionReference EXCEPT ![k] = c.op]
  BY DEF Effect, Reviewed
<1>9. M.operation = [L.operation EXCEPT ![i] = receipt(L, c)]
  BY <1>2 DEF Effect, Receipted
<1>10. act \in ReviewAction
  BY <1>1 DEF ReviewAction, ActionOf
<1>11. act.action = ActionOf(c.fn)
  OBVIOUS
<1>12. receipt(L, c).batch = c.batch /\ receipt(L, c).version = version(L, c.batch) + 1
  BY DEF receipt
<1> HIDE DEF act, k, i
<1>13. M.reviewAction[k] = act /\ M.reviewActionReference[k] = c.op
  BY <1>1, <1>2, <1>7, <1>8 DEF k
<1>14. M.operation[i] = receipt(L, c)
  BY <1>3, <1>7, <1>9
<1> QED BY <1>1, <1>3, <1>4, <1>5, <1>6, <1>10, <1>11, <1>12, <1>13, <1>14, NoneApart DEF k, i

\* A mutation keeps the review actions with the state of the review.
LEMMA ReviewsKept ==
  ASSUME NEW L, NEW c, NEW M, Effect(L, c, M), Chained(L), EvaluatedIn(L), ReviewsIn(L)
  PROVE  ReviewsIn(M)
<1> DEFINE k == <<c.anomaly, c.op>>
           reviewing == c.fn \in Reviews
<1>1. /\ IsWorld(L) /\ IsWorld(M) /\ c.batch \in BatchId
      /\ L.anomaly \in [AnomalyId -> Opt(Anomaly)]
      /\ L.reviewAction \in [AnomalyId \X OpId -> Opt(ReviewAction)]
      /\ L.reviewActionReference \in [AnomalyId \X OpId -> Opt(OpId)]
  BY WorldTyped, RecordsTyped DEF Effect
<1>2. reviewing =>
        /\ c.op \in OpId /\ <<Regulator, c.op>> \in OpKey /\ c.anomaly \in AnomalyId
        /\ L.reviewAction[k] = None
        /\ L.anomaly[c.anomaly] # None /\ L.anomaly[c.anomaly].batch = c.batch
        /\ M.reviewAction[k] # None /\ M.reviewAction[k].action = ActionOf(c.fn)
        /\ M.reviewActionReference[k] # None
        /\ M.operation[<<Regulator, c.op>>] # None
        /\ M.operation[<<Regulator, c.op>>].batch = c.batch
        /\ M.operation[<<Regulator, c.op>>].version = version(L, c.batch) + 1
  <2> SUFFICES ASSUME reviewing
               PROVE  /\ c.op \in OpId /\ <<Regulator, c.op>> \in OpKey /\ c.anomaly \in AnomalyId
                      /\ L.reviewAction[k] = None
                      /\ L.anomaly[c.anomaly] # None /\ L.anomaly[c.anomaly].batch = c.batch
                      /\ M.reviewAction[k] # None /\ M.reviewAction[k].action = ActionOf(c.fn)
                      /\ M.reviewActionReference[k] # None
                      /\ M.operation[<<Regulator, c.op>>] # None
                      /\ M.operation[<<Regulator, c.op>>].batch = c.batch
                      /\ M.operation[<<Regulator, c.op>>].version = version(L, c.batch) + 1
    OBVIOUS
  <2>1. c.anomaly \in AnomalyId /\ L.anomaly[c.anomaly] # None
    BY ReviewGuard
  <2> QED BY <2>1, ReviewFresh, SMTT(30)
<1>3. \A a \in AnomalyId, o \in OpId : ~(reviewing /\ a = c.anomaly /\ o = c.op) =>
        /\ M.reviewAction[<<a, o>>] = L.reviewAction[<<a, o>>]
        /\ M.reviewActionReference[<<a, o>>] = L.reviewActionReference[<<a, o>>]
  <2>1. CASE reviewing
    <3>1. \E x, y : /\ M.reviewAction = [L.reviewAction EXCEPT ![k] = x]
                    /\ M.reviewActionReference = [L.reviewActionReference EXCEPT ![k] = y]
      BY <2>1, ZenonT(60) DEF Effect, Reviewed
    <3> QED BY <1>1, <2>1, <3>1
  <2>2. CASE ~reviewing
    BY <2>2 DEF Effect, Reviewed
  <2> QED BY <2>1, <2>2
<1>4. \A i \in OpKey : L.operation[i] # None => M.operation[i] = L.operation[i]
  BY ReceiptsStay
<1>5. \A a \in AnomalyId : L.anomaly[a] # None =>
        M.anomaly[a] # None /\ M.anomaly[a].batch = L.anomaly[a].batch
  <2> SUFFICES ASSUME NEW a \in AnomalyId, L.anomaly[a] # None
               PROVE  M.anomaly[a] # None /\ M.anomaly[a].batch = L.anomaly[a].batch
    OBVIOUS
  <2>1. /\ L.anomaly[a] \in Anomaly /\ M.anomaly[a] # None
        /\ M.anomaly[a] = [L.anomaly[a] EXCEPT !.review = M.anomaly[a].review]
    BY AnomalyAfter
  <2> QED BY <2>1 DEF Anomaly
<1> HIDE DEF k
<1>6. ASSUME NEW a \in AnomalyId, NEW o \in OpId
      PROVE  (M.reviewActionReference[<<a, o>>] # None) <=> (M.reviewAction[<<a, o>>] # None)
  <2>1. CASE reviewing /\ a = c.anomaly /\ o = c.op
    BY <1>2, <2>1 DEF k
  <2>2. CASE ~(reviewing /\ a = c.anomaly /\ o = c.op)
    <3>1. (L.reviewActionReference[<<a, o>>] # None) <=> (L.reviewAction[<<a, o>>] # None)
      BY DEF ReviewsIn
    <3> QED BY <1>3, <2>2, <3>1
  <2> QED BY <2>1, <2>2
<1>7. ASSUME NEW a \in AnomalyId, NEW o \in OpId, L.reviewAction[<<a, o>>] # None
      PROVE  /\ L.anomaly[a] # None /\ <<Regulator, o>> \in OpKey
             /\ L.operation[<<Regulator, o>>] # None
             /\ L.operation[<<Regulator, o>>].batch = L.anomaly[a].batch
  BY <1>7 DEF ReviewsIn, Backed, OpKey, Member
<1>8. ASSUME NEW a \in AnomalyId, NEW o \in OpId, M.reviewAction[<<a, o>>] # None
      PROVE  Backed(M, a, o)
  <2>1. CASE reviewing /\ a = c.anomaly /\ o = c.op
    BY <1>2, <1>5, <2>1 DEF Backed
  <2>2. CASE ~(reviewing /\ a = c.anomaly /\ o = c.op)
    <3>1. L.reviewAction[<<a, o>>] # None
      BY <1>3, <1>8, <2>2
    <3>2. /\ L.anomaly[a] # None /\ <<Regulator, o>> \in OpKey
          /\ L.operation[<<Regulator, o>>] # None
          /\ L.operation[<<Regulator, o>>].batch = L.anomaly[a].batch
      BY <1>7, <3>1
    <3>3. M.operation[<<Regulator, o>>] = L.operation[<<Regulator, o>>]
      BY <1>4, <3>2
    <3> QED BY <1>5, <3>2, <3>3 DEF Backed
  <2> QED BY <2>1, <2>2
<1>9. ASSUME NEW a \in AnomalyId, M.anomaly[a] # None
      PROVE  Progress(M, a)
  <2> DEFINE x == L.anomaly[a]
             y == M.anomaly[a]
  <2>1. CASE x = None
    <3>1. \A o \in OpId : L.reviewAction[<<a, o>>] = None
      BY <1>7, <2>1
    <3>2. c.fn = "EvaluatePrice" /\ a = c.anomaly
      <4>1. ~(reviewing /\ a = c.anomaly)
        BY <1>2, <2>1
      <4>2. CASE reviewing
        <5>1. \E z : M.anomaly = [L.anomaly EXCEPT ![c.anomaly] = z]
          BY <4>2 DEF Effect, Reviewed
        <5> QED BY <1>1, <1>9, <2>1, <4>1, <4>2, <5>1
      <4>3. CASE c.fn = "EvaluatePrice"
        <5>1. M.anomaly = [L.anomaly EXCEPT ![c.anomaly] = scored(L, c)]
          BY <4>3 DEF Effect, Scored
        <5> QED BY <1>1, <1>9, <2>1, <4>3, <5>1
      <4>4. CASE ~reviewing /\ c.fn # "EvaluatePrice"
        <5>1. M.anomaly = L.anomaly
          BY <4>4 DEF Effect, Reviewed
        <5> QED BY <1>9, <2>1, <5>1
      <4> QED BY <4>2, <4>3, <4>4
    <3>3. ~reviewing
      BY <3>2 DEF Reviews
    <3>4. \A o \in OpId : M.reviewAction[<<a, o>>] = None
      BY <1>3, <3>1, <3>3
    <3>5. y = scored(L, c)
      <4>1. M.anomaly = [L.anomaly EXCEPT ![c.anomaly] = scored(L, c)]
        BY <3>2 DEF Effect, Scored
      <4> QED BY <1>1, <3>2, <4>1
    <3>6. scored(L, c) \in Anomaly /\ From(L, c, scored(L, c))
      BY <3>2, EvaluationGuard
    <3> HIDE DEF y
    <3>7. /\ y.score.classification \in {"REVIEW_REQUIRED", "NO_SIGNAL"}
          /\ y.review = IF y.score.classification = "REVIEW_REQUIRED" THEN "OPEN" ELSE "NOT_REQUIRED"
      BY <3>5, <3>6 DEF From, Anomaly
    <3> QED BY <3>4, <3>7 DEF Progress, y
  <2>2. CASE x # None /\ ~(reviewing /\ a = c.anomaly)
    <3>1. y = x
      <4>1. L.anomaly[a] # None /\ (c.fn \notin Reviews \/ a # c.anomaly)
        BY <2>2
      <4>2. M.anomaly[a] = L.anomaly[a]
        BY <4>1, AnomalyStays
      <4> QED BY <4>2
    <3>2. \A o \in OpId : M.reviewAction[<<a, o>>] = L.reviewAction[<<a, o>>]
      BY <1>3, <2>2
    <3>3. \A o \in OpId : L.reviewAction[<<a, o>>] # None =>
            M.operation[<<Regulator, o>>] = L.operation[<<Regulator, o>>]
      BY <1>4, <1>7
    <3>4. Progress(L, a)
      BY <2>2 DEF ReviewsIn
    <3> HIDE DEF x, y
    <3>5. CASE x.review = "RESOLVED"
      <4>1. PICK o \in OpId, q \in OpId :
              /\ Taking(L, a, o, "OPEN_REVIEW") /\ Taking(L, a, q, "RESOLVE_REVIEW")
              /\ \A p \in OpId : L.reviewAction[<<a, p>>] # None => p \in {o, q}
              /\ L.operation[<<Regulator, o>>].version < L.operation[<<Regulator, q>>].version
        BY <3>4, <3>5 DEF Progress, x
      <4>2. /\ Taking(M, a, o, "OPEN_REVIEW") /\ Taking(M, a, q, "RESOLVE_REVIEW")
            /\ \A p \in OpId : M.reviewAction[<<a, p>>] # None => p \in {o, q}
            /\ M.operation[<<Regulator, o>>].version < M.operation[<<Regulator, q>>].version
        BY <3>2, <3>3, <4>1 DEF Taking
      <4>3. (y.review = "NOT_REQUIRED") <=> (y.score.classification = "NO_SIGNAL")
        BY <3>1, <3>4 DEF Progress, x
      <4> QED BY <3>1, <3>5, <4>2, <4>3 DEF Progress, y
    <3>6. CASE x.review # "RESOLVED"
      BY <3>1, <3>2, <3>4, <3>6 DEF Progress, Taking, x, y
    <3> QED BY <3>5, <3>6
  <2>3. CASE x # None /\ reviewing /\ a = c.anomaly
    <3>1. /\ x \in Anomaly /\ x.score.classification = "REVIEW_REQUIRED"
          /\ x.review = Review[ActionOf(c.fn)].from
      BY <2>3, ReviewGuard
    <3>2. y = [x EXCEPT !.review = Review[ActionOf(c.fn)].to]
      BY <1>1, <2>3 DEF Effect, Reviewed
    <3>3. Progress(L, a)
      BY <2>3 DEF ReviewsIn
    <3> HIDE DEF x, y
    <3>4. y.score.classification = "REVIEW_REQUIRED" /\ y.review = Review[ActionOf(c.fn)].to
      BY <3>1, <3>2 DEF Anomaly
    <3>5. CASE c.fn = "OpenReview"
      <4>1. x.review = "OPEN" /\ y.review = "IN_REVIEW"
        BY <3>1, <3>4, <3>5 DEF Review, ActionOf
      <4>2. \A o \in OpId : L.reviewAction[<<a, o>>] = None
        BY <3>3, <4>1 DEF Progress, x
      <4>3. /\ Taking(M, a, c.op, "OPEN_REVIEW")
            /\ \A p \in OpId : M.reviewAction[<<a, p>>] # None => p = c.op
        BY <1>2, <1>3, <2>3, <3>5, <4>2 DEF Taking, ActionOf, k
      <4> QED BY <1>2, <2>3, <3>4, <4>1, <4>3 DEF Progress, y
    <3>6. CASE c.fn = "ResolveReview"
      <4>1. x.review = "IN_REVIEW" /\ y.review = "RESOLVED"
        BY <3>1, <3>4, <3>6 DEF Review, ActionOf
      <4>2. PICK o \in OpId : /\ Taking(L, a, o, "OPEN_REVIEW")
                              /\ \A p \in OpId : L.reviewAction[<<a, p>>] # None => p = o
        BY <3>3, <4>1 DEF Progress, x
      <4>3. o # c.op
        BY <1>2, <2>3, <4>2 DEF Taking, k
      <4>4. Taking(M, a, o, "OPEN_REVIEW") /\ Taking(M, a, c.op, "RESOLVE_REVIEW")
        BY <1>2, <1>3, <2>3, <3>6, <4>2, <4>3 DEF Taking, ActionOf, k
      <4>5. \A p \in OpId : M.reviewAction[<<a, p>>] # None => p \in {o, c.op}
        BY <1>3, <4>2
      <4>6. M.operation[<<Regulator, o>>].version < M.operation[<<Regulator, c.op>>].version
        <5> DEFINE i == <<Regulator, o>>
        <5>1. i \in OpKey /\ L.operation[i] # None /\ L.operation[i].batch = c.batch
          BY <1>2, <1>7, <2>3, <4>2 DEF Taking
        <5>2. M.operation[i] = L.operation[i]
          BY <1>4, <5>1
        <5>3. L.operation[i].version \in Nat /\ L.operation[i].version <= version(L, c.batch)
          BY <1>1, <5>1, ReceiptBound
        <5>4. version(L, c.batch) \in Nat
          BY VersionsAfter
        <5> QED BY <1>2, <2>3, <5>2, <5>3, <5>4
      <4>7. /\ y.review = "RESOLVED" /\ y.score.classification = "REVIEW_REQUIRED"
            /\ c.op \in OpId
        BY <1>2, <2>3, <3>4, <4>1
      <4> QED BY <4>4, <4>5, <4>6, <4>7 DEF Progress, y
    <3> QED BY <2>3, <3>5, <3>6 DEF Reviews
  <2> QED BY <2>1, <2>2, <2>3
<1> QED BY <1>6, <1>8, <1>9 DEF ReviewsIn

-----------------------------------------------------------------------------
(* Records last                                                            *)

\* No entry of table t is written over.
Kept(L, M, t) == \A i \in Keys[t] : L[t][i] # None => M[t][i] = L[t][i]

\* The tables whose entries are never written twice.
Lasting == Table \ {"batch", "batchEvidence", "transfer", "pendingTransfer",
                    "owner", "state", "anomaly"}

\* No entry of a lasting table is written over: each key a mutation writes was free.
LEMMA RecordsKept ==
  ASSUME NEW L, NEW c, NEW M, Effect(L, c, M), Chained(L), OpeningsIn(L), FreightIn(L),
         SoldIn(L), EvaluatedIn(L), ReviewsIn(L)
  PROVE  \A t \in Lasting : Kept(L, M, t)
<1> DEFINE buy == Doc(c, "PURCHASE_INVOICE")
           inv == Doc(c, "FREIGHT_INVOICE")
<1>1. /\ c \in Command /\ IsWorld(L) /\ c.fn \in Mutation /\ Evidenced(L, c, quantity(L, c))
      /\ c.batch \in BatchId
      /\ \A t \in Table : L[t] \in [Keys[t] -> Opt(Values[t])]
  BY DEF Effect, Accepts, Mutation, Admitted, IsWorld
<1>2. /\ Ids(c) \subseteq DocId
      /\ \A i \in Ids(c) : L.document[i] = None
  <2>1. Ids(c) \subseteq DocId
    BY DocumentsAfter
  <2>2. \A d \in c.docs : L.document[d.id] = None
    BY <1>1 DEF Evidenced, Unused, UnusedDocuments
  <2> QED BY <2>1, <2>2 DEF Ids
<1>3. Kept(L, M, "configuration") /\ Kept(L, M, "policy") /\ Kept(L, M, "sourceKey")
  BY DEF Kept, Effect, Unconfigured
<1>4. Kept(L, M, "operation") /\ Kept(L, M, "history")
  <2> DEFINE k == <<c.actor, c.op>>
             h == <<c.batch, receipt(L, c).version>>
  <2>1. /\ M.operation = [L.operation EXCEPT ![k] = receipt(L, c)]
        /\ M.history = [L.history EXCEPT ![h] = receipt(L, c)]
    BY DEF Effect, Receipted
  <2>2. /\ L.operation \in [OpKey -> Opt(Receipt)]
        /\ L.history \in [BatchId \X (1..MaxVersion) -> Opt(Receipt)]
    BY <1>1, RecordsTyped
  <2>3. L.operation[k] = None
    BY ReceiptTyped
  <2>4. L.history[h] = None
    <3> DEFINE v == version(L, c.batch) + 1
    <3>1. v \in 1..MaxVersion /\ version(L, c.batch) \in Nat /\ h = <<c.batch, v>>
      BY VersionsAfter DEF receipt
    <3>2. (L.history[<<c.batch, v>>] # None) <=> (v <= version(L, c.batch))
      BY <1>1, <3>1 DEF Chained
    <3> QED BY <3>1, <3>2
  <2>5. Keys["operation"] = OpKey /\ Keys["history"] = BatchId \X (1..MaxVersion)
    BY DEF Keys
  <2> HIDE DEF k, h
  <2> QED BY <2>1, <2>2, <2>3, <2>4, <2>5 DEF Kept
<1>5. Kept(L, M, "document")
  <2>1. \A i \in DocId \ Ids(c) : M.document[i] = L.document[i]
    BY DocumentsAfter
  <2> QED BY <1>2, <2>1 DEF Kept, Keys
<1>6. Kept(L, M, "sourceUse") /\ Kept(L, M, "nonceUse")
  <2>1. /\ M.sourceUse = Overwrite(L.sourceUse, [u \in Uses(c) |-> use(c)])
        /\ M.nonceUse = Overwrite(L.nonceUse, [n \in Nonces(c) |-> use(c)])
    BY DEF Effect, Documented
  <2>2. /\ \A u \in Uses(c) : L.sourceUse[u] = None
        /\ \A n \in Nonces(c) : L.nonceUse[n] = None
    BY <1>1 DEF Evidenced, Unused
  <2>3. /\ L.sourceUse \in [Issuer \X DocId -> Opt(Use)]
        /\ L.nonceUse \in [Issuer \X Nonce -> Opt(Use)]
    BY <1>1, RecordsTyped
  <2>4. Keys["sourceUse"] = Issuer \X DocId /\ Keys["nonceUse"] = Issuer \X Nonce
    BY DEF Keys
  <2> HIDE DEF Uses, Nonces
  <2> QED BY <2>1, <2>2, <2>3, <2>4 DEF Kept, Overwrite
<1>7. Kept(L, M, "documentReference")
  <2>1. L.documentReference \in [DocId -> Opt(Use)] /\ Keys["documentReference"] = DocId
    BY <1>1, RecordsTyped DEF Keys
  <2>2. CASE c.fn \in {"CreateBatch", "OfferPickup"}
    <3>1. M.documentReference = Overwrite(L.documentReference, [i \in Ids(c) |-> use(c)])
      BY <2>2 DEF Effect, Documented
    <3>2. \A i \in Ids(c) : L.documentReference[i] = None
      BY <2>2 DEF Effect, Accepts, CanCreateBatch, CanOfferPickup, Unconsumed, Ids
    <3> HIDE DEF Ids
    <3> QED BY <2>1, <3>1, <3>2 DEF Kept, Overwrite
  <2>3. CASE c.fn \notin {"CreateBatch", "OfferPickup"}
    BY <2>3 DEF Effect, Documented, Kept
  <2> QED BY <2>2, <2>3
<1>8. Kept(L, M, "tradeOpening")
  <2>1. L.tradeOpening \in [DocId -> Opt(Purchase)] /\ Keys["tradeOpening"] = DocId
    BY <1>1, WorldTyped DEF Keys
  <2>2. CASE c.fn = "OfferPickup"
    <3>1. buy \in c.docs /\ M.tradeOpening = [L.tradeOpening EXCEPT ![buy.id] = Opening(buy)]
      BY <2>2, PurchaseGuard
    <3>2. buy.id \in Ids(c)
      BY <3>1 DEF Ids
    <3> HIDE DEF buy
    <3>3. L.tradeOpening[buy.id] = None
      BY <1>2, <3>2 DEF OpeningsIn
    <3> QED BY <2>1, <3>1, <3>3 DEF Kept
  <2>3. CASE c.fn # "OfferPickup"
    BY <2>3 DEF Effect, Documented, Kept
  <2> QED BY <2>2, <2>3
<1>9. /\ Kept(L, M, "costReference") /\ Kept(L, M, "cost") /\ Kept(L, M, "freightOpening")
  <2>1. /\ L.costReference \in [CostId -> Opt(BatchId)] /\ L.cost \in [CostId -> Opt(Cost)]
        /\ L.freightOpening \in [DocId -> Opt([quantity : Quantity, total : Total])]
        /\ Keys["costReference"] = CostId /\ Keys["cost"] = CostId
        /\ Keys["freightOpening"] = DocId
    BY <1>1, WorldTyped, RecordsTyped, ZenonT(60) DEF Keys
  <2>2. CASE c.fn = "RecordFreightCost"
    <3> DEFINE z == [quantity |-> inv.quantity, total |-> inv.total]
    <3>1. /\ M.costReference = [L.costReference EXCEPT ![c.cost] = c.batch]
          /\ M.cost = [L.cost EXCEPT ![c.cost] = newCost(c)]
          /\ M.freightOpening = [L.freightOpening EXCEPT ![inv.id] = z]
      BY <2>2 DEF Effect, Costed, newCost
    <3>2. c.cost \in CostId /\ L.costReference[c.cost] = None
      BY <2>2, FreightGuard
    <3>3. L.cost[c.cost] = None
      BY <3>2 DEF FreightIn
    <3>4. inv \in c.docs
      BY <2>2, DocOf DEF required
    <3>5. inv.id \in Ids(c)
      BY <3>4 DEF Ids
    <3> HIDE DEF inv, z
    <3>6. L.freightOpening[inv.id] = None
      BY <1>2, <3>5 DEF OpeningsIn
    <3> QED BY <2>1, <3>1, <3>2, <3>3, <3>6 DEF Kept
  <2>3. CASE c.fn # "RecordFreightCost"
    BY <2>3 DEF Effect, Costed, Kept
  <2> QED BY <2>2, <2>3
<1>10. Kept(L, M, "lot") /\ Kept(L, M, "reportReference") /\ Kept(L, M, "report")
  <2>1. /\ L.lot \in [LotId -> Opt(Lot)] /\ L.reportReference \in [ReportId -> Opt(BatchId)]
        /\ L.report \in [ReportId -> Opt(Report)]
        /\ Keys["lot"] = LotId /\ Keys["reportReference"] = ReportId /\ Keys["report"] = ReportId
    BY <1>1, WorldTyped, RecordsTyped DEF Keys
  <2>2. CASE c.fn = "ReportRetailPrice"
    <3>1. /\ c.report \in ReportId /\ L.lot[c.lot] = None /\ L.reportReference[c.report] = None
          /\ M.lot = [L.lot EXCEPT ![c.lot] = newLot(L, c)]
          /\ M.reportReference = [L.reportReference EXCEPT ![c.report] = c.batch]
          /\ M.report = [L.report EXCEPT ![c.report] = newReport(L, c)]
      BY <2>2, ReportGuard
    <3>2. L.report[c.report] = None
      BY <3>1 DEF SoldIn
    <3> QED BY <2>1, <3>1, <3>2 DEF Kept
  <2>3. CASE c.fn # "ReportRetailPrice"
    BY <2>3 DEF Effect, Reported, Kept
  <2> QED BY <2>2, <2>3
<1>11. Kept(L, M, "evaluation") /\ Kept(L, M, "anomalyReference")
  <2>1. /\ L.evaluation \in [BatchId -> Opt(Evaluation)]
        /\ L.anomalyReference \in [AnomalyId -> Opt(Evaluation)]
        /\ Keys["evaluation"] = BatchId /\ Keys["anomalyReference"] = AnomalyId
    BY <1>1, RecordsTyped DEF Keys
  <2>2. CASE c.fn = "EvaluatePrice"
    <3>1. \E x : /\ M.evaluation = [L.evaluation EXCEPT ![c.batch] = x]
                 /\ M.anomalyReference = [L.anomalyReference EXCEPT ![c.anomaly] = x]
      BY <2>2 DEF Effect, Scored
    <3>2. L.evaluation[c.batch] = None /\ L.anomalyReference[c.anomaly] = None
      BY <2>2, EvaluationGuard
    <3> QED BY <2>1, <3>1, <3>2 DEF Kept
  <2>3. CASE c.fn # "EvaluatePrice"
    BY <2>3 DEF Effect, Scored, Kept
  <2> QED BY <2>2, <2>3
<1>12. Kept(L, M, "reviewAction") /\ Kept(L, M, "reviewActionReference")
  <2> DEFINE k == <<c.anomaly, c.op>>
  <2>1. /\ L.reviewAction \in [AnomalyId \X OpId -> Opt(ReviewAction)]
        /\ L.reviewActionReference \in [AnomalyId \X OpId -> Opt(OpId)]
        /\ Keys["reviewAction"] = AnomalyId \X OpId
        /\ Keys["reviewActionReference"] = AnomalyId \X OpId
    BY <1>1, RecordsTyped, ZenonT(60) DEF Keys
  <2>2. CASE c.fn \in Reviews
    <3>1. \E x, y : /\ M.reviewAction = [L.reviewAction EXCEPT ![k] = x]
                    /\ M.reviewActionReference = [L.reviewActionReference EXCEPT ![k] = y]
      BY <2>2, ZenonT(60) DEF Effect, Reviewed
    <3>2. L.reviewAction[k] = None /\ L.reviewActionReference[k] = None
      BY <2>2, ReviewFresh
    <3> HIDE DEF k
    <3> QED BY <2>1, <3>1, <3>2 DEF Kept
  <2>3. CASE c.fn \notin Reviews
    BY <2>3 DEF Effect, Reviewed, Kept
  <2> QED BY <2>2, <2>3
<1> HIDE DEF buy, inv
<1>13. Lasting = {"configuration", "policy", "sourceKey", "operation", "history", "document",
                  "sourceUse", "nonceUse", "documentReference", "tradeOpening",
                  "costReference", "cost", "freightOpening", "lot", "reportReference",
                  "report", "evaluation", "anomalyReference", "reviewAction",
                  "reviewActionReference"}
  BY DEF Lasting, Table, Keys
<1> QED BY <1>3, <1>4, <1>5, <1>6, <1>7, <1>8, <1>9, <1>10, <1>11, <1>12, <1>13

-----------------------------------------------------------------------------
(* Scores                                                                  *)

\* Without a configuration there is no policy and no trusted key; the configured
\* policy is on record with its threshold.
Configured(L) ==
  LET cfg == L.configuration["v1"]
  IN  /\ cfg = None => /\ \A p \in PolicyId : L.policy[p] = None
                       /\ \A k \in SourceKey : L.sourceKey[k] = None
      /\ cfg # None => L.policy[cfg.policy] = cfg.threshold

\* A mutation leaves the configuration and its policy alone.
LEMMA ConfiguredKept ==
  ASSUME NEW L, NEW c, NEW M, Effect(L, c, M), Configured(L)
  PROVE  Configured(M)
BY DEF Effect, Unconfigured, Configured

\* The rule's verdict, on the prices of the anomaly's own batch.
Grounded(L, x) ==
  LET e  == L.batchEvidence[x.batch]
      up == (x.retail - x.purchase) * BasisPoints
  IN  /\ x.report = e.report
      /\ x.purchase = L.tradeOpening[e.purchase].price
      /\ x.retail = L.report[e.report].price
      /\ x.freight = L.cost[e.freight].total
      /\ x.threshold = L.policy[x.policy]
      /\ x.policy = L.report[e.report].policy
      /\ x.score.increaseBps * x.purchase <= up
      /\ up < (x.score.increaseBps + 1) * x.purchase
      /\ (x.score.classification = "REVIEW_REQUIRED") <=> (up > x.purchase * x.threshold)

GroundedIn(L) == \A a \in AnomalyId : L.anomaly[a] # None => Grounded(L, L.anomaly[a])

\* What an evaluated batch rests on is on record.
LEMMA OnRecord ==
  ASSUME NEW L, IsWorld(L), PairedIn(L), PurchasedIn(L), FreightIn(L), SoldIn(L), EvaluatedIn(L),
         NEW a \in AnomalyId, L.anomaly[a] # None
  PROVE  LET b == L.anomaly[a].batch
             e == L.batchEvidence[b]
         IN  /\ b \in BatchId /\ L.batch[b] # None /\ L.batch[b].state = "RETAIL_REPORTED"
             /\ e.purchase \in DocId /\ L.tradeOpening[e.purchase] # None
             /\ e.report \in ReportId /\ L.report[e.report] # None
             /\ e.freight \in CostId /\ L.cost[e.freight] # None
<1> DEFINE b == L.anomaly[a].batch
           e == L.batchEvidence[b]
<1>1. b \in BatchId /\ L.evaluation[b] # None
  <2>1. L.anomalyReference[a] # None
    BY DEF EvaluatedIn
  <2>2. Attached(L, a)
    BY <2>1 DEF EvaluatedIn
  <2> QED BY <2>2 DEF Attached
<1>2. L.batch[b] # None /\ L.batch[b].state = "RETAIL_REPORTED"
  BY <1>1 DEF EvaluatedIn, Evaluated
<1> HIDE DEF b
<1>3. e.purchase # None /\ e.purchase \in DocId /\ L.tradeOpening[e.purchase] # None
  BY <1>1, <1>2 DEF PurchasedIn, Purchased
<1>4. e.freight \in CostId /\ L.cost[e.freight] # None
  BY <1>1, <1>2 DEF FreightIn, Freighted, AtRetailer
<1>5. e.report \in ReportId /\ L.reportReference[e.report] = b
  BY <1>1, <1>2 DEF SoldIn, Sold
<1>6. L.report[e.report] # None
  <2>1. L.reportReference[e.report] # None
    BY <1>1, <1>5, NoneApart
  <2> QED BY <1>5, <2>1 DEF SoldIn
<1> QED BY <1>1, <1>2, <1>3, <1>4, <1>5, <1>6 DEF b

\* What an anomaly was computed from stays on record, and stays what it was.
LEMMA GroundedKept ==
  ASSUME NEW L, NEW c, NEW M, Effect(L, c, M), Chained(L), OpeningsIn(L), PurchasedIn(L),
         FreightIn(L), SoldIn(L), EvaluatedIn(L), ReviewsIn(L), Configured(L), GroundedIn(L)
  PROVE  GroundedIn(M)
<1>1. /\ IsWorld(L) /\ IsWorld(M) /\ PairedIn(L) /\ c.batch \in BatchId /\ c.fn \in Mutation
      /\ \A b \in BatchId \ {c.batch} : M.batchEvidence[b] = L.batchEvidence[b]
      /\ L.anomaly \in [AnomalyId -> Opt(Anomaly)]
      /\ M.policy = L.policy
  BY WorldTyped DEF Effect, Unconfigured
<1>2. /\ Kept(L, M, "tradeOpening") /\ Kept(L, M, "report") /\ Kept(L, M, "cost")
  <2>1. \A t \in Lasting : Kept(L, M, t)
    BY RecordsKept
  <2>2. "tradeOpening" \in Lasting /\ "report" \in Lasting /\ "cost" \in Lasting
    BY DEF Lasting, Table, Keys
  <2> QED BY <2>1, <2>2
<1>3. /\ \A i \in DocId : L.tradeOpening[i] # None => M.tradeOpening[i] = L.tradeOpening[i]
      /\ \A i \in ReportId : L.report[i] # None => M.report[i] = L.report[i]
      /\ \A i \in CostId : L.cost[i] # None => M.cost[i] = L.cost[i]
  BY <1>2 DEF Kept, Keys
<1>4. L.batch[c.batch] # None /\ L.batch[c.batch].state = "RETAIL_REPORTED" =>
        M.batchEvidence[c.batch] = L.batchEvidence[c.batch]
  <2> SUFFICES ASSUME L.batch[c.batch] # None, L.batch[c.batch].state = "RETAIL_REPORTED"
               PROVE  M.batchEvidence[c.batch] = L.batchEvidence[c.batch]
    OBVIOUS
  <2>1. c.fn \in {"EvaluatePrice", "OpenReview", "ResolveReview"}
    BY <1>1, BatchAfter DEF Before, Mutation, authorize
  <2>2. M.batchEvidence[c.batch] = nextEvidence(L, c)
    BY DEF Effect, Advances
  <2> QED BY <2>1, <2>2 DEF nextEvidence
<1>5. \A b \in BatchId : L.batch[b] # None /\ L.batch[b].state = "RETAIL_REPORTED" =>
        M.batchEvidence[b] = L.batchEvidence[b]
  BY <1>1, <1>4
<1>6. ASSUME NEW a \in AnomalyId, L.anomaly[a] # None
      PROVE  Grounded(M, M.anomaly[a])
  <2> DEFINE x == L.anomaly[a]
             y == M.anomaly[a]
             b == x.batch
             e == L.batchEvidence[b]
  <2>1. Grounded(L, x)
    BY <1>6 DEF GroundedIn
  <2>2. x \in Anomaly /\ y = [x EXCEPT !.review = y.review]
    BY <1>6, AnomalyAfter
  <2>3. /\ b \in BatchId /\ L.batch[b] # None /\ L.batch[b].state = "RETAIL_REPORTED"
        /\ e.purchase \in DocId /\ L.tradeOpening[e.purchase] # None
        /\ e.report \in ReportId /\ L.report[e.report] # None
        /\ e.freight \in CostId /\ L.cost[e.freight] # None
    BY <1>1, <1>6, OnRecord
  <2> HIDE DEF x, y
  <2>4. /\ y.batch = b /\ y.report = x.report /\ y.policy = x.policy
        /\ y.purchase = x.purchase /\ y.retail = x.retail /\ y.freight = x.freight
        /\ y.threshold = x.threshold /\ y.score = x.score
    BY <2>2 DEF Anomaly
  <2>5. /\ M.batchEvidence[b] = e
        /\ M.tradeOpening[e.purchase] = L.tradeOpening[e.purchase]
        /\ M.report[e.report] = L.report[e.report]
        /\ M.cost[e.freight] = L.cost[e.freight]
    BY <1>3, <1>5, <2>3
  <2> HIDE DEF b, e
  <2>6. Grounded(M, y)
    BY <1>1, <2>1, <2>4, <2>5 DEF Grounded, b, e
  <2> QED BY <2>6 DEF y
<1>7. ASSUME NEW a \in AnomalyId, L.anomaly[a] = None, M.anomaly[a] # None
      PROVE  Grounded(M, M.anomaly[a])
  <2> DEFINE x == scored(L, c)
             e == L.batchEvidence[c.batch]
             cfg == L.configuration["v1"]
             up == (x.retail - x.purchase) * BasisPoints
  <2>1. c.fn = "EvaluatePrice" /\ a = c.anomaly
    <3>1. CASE c.fn = "EvaluatePrice"
      <4>1. M.anomaly = [L.anomaly EXCEPT ![c.anomaly] = scored(L, c)]
        BY <3>1 DEF Effect, Scored
      <4> QED BY <1>1, <1>7, <3>1, <4>1
    <3>2. CASE c.fn \in Reviews
      <4>1. \E y : M.anomaly = [L.anomaly EXCEPT ![c.anomaly] = y]
        BY <3>2 DEF Effect, Reviewed
      <4>2. L.anomaly[c.anomaly] # None
        BY <3>2, ReviewGuard
      <4> QED BY <1>1, <1>7, <4>1, <4>2
    <3>3. CASE c.fn # "EvaluatePrice" /\ c.fn \notin Reviews
      <4>1. M.anomaly = L.anomaly
        BY <3>3 DEF Effect, Reviewed
      <4> QED BY <1>7, <4>1
    <3> QED BY <3>1, <3>2, <3>3
  <2>2. M.anomaly[a] = x
    <3>1. M.anomaly = [L.anomaly EXCEPT ![c.anomaly] = x]
      BY <2>1 DEF Effect, Scored
    <3> QED BY <1>1, <2>1, <3>1
  <2>3. From(L, c, x) /\ cfg \in Configuration /\ L.batch[c.batch].state = "RETAIL_REPORTED"
    BY <2>1, EvaluationGuard
  <2>4. L.batch[c.batch] # None
    BY <2>1, BatchAfter
  <2> HIDE DEF x
  <2>5. L.policy[cfg.policy] = cfg.threshold
    BY <2>3, EngineAssumption, ValuesOf DEF Configured, Table, Keys
  <2>6. /\ x.batch = c.batch /\ x.report = e.report
        /\ x.purchase = L.tradeOpening[e.purchase].price
        /\ x.retail = L.report[e.report].price
        /\ x.freight = L.cost[e.freight].total
        /\ x.policy = cfg.policy /\ x.threshold = cfg.threshold
        /\ x.policy = L.report[e.report].policy
        /\ x.purchase \in Int /\ x.retail \in Int /\ x.threshold \in Int
        /\ Accepted(x.purchase, x.retail, x.threshold)
        /\ x.score = priceScore(x.purchase, x.retail, x.threshold)
    BY <2>3 DEF From
  <2>7. /\ x.score.increaseBps * x.purchase <= up
        /\ up < (x.score.increaseBps + 1) * x.purchase
        /\ (x.score.classification = "REVIEW_REQUIRED") <=> (up > x.purchase * x.threshold)
    <3> DEFINE p == x.purchase
               q == x.retail
               t == x.threshold
    <3>1. /\ numerator(p, q) = up /\ Wrap(p * t) = p * t /\ 0 < p
      BY <2>6, NumeratorExact DEF Accepted
    <3>2. x.score = score(p, q, t)
      BY <2>6, ScoresAgree
    <3> HIDE DEF p, q, t, up
    <3>3. /\ x.score.increaseBps = up \div p
          /\ (x.score.classification = "REVIEW_REQUIRED") <=> (up > p * t)
      BY <3>1, <3>2 DEF score, Score, Signal, floorDiv
    <3>4. p \in Int /\ up \in Int
      <4>1. \A i, j \in Int : i * j \in Int
        OBVIOUS
      <4>2. p \in Int /\ q - p \in Int /\ BasisPoints \in Int
        <5>1. p \in Int /\ q \in Int
          BY <2>6 DEF p, q
        <5>2. BasisPoints \in Nat
          BY PriceAssumption
        <5> QED BY <5>1, <5>2
      <4>3. up = (q - p) * BasisPoints
        BY DEF up, p, q
      <4> QED BY <4>1, <4>2, <4>3
    <3>5. (up \div p) * p <= up /\ up < (up \div p + 1) * p
      BY <3>1, <3>4, FloorBounds
    <3> QED BY <3>3, <3>5 DEF p, t
  <2>8. /\ M.batchEvidence[c.batch] = e
        /\ M.tradeOpening = L.tradeOpening /\ M.report = L.report /\ M.cost = L.cost
    <3>1. M.batchEvidence[c.batch] = e
      BY <1>4, <2>3, <2>4
    <3> QED BY <2>1, <3>1 DEF Effect, Documented, Reported, Costed
  <2> HIDE DEF e, cfg
  <2>9. Grounded(M, x)
    BY <1>1, <2>5, <2>6, <2>7, <2>8 DEF Grounded
  <2> QED BY <2>2, <2>9
<1> QED BY <1>6, <1>7 DEF GroundedIn

-----------------------------------------------------------------------------
(* Evidence is used once                                                   *)

\* The document in the place that its type has behind a batch.
PlaceOf(L, b, type) ==
  LET refs == L.batchEvidence[b]
  IN  CASE type = "PRODUCER_ELIGIBILITY" -> refs.cks
        [] type = "PURCHASE_INVOICE"     -> refs.purchase
        [] type = "TRADE_NOTIFICATION"   -> refs.hks
        [] type = "TRANSPORT_MANIFEST"   -> refs.transport
        [] OTHER -> IF refs.freight = None THEN None ELSE L.cost[refs.freight].doc

\* Document d is in the place of its type, put there by an operation with a receipt.
Filled(L, d) ==
  LET x == L.document[d]
  IN  /\ L.batch[x.batch] # None
      /\ PlaceOf(L, x.batch, x.type) = d
      /\ \E m \in Member : /\ L.operation[<<m, x.op>>] # None
                           /\ L.operation[<<m, x.op>>].batch = x.batch
                           /\ x.type \in required(L.operation[<<m, x.op>>].fn)

\* What is in a place of batch b is on record as a document of the batch.
Filling(L, b, type) ==
  LET d == PlaceOf(L, b, type)
  IN  d # None => /\ d \in DocId /\ L.document[d] # None
                  /\ L.document[d].batch = b /\ L.document[d].type = type

\* Documents and places, one for one; a batch that was only created has no pickup
\* documents yet.
PlacedIn(L) ==
  /\ \A d \in DocId : L.document[d] # None => Filled(L, d)
  /\ \A b \in BatchId, type \in DocType : L.batch[b] # None => Filling(L, b, type)
  /\ \A b \in BatchId : L.batch[b] # None /\ L.batch[b].state = "CREATED" =>
       L.batchEvidence[b].hks = None /\ L.batchEvidence[b].transport = None

\* The types of documents.
LEMMA DocTypes ==
  DocType = {"PRODUCER_ELIGIBILITY", "PURCHASE_INVOICE", "TRADE_NOTIFICATION",
             "TRANSPORT_MANIFEST", "FREIGHT_INVOICE"}
BY DEF DocType, SystemOf

\* A mutation fills the places of the documents it requires, which were free, and
\* no others.
LEMMA PlacesAfter ==
  ASSUME NEW L, NEW c, NEW M, Effect(L, c, M), PurchasedIn(L), FreightIn(L),
         Kept(L, M, "cost"), PlacedIn(L), NEW type \in DocType
  PROVE  /\ type \in required(c.fn) =>
              /\ PlaceOf(M, c.batch, type) = Doc(c, type).id
              /\ L.batch[c.batch] # None => PlaceOf(L, c.batch, type) = None
         /\ type \notin required(c.fn) =>
              PlaceOf(M, c.batch, type) = IF L.batch[c.batch] = None THEN None
                                          ELSE PlaceOf(L, c.batch, type)
         /\ \A b \in BatchId \ {c.batch} : L.batch[b] # None =>
              PlaceOf(M, b, type) = PlaceOf(L, b, type)
<1> DEFINE r == L.batch[c.batch]
           e == L.batchEvidence[c.batch]
           f == M.batchEvidence[c.batch]
<1>1. /\ c.batch \in BatchId /\ c.fn \in Mutation /\ IsWorld(L)
      /\ \A b \in BatchId \ {c.batch} : /\ M.batchEvidence[b] = L.batchEvidence[b]
                                       /\ M.batch[b] = L.batch[b]
  BY DEF Effect
<1>2. /\ f.cks = IF c.fn = "CreateBatch" THEN Doc(c, "PRODUCER_ELIGIBILITY").id ELSE e.cks
      /\ f.purchase = IF c.fn = "CreateBatch" THEN None
                      ELSE IF c.fn = "OfferPickup" THEN Doc(c, "PURCHASE_INVOICE").id
                      ELSE e.purchase
      /\ f.hks = IF c.fn = "CreateBatch" THEN None
                 ELSE IF c.fn = "OfferPickup" THEN Doc(c, "TRADE_NOTIFICATION").id
                 ELSE e.hks
      /\ f.transport = IF c.fn = "CreateBatch" THEN None
                       ELSE IF c.fn = "OfferPickup" THEN Doc(c, "TRANSPORT_MANIFEST").id
                       ELSE e.transport
      /\ f.freight = IF c.fn = "CreateBatch" THEN None
                     ELSE IF c.fn = "RecordFreightCost" THEN c.cost ELSE e.freight
  BY RefsAfter
<1>3. /\ (c.fn = "CreateBatch") <=> (r = None)
      /\ r # None => r.state \in Before(c.fn)
  BY BatchAfter
<1>4. \A b \in BatchId : L.batch[b] # None /\ L.batchEvidence[b].freight # None =>
        M.cost[L.batchEvidence[b].freight] = L.cost[L.batchEvidence[b].freight]
  <2> SUFFICES ASSUME NEW b \in BatchId, L.batch[b] # None, L.batchEvidence[b].freight # None
               PROVE  M.cost[L.batchEvidence[b].freight] = L.cost[L.batchEvidence[b].freight]
    OBVIOUS
  <2>1. L.batchEvidence[b].freight \in CostId /\ L.cost[L.batchEvidence[b].freight] # None
    BY DEF FreightIn, Freighted
  <2> QED BY <2>1 DEF Kept, Keys
<1>5. c.fn = "RecordFreightCost" =>
        /\ e.freight = None /\ c.cost # None
        /\ M.cost[c.cost].doc = Doc(c, "FREIGHT_INVOICE").id
  <2> SUFFICES ASSUME c.fn = "RecordFreightCost"
               PROVE  /\ e.freight = None /\ c.cost # None
                      /\ M.cost[c.cost].doc = Doc(c, "FREIGHT_INVOICE").id
    OBVIOUS
  <2>1. e.freight = None /\ c.cost \in CostId
    BY FreightGuard
  <2>2. M.cost = [L.cost EXCEPT ![c.cost] = newCost(c)] /\ L.cost \in [CostId -> Opt(Cost)]
    BY <1>1, WorldTyped DEF Effect, Costed, newCost
  <2>3. M.cost[c.cost] = newCost(c)
    BY <2>1, <2>2
  <2>4. newCost(c).doc = Doc(c, "FREIGHT_INVOICE").id
    BY DEF newCost
  <2> QED BY <2>1, <2>3, <2>4, NoneApart
<1>6. c.fn = "OfferPickup" => e.purchase = None /\ e.hks = None /\ e.transport = None
  <2> SUFFICES ASSUME c.fn = "OfferPickup"
               PROVE  e.purchase = None /\ e.hks = None /\ e.transport = None
    OBVIOUS
  <2>1. r # None /\ r.state = "CREATED"
    BY <1>3 DEF Before
  <2> QED BY <1>1, <2>1 DEF PurchasedIn, Purchased, PlacedIn
<1>7. required(c.fn) = IF c.fn = "CreateBatch" THEN {"PRODUCER_ELIGIBILITY"}
                       ELSE IF c.fn = "OfferPickup"
                       THEN {"PURCHASE_INVOICE", "TRADE_NOTIFICATION", "TRANSPORT_MANIFEST"}
                       ELSE IF c.fn = "RecordFreightCost" THEN {"FREIGHT_INVOICE"} ELSE {}
  BY DEF required
<1>8. r # None /\ e.freight # None => M.cost[e.freight] = L.cost[e.freight]
  BY <1>1, <1>4
<1> HIDE DEF r, e, f
<1>9. type \in required(c.fn) =>
        /\ PlaceOf(M, c.batch, type) = Doc(c, type).id
        /\ r # None => PlaceOf(L, c.batch, type) = None
  <2>1. CASE c.fn = "CreateBatch"
    BY <1>2, <1>3, <1>7, <2>1 DEF PlaceOf, f
  <2>2. CASE c.fn = "OfferPickup"
    BY <1>2, <1>6, <1>7, <2>2 DEF PlaceOf, e, f
  <2>3. CASE c.fn = "RecordFreightCost"
    BY <1>2, <1>5, <1>7, <2>3 DEF PlaceOf, e, f
  <2>4. CASE c.fn \notin {"CreateBatch", "OfferPickup", "RecordFreightCost"}
    BY <1>7, <2>4
  <2> QED BY <2>1, <2>2, <2>3, <2>4
<1>10. type \notin required(c.fn) =>
         PlaceOf(M, c.batch, type) = IF r = None THEN None ELSE PlaceOf(L, c.batch, type)
  <2>1. CASE c.fn = "CreateBatch"
    BY <1>2, <1>3, <1>7, <2>1, DocTypes DEF PlaceOf, f
  <2>2. CASE c.fn = "OfferPickup"
    BY <1>2, <1>3, <1>7, <1>8, <2>2, DocTypes DEF PlaceOf, e, f
  <2>3. CASE c.fn = "RecordFreightCost"
    BY <1>2, <1>3, <1>7, <2>3, DocTypes DEF PlaceOf, e, f
  <2>4. CASE c.fn \notin {"CreateBatch", "OfferPickup", "RecordFreightCost"}
    BY <1>2, <1>3, <1>8, <2>4, DocTypes DEF PlaceOf, e, f
  <2> QED BY <2>1, <2>2, <2>3, <2>4
<1>11. ASSUME NEW b \in BatchId \ {c.batch}, L.batch[b] # None
       PROVE  PlaceOf(M, b, type) = PlaceOf(L, b, type)
  BY <1>1, <1>4, <1>11, DocTypes DEF PlaceOf
<1> QED BY <1>9, <1>10, <1>11 DEF r

\* The documents on the ledger stay in their places, and new ones come to theirs.
LEMMA PlacedKept ==
  ASSUME NEW L, NEW c, NEW M, Effect(L, c, M), PurchasedIn(L), FreightIn(L),
         Kept(L, M, "cost"), PlacedIn(L)
  PROVE  PlacedIn(M)
<1>1. /\ c \in Command /\ c.batch \in BatchId /\ c.fn \in Mutation
      /\ IsWorld(L) /\ IsWorld(M)
      /\ \A b \in BatchId \ {c.batch} : /\ M.batchEvidence[b] = L.batchEvidence[b]
                                       /\ M.batch[b] = L.batch[b]
  BY DEF Effect
<1>2. /\ c.docs \subseteq Document /\ Ids(c) \subseteq DocId
      /\ {d.type : d \in c.docs} = required(c.fn)
      /\ \A d \in c.docs :
           /\ L.document[d.id] = None
           /\ M.document[d.id] = [batch |-> c.batch, op |-> c.op, type |-> d.type]
           /\ M.document[d.id] # None
      /\ \A i \in DocId \ Ids(c) : M.document[i] = L.document[i]
  BY DocumentsAfter
<1>3. /\ (c.fn = "CreateBatch") <=> (L.batch[c.batch] = None)
      /\ L.batch[c.batch] # None => L.batch[c.batch].state \in Before(c.fn)
      /\ M.batch[c.batch] # None
      /\ M.batch[c.batch].state = After(c.fn, L.batch[c.batch].state)
  BY BatchAfter
<1>4. /\ receipt(L, c) \in Receipt /\ receipt(L, c) # None
      /\ <<c.actor, c.op>> \in OpKey
      /\ L.operation[<<c.actor, c.op>>] = None
  BY ReceiptTyped
<1>5. \A e \in c.docs : e.type \in required(c.fn) /\ Doc(c, e.type) = e
  <2> SUFFICES ASSUME NEW e \in c.docs
               PROVE  e.type \in required(c.fn) /\ Doc(c, e.type) = e
    OBVIOUS
  <2>1. e.type \in required(c.fn)
    BY <1>2
  <2>2. Doc(c, e.type) \in c.docs /\ Doc(c, e.type).type = e.type
    BY <2>1, DocOf
  <2>3. \E q : Evidenced(L, c, q)
    BY <1>1, Zenon DEF Effect, Accepts, Admitted, Mutation
  <2>4. PICK q : Evidenced(L, c, q)
    BY <2>3
  <2>5. Doc(c, e.type) = e
    BY <1>1, <2>2, <2>4, DocumentsApart
  <2> QED BY <2>1, <2>5
<1>6. None \notin DocId
  BY NoneApart
<1>7. \A d \in DocId : L.document[d] # None =>
        /\ L.document[d].batch \in BatchId /\ L.document[d].type \in DocType
        /\ L.document[d].op \in OpId
  <2> SUFFICES ASSUME NEW d \in DocId, L.document[d] # None
               PROVE  /\ L.document[d].batch \in BatchId /\ L.document[d].type \in DocType
                      /\ L.document[d].op \in OpId
    OBVIOUS
  <2>1. L.document[d] \in [batch : BatchId, op : OpId, type : DocType]
    BY <1>1, RecordsTyped DEF Opt
  <2> QED BY <2>1
<1>8. \A b \in BatchId : L.batch[b] # None => M.batch[b] # None
  BY <1>1, <1>3
<1>9. ASSUME NEW d \in DocId, M.document[d] # None PROVE Filled(M, d)
  <2>1. CASE d \in Ids(c)
    <3>1. PICK e \in c.docs : e.id = d
      BY <2>1 DEF Ids
    <3>2. M.document[d] = [batch |-> c.batch, op |-> c.op, type |-> e.type]
      BY <1>2, <3>1
    <3>3. e.type \in required(c.fn) /\ Doc(c, e.type) = e /\ e.type \in DocType
      BY <1>2, <1>5, <3>1 DEF Document
    <3>4. PlaceOf(M, c.batch, e.type) = Doc(c, e.type).id
      BY <3>3, PlacesAfter
    <3>5. M.operation[<<c.actor, c.op>>] = receipt(L, c)
      BY <1>1, <1>4, RecordsTyped DEF Effect, Receipted
    <3>6. receipt(L, c).batch = c.batch /\ receipt(L, c).fn = c.fn
      BY DEF receipt
    <3>7. c.actor \in Member
      BY <1>1, CommandTyped
    <3>8. /\ M.document[d].batch = c.batch /\ M.document[d].type = e.type
          /\ M.document[d].op = c.op
      BY <3>2
    <3> QED BY <1>3, <1>4, <3>1, <3>3, <3>4, <3>5, <3>6, <3>7, <3>8 DEF Filled
  <2>2. CASE d \notin Ids(c)
    <3> DEFINE x == L.document[d]
    <3>1. M.document[d] = x /\ x # None
      BY <1>2, <1>9, <2>2
    <3>2. Filled(L, d)
      BY <3>1 DEF PlacedIn
    <3>3. x.batch \in BatchId /\ x.type \in DocType /\ x.op \in OpId
      BY <1>7, <3>1
    <3>4. L.batch[x.batch] # None /\ PlaceOf(L, x.batch, x.type) = d
      BY <3>2 DEF Filled
    <3>5. PICK m \in Member : /\ L.operation[<<m, x.op>>] # None
                              /\ L.operation[<<m, x.op>>].batch = x.batch
                              /\ x.type \in required(L.operation[<<m, x.op>>].fn)
      BY <3>2 DEF Filled
    <3>6. <<m, x.op>> \in OpKey
      BY <3>3 DEF OpKey
    <3>7. M.operation[<<m, x.op>>] = L.operation[<<m, x.op>>]
      BY <3>5, <3>6, ReceiptsStay
    <3> HIDE DEF x
    <3>8. PlaceOf(M, x.batch, x.type) = d
      <4>1. CASE x.batch = c.batch
        <5>1. x.type \notin required(c.fn)
          <6> SUFFICES ASSUME x.type \in required(c.fn) PROVE FALSE
            OBVIOUS
          <6>1. PlaceOf(L, c.batch, x.type) = None
            BY <3>3, <3>4, <4>1, PlacesAfter
          <6> QED BY <1>6, <3>4, <4>1, <6>1
        <5>2. PlaceOf(M, c.batch, x.type) = IF L.batch[c.batch] = None THEN None
                                            ELSE PlaceOf(L, c.batch, x.type)
          BY <3>3, <5>1, PlacesAfter
        <5> QED BY <3>4, <4>1, <5>2
      <4>2. CASE x.batch # c.batch
        <5>1. \A b \in BatchId \ {c.batch} : L.batch[b] # None =>
                PlaceOf(M, b, x.type) = PlaceOf(L, b, x.type)
          BY <3>3, PlacesAfter
        <5> QED BY <3>3, <3>4, <4>2, <5>1
      <4> QED BY <4>1, <4>2
    <3>9. M.batch[x.batch] # None
      BY <1>8, <3>3, <3>4
    <3> QED BY <3>1, <3>5, <3>7, <3>8, <3>9 DEF Filled
  <2> QED BY <2>1, <2>2
<1>10. \A d \in DocId : L.document[d] # None => M.document[d] = L.document[d]
  <2> SUFFICES ASSUME NEW d \in DocId, L.document[d] # None
               PROVE  M.document[d] = L.document[d]
    OBVIOUS
  <2>1. \A e \in c.docs : e.id # d
    BY <1>2
  <2>2. d \notin Ids(c)
    BY <2>1 DEF Ids
  <2> QED BY <1>2, <2>2
<1>11. ASSUME NEW b \in BatchId, NEW type \in DocType, M.batch[b] # None
       PROVE  Filling(M, b, type)
  <2>1. ASSUME PlaceOf(M, b, type) = PlaceOf(L, b, type), L.batch[b] # None
        PROVE  Filling(M, b, type)
    <3>1. Filling(L, b, type)
      BY <2>1 DEF PlacedIn
    <3> QED BY <1>10, <2>1, <3>1 DEF Filling
  <2>2. CASE b # c.batch
    <3>1. \A a \in BatchId \ {c.batch} : L.batch[a] # None =>
            PlaceOf(M, a, type) = PlaceOf(L, a, type)
      BY PlacesAfter
    <3> QED BY <1>1, <1>11, <2>1, <2>2, <3>1
  <2>3. CASE b = c.batch /\ type \in required(c.fn)
    <3>1. PlaceOf(M, c.batch, type) = Doc(c, type).id
      BY <2>3, PlacesAfter
    <3>2. /\ Doc(c, type) \in c.docs
          /\ Doc(c, type).type = type /\ Doc(c, type).id \in DocId
      BY <2>3, DocOf
    <3>3. /\ M.document[Doc(c, type).id] =
               [batch |-> c.batch, op |-> c.op, type |-> Doc(c, type).type]
          /\ M.document[Doc(c, type).id] # None
      BY <1>2, <3>2
    <3> QED BY <2>3, <3>1, <3>2, <3>3 DEF Filling
  <2>4. CASE b = c.batch /\ type \notin required(c.fn)
    <3>1. PlaceOf(M, c.batch, type) = IF L.batch[c.batch] = None THEN None
                                      ELSE PlaceOf(L, c.batch, type)
      BY <2>4, PlacesAfter
    <3>2. CASE L.batch[c.batch] = None
      BY <2>4, <3>1, <3>2 DEF Filling
    <3>3. CASE L.batch[c.batch] # None
      BY <2>1, <2>4, <3>1, <3>3
    <3> QED BY <3>2, <3>3
  <2> QED BY <2>2, <2>3, <2>4
<1>12. ASSUME NEW b \in BatchId, M.batch[b] # None, M.batch[b].state = "CREATED"
       PROVE  M.batchEvidence[b].hks = None /\ M.batchEvidence[b].transport = None
  <2>1. CASE b # c.batch
    BY <1>1, <1>12, <2>1 DEF PlacedIn
  <2>2. CASE b = c.batch
    <3>1. c.fn = "CreateBatch"
      BY <1>3, <1>12, <2>2 DEF After, Before
    <3>2. /\ M.batchEvidence[c.batch].hks =
               IF c.fn = "CreateBatch" THEN None
               ELSE IF c.fn = "OfferPickup" THEN Doc(c, "TRADE_NOTIFICATION").id
               ELSE L.batchEvidence[c.batch].hks
          /\ M.batchEvidence[c.batch].transport =
               IF c.fn = "CreateBatch" THEN None
               ELSE IF c.fn = "OfferPickup" THEN Doc(c, "TRANSPORT_MANIFEST").id
               ELSE L.batchEvidence[c.batch].transport
      BY RefsAfter
    <3> QED BY <2>2, <3>1, <3>2
  <2> QED BY <2>1, <2>2
<1> QED BY <1>9, <1>11, <1>12 DEF PlacedIn

\* The entries of a table.
Occupied(K, T) == {i \in K : T[i] # None}
Filed(L, t) == Occupied(Keys[t], L[t])

\* As many sources and as many nonces are used up as there are documents.
UsesIn(L) ==
  /\ \A t \in EvidenceTables : IsFiniteSet(Filed(L, t))
  /\ \A t \in EvidenceTables : Cardinality(Filed(L, t)) = Cardinality(Filed(L, "document"))

\* Naming the elements of a finite set apart counts them.
LEMMA NamedApart ==
  ASSUME NEW D, IsFiniteSet(D), NEW f, DOMAIN f = D,
         \A d, e \in D : d # e => f[d] # f[e]
  PROVE  /\ IsFiniteSet({f[d] : d \in D})
         /\ Cardinality({f[d] : d \in D}) = Cardinality(D)
<1> DEFINE T == {f[d] : d \in D}
           g == [d \in D |-> f[d]]
<1>1. g \in [D -> T]
  OBVIOUS
<1>2. g \in Injection(D, T)
  BY <1>1 DEF Injection, IsInjective
<1>3. g \in Surjection(D, T)
  BY <1>1 DEF Surjection
<1>4. ExistsBijection(D, T)
  BY <1>2, <1>3 DEF ExistsBijection, Bijection
<1> HIDE DEF T
<1>5. IsFiniteSet(T) /\ Cardinality(T) = Cardinality(D)
  BY <1>4, FS_Bijection, Zenon
<1> QED BY <1>5 DEF T

\* A table that takes new entries has that many more.
LEMMA Grows ==
  ASSUME NEW K, NEW T, NEW M, NEW W, W \subseteq K, IsFiniteSet(W),
         IsFiniteSet(Occupied(K, T)),
         \A i \in W : T[i] = None /\ M[i] # None,
         \A i \in K \ W : M[i] = T[i]
  PROVE  /\ IsFiniteSet(Occupied(K, M))
         /\ Cardinality(Occupied(K, M)) = Cardinality(Occupied(K, T)) + Cardinality(W)
<1> DEFINE A == Occupied(K, T)
           B == Occupied(K, M)
<1>1. B = A \cup W /\ A \cap W = {}
  BY DEF Occupied
<1> HIDE DEF A, B
<1>0. IsFiniteSet(A)
  BY DEF A
<1>2. /\ IsFiniteSet(A \cup W)
      /\ Cardinality(A \cup W) = Cardinality(A) + Cardinality(W) - Cardinality(A \cap W)
  BY <1>0, FS_Union, Zenon
<1>3. Cardinality(A \cap W) = 0
  BY <1>1, FS_EmptySet
<1>4. Cardinality(A) \in Nat /\ Cardinality(W) \in Nat
  BY <1>0, FS_CardinalityType, Zenon
<1>5. IsFiniteSet(B) /\ Cardinality(B) = Cardinality(A) + Cardinality(W)
  BY <1>1, <1>2, <1>3, <1>4
<1> QED BY <1>5 DEF A, B

\* Each document of a mutation uses up a source and a nonce of its own.
LEMMA UsesKept ==
  ASSUME NEW L, NEW c, NEW M, Effect(L, c, M), UsesIn(L)
  PROVE  UsesIn(M)
<1> DEFINE id == [d \in c.docs |-> d.id]
           src == [d \in c.docs |-> <<d.issuer, d.src>>]
           non == [d \in c.docs |-> <<d.issuer, d.nonce>>]
<1>1. /\ c \in Command /\ c.batch \in BatchId /\ c.fn \in Mutation
      /\ IsWorld(L) /\ IsWorld(M) /\ Documented(L, c, M)
  BY DEF Effect
<1>2. IsFiniteSet(c.docs) /\ c.docs \subseteq Document
  BY <1>1, CommandTyped DEF Command, Bundles
<1>3. PICK q : Evidenced(L, c, q)
  BY <1>1, Zenon DEF Effect, Accepts, Admitted, Mutation
<1>4. Unused(L, c) /\ DistinctInBundle(c)
  BY <1>3 DEF Evidenced
<1>5. /\ use(c) \in Use /\ use(c) # None
      /\ \A i : [batch |-> c.batch, op |-> c.op,
                 type |-> (CHOOSE d \in c.docs : d.id = i).type] # None \/ i \notin Ids(c)
  <2>1. c.op \in OpId
    BY <1>1, CommandTyped
  <2>2. None \notin Use /\ None \notin [batch : BatchId, op : OpId, type : DocType]
    BY EngineAssumption, ValuesOf DEF Table, Keys
  <2>3. use(c) \in Use
    BY <1>1, <2>1 DEF use, Use
  <2>4. ASSUME NEW i \in Ids(c)
        PROVE  (CHOOSE d \in c.docs : d.id = i) \in c.docs
    BY DEF Ids
  <2>5. ASSUME NEW i \in Ids(c)
        PROVE  (CHOOSE d \in c.docs : d.id = i).type \in DocType
    BY <1>2, <2>4 DEF Document
  <2>6. ASSUME NEW i \in Ids(c)
        PROVE  [batch |-> c.batch, op |-> c.op,
                 type |-> (CHOOSE d \in c.docs : d.id = i).type] # None
    BY <1>1, <2>1, <2>2, <2>5
  <2> QED BY <2>2, <2>3, <2>6
<1>6. /\ Keys["document"] = DocId /\ Keys["sourceUse"] = Issuer \X DocId
      /\ Keys["nonceUse"] = Issuer \X Nonce
  BY DEF Keys
<1>7. Ids(c) \subseteq DocId /\ Uses(c) \subseteq Issuer \X DocId /\ Nonces(c) \subseteq Issuer \X Nonce
  BY <1>2 DEF Ids, Uses, Nonces, Document
<1>8. /\ IsFiniteSet(Ids(c)) /\ Cardinality(Ids(c)) = Cardinality(c.docs)
      /\ IsFiniteSet(Uses(c)) /\ Cardinality(Uses(c)) = Cardinality(c.docs)
      /\ IsFiniteSet(Nonces(c)) /\ Cardinality(Nonces(c)) = Cardinality(c.docs)
  <2>1. /\ Ids(c) = {id[d] : d \in c.docs} /\ Uses(c) = {src[d] : d \in c.docs}
        /\ Nonces(c) = {non[d] : d \in c.docs}
    BY DEF Ids, Uses, Nonces
  <2>2. /\ DOMAIN id = c.docs /\ DOMAIN src = c.docs /\ DOMAIN non = c.docs
    OBVIOUS
  <2>3. \A d, e \in c.docs : d # e => id[d] # id[e] /\ src[d] # src[e] /\ non[d] # non[e]
    BY <1>4 DEF DistinctInBundle
  <2> HIDE DEF id, src, non
  <2>4. IsFiniteSet({id[d] : d \in c.docs})
        /\ Cardinality({id[d] : d \in c.docs}) = Cardinality(c.docs)
    BY <1>2, <2>2, <2>3, NamedApart
  <2>5. IsFiniteSet({src[d] : d \in c.docs})
        /\ Cardinality({src[d] : d \in c.docs}) = Cardinality(c.docs)
    BY <1>2, <2>2, <2>3, NamedApart
  <2>6. IsFiniteSet({non[d] : d \in c.docs})
        /\ Cardinality({non[d] : d \in c.docs}) = Cardinality(c.docs)
    BY <1>2, <2>2, <2>3, NamedApart
  <2> QED BY <2>1, <2>4, <2>5, <2>6
<1>9. /\ \A i \in Ids(c) : L.document[i] = None /\ M.document[i] # None
      /\ \A i \in DocId \ Ids(c) : M.document[i] = L.document[i]
  <2>1. /\ c.docs \subseteq Document /\ Ids(c) \subseteq DocId
        /\ {d.type : d \in c.docs} = required(c.fn)
        /\ \A d \in c.docs :
             /\ L.document[d.id] = None
             /\ M.document[d.id] = [batch |-> c.batch, op |-> c.op, type |-> d.type]
             /\ M.document[d.id] # None
        /\ \A i \in DocId \ Ids(c) : M.document[i] = L.document[i]
    BY DocumentsAfter
  <2>2. ASSUME NEW i \in Ids(c) PROVE L.document[i] = None /\ M.document[i] # None
    <3>1. PICK d \in c.docs : d.id = i
      BY DEF Ids
    <3>2. L.document[d.id] = None /\ M.document[d.id] # None
      BY <2>1
    <3> QED BY <3>1, <3>2
  <2> QED BY <2>1, <2>2
<1>10. /\ \A i \in Uses(c) : L.sourceUse[i] = None /\ M.sourceUse[i] # None
       /\ \A i \in (Issuer \X DocId) \ Uses(c) : M.sourceUse[i] = L.sourceUse[i]
  <2>1. M.sourceUse = Overwrite(L.sourceUse, [u \in Uses(c) |-> use(c)])
    BY <1>1 DEF Documented
  <2>2. DOMAIN L.sourceUse = Issuer \X DocId
    BY <1>1, RecordsTyped
  <2> QED BY <1>4, <1>5, <1>7, <2>1, <2>2 DEF Overwrite, Unused
<1>11. /\ \A i \in Nonces(c) : L.nonceUse[i] = None /\ M.nonceUse[i] # None
       /\ \A i \in (Issuer \X Nonce) \ Nonces(c) : M.nonceUse[i] = L.nonceUse[i]
  <2>1. M.nonceUse = Overwrite(L.nonceUse, [u \in Nonces(c) |-> use(c)])
    BY <1>1 DEF Documented
  <2>2. DOMAIN L.nonceUse = Issuer \X Nonce
    BY <1>1, RecordsTyped
  <2> QED BY <1>4, <1>5, <1>7, <2>1, <2>2 DEF Overwrite, Unused
<1> HIDE DEF id, src, non
<1>12. /\ IsFiniteSet(Occupied(DocId, L.document))
       /\ IsFiniteSet(Occupied(Issuer \X DocId, L.sourceUse))
       /\ IsFiniteSet(Occupied(Issuer \X Nonce, L.nonceUse))
       /\ Cardinality(Occupied(Issuer \X DocId, L.sourceUse)) =
            Cardinality(Occupied(DocId, L.document))
       /\ Cardinality(Occupied(Issuer \X Nonce, L.nonceUse)) =
            Cardinality(Occupied(DocId, L.document))
  BY <1>6 DEF UsesIn, Filed, EvidenceTables
<1>13. /\ IsFiniteSet(Occupied(DocId, M.document))
       /\ Cardinality(Occupied(DocId, M.document)) =
            Cardinality(Occupied(DocId, L.document)) + Cardinality(Ids(c))
  BY <1>7, <1>8, <1>9, <1>12, Grows
<1>14. /\ IsFiniteSet(Occupied(Issuer \X DocId, M.sourceUse))
       /\ Cardinality(Occupied(Issuer \X DocId, M.sourceUse)) =
            Cardinality(Occupied(Issuer \X DocId, L.sourceUse)) + Cardinality(Uses(c))
  BY <1>7, <1>8, <1>10, <1>12, Grows
<1>15. /\ IsFiniteSet(Occupied(Issuer \X Nonce, M.nonceUse))
       /\ Cardinality(Occupied(Issuer \X Nonce, M.nonceUse)) =
            Cardinality(Occupied(Issuer \X Nonce, L.nonceUse)) + Cardinality(Nonces(c))
  BY <1>7, <1>8, <1>11, <1>12, Grows
<1>16. /\ Filed(M, "document") = Occupied(DocId, M.document)
       /\ Filed(M, "sourceUse") = Occupied(Issuer \X DocId, M.sourceUse)
       /\ Filed(M, "nonceUse") = Occupied(Issuer \X Nonce, M.nonceUse)
  BY <1>6 DEF Filed
<1>17. /\ IsFiniteSet(Filed(M, "document")) /\ IsFiniteSet(Filed(M, "sourceUse"))
       /\ IsFiniteSet(Filed(M, "nonceUse"))
       /\ Cardinality(Filed(M, "sourceUse")) = Cardinality(Filed(M, "document"))
       /\ Cardinality(Filed(M, "nonceUse")) = Cardinality(Filed(M, "document"))
  BY <1>8, <1>12, <1>13, <1>14, <1>15, <1>16
<1> QED BY <1>17 DEF UsesIn, EvidenceTables

-----------------------------------------------------------------------------
(* The invariant of the ledger                                             *)

\* How the tables agree with each other, in every ledger that is reached.
Sound(L) ==
  /\ Chained(L) /\ IndexedIn(L)
  /\ OpeningsIn(L) /\ PurchasedIn(L) /\ FreightIn(L) /\ SoldIn(L)
  /\ EvaluatedIn(L) /\ ReviewsIn(L)
  /\ Configured(L) /\ GroundedIn(L)
  /\ PlacedIn(L) /\ UsesIn(L)

\* An accepted mutation keeps the ledger sound.
LEMMA SoundKept ==
  ASSUME NEW L, NEW c, NEW M, Effect(L, c, M), Sound(L)
  PROVE  Sound(M)
<1>1. /\ Chained(L) /\ IndexedIn(L)
      /\ OpeningsIn(L) /\ PurchasedIn(L) /\ FreightIn(L) /\ SoldIn(L)
      /\ EvaluatedIn(L) /\ ReviewsIn(L)
      /\ Configured(L) /\ GroundedIn(L)
      /\ PlacedIn(L) /\ UsesIn(L)
  BY DEF Sound
<1>2. /\ Chained(M) /\ IndexedIn(M) /\ OpeningsIn(M) /\ PurchasedIn(M)
      /\ FreightIn(M) /\ SoldIn(M)
  BY <1>1, ChainedKept, IndexesKept, OpeningsKept, PurchaseKept, FreightKept, SoldKept
<1>3. /\ EvaluatedIn(M) /\ ReviewsIn(M) /\ Configured(M) /\ GroundedIn(M)
  BY <1>1, EvaluationKept, ReviewsKept, ConfiguredKept, GroundedKept
<1>4. Kept(L, M, "cost")
  <2>1. \A t \in Lasting : Kept(L, M, t)
    BY <1>1, RecordsKept
  <2> QED BY <2>1 DEF Lasting, Table, Keys
<1>5. PlacedIn(M) /\ UsesIn(M)
  BY <1>1, <1>4, PlacedKept, UsesKept
<1> QED BY <1>2, <1>3, <1>5 DEF Sound

\* So does Bootstrap, which finds no configuration and leaves every table of the
\* batches alone.
LEMMA BootstrapKeepsSound ==
  ASSUME NEW L, IsWorld(L), Sound(L), NEW c \in Command, c.fn = "Bootstrap", Accepts(L, c),
         PairedIn(L), NEW M, M = flush(L, Plan(L, c))
  PROVE  Sound(M)
<1>1. /\ \A t \in Table \ {"configuration", "policy", "sourceKey"} : M[t] = L[t]
      /\ M.configuration = Overwrite(L.configuration, Put("v1", c.config))
      /\ M.policy = Overwrite(L.policy, Put(c.config.policy, c.config.threshold))
  BY BootstrapEffect
<1>2. /\ M.batch = L.batch /\ M.batchEvidence = L.batchEvidence
      /\ M.operation = L.operation /\ M.history = L.history
      /\ M.owner = L.owner /\ M.state = L.state
      /\ M.document = L.document /\ M.sourceUse = L.sourceUse /\ M.nonceUse = L.nonceUse
      /\ M.costReference = L.costReference /\ M.reportReference = L.reportReference
      /\ M.lot = L.lot /\ M.evaluation = L.evaluation
      /\ M.anomalyReference = L.anomalyReference
      /\ M.reviewActionReference = L.reviewActionReference
      /\ M.tradeOpening = L.tradeOpening /\ M.freightOpening = L.freightOpening
      /\ M.cost = L.cost /\ M.report = L.report /\ M.anomaly = L.anomaly
      /\ M.reviewAction = L.reviewAction
  BY <1>1 DEF Table, Keys
<1>3. /\ Chained(L) /\ IndexedIn(L)
      /\ OpeningsIn(L) /\ PurchasedIn(L) /\ FreightIn(L) /\ SoldIn(L)
      /\ EvaluatedIn(L) /\ ReviewsIn(L)
      /\ Configured(L) /\ GroundedIn(L)
      /\ PlacedIn(L) /\ UsesIn(L)
  BY DEF Sound
<1>4. Chained(M) /\ IndexedIn(M)
  <2>1. \A b : version(M, b) = version(L, b) /\ ReceiptsOf(M, b) = ReceiptsOf(L, b)
    BY <1>2 DEF version, ReceiptsOf
  <2> QED BY <1>2, <1>3, <2>1 DEF Chained, IndexedIn
<1>5. OpeningsIn(M) /\ PurchasedIn(M) /\ FreightIn(M) /\ SoldIn(M)
  <2>1. OpeningsIn(M) /\ PurchasedIn(M)
    BY <1>2, <1>3 DEF OpeningsIn, PurchasedIn, Purchased
  <2>2. FreightIn(M)
    BY <1>2, <1>3 DEF FreightIn, Freighted
  <2>3. SoldIn(M)
    <3>1. /\ \A b : Sold(M, b) <=> Sold(L, b)
          /\ \A l : LotOf(M, l) <=> LotOf(L, l)
      BY <1>2 DEF Sold, LotOf
    <3> QED BY <1>2, <1>3, <3>1 DEF SoldIn
  <2> QED BY <2>1, <2>2, <2>3
<1>6. EvaluatedIn(M) /\ ReviewsIn(M)
  <2>1. EvaluatedIn(M)
    BY <1>2, <1>3, SMTT(30) DEF EvaluatedIn, Evaluated, Attached
  <2>2. ReviewsIn(M)
    <3>1. \A a : Progress(M, a) = Progress(L, a)
      BY <1>2 DEF Progress, Taking
    <3>2. \A a, o : Backed(M, a, o) = Backed(L, a, o)
      BY <1>2 DEF Backed
    <3> QED BY <1>2, <1>3, <3>1, <3>2 DEF ReviewsIn
  <2> QED BY <2>1, <2>2
<1>7. L.configuration["v1"] = None /\ c.config \in Configuration
  BY CommandTyped DEF Accepts, CanBootstrap
<1>8. Configured(M)
  <2>1. DOMAIN L.configuration = {"v1"} /\ DOMAIN L.policy = PolicyId
    BY WorldTyped, RecordsTyped
  <2>2. M.configuration["v1"] = c.config
    BY <1>1, <2>1 DEF Overwrite, Put
  <2>3. c.config.policy \in PolicyId /\ c.config # None
    <3>1. None \notin Configuration
      BY EngineAssumption, ValuesOf DEF Table, Keys
    <3> QED BY <1>7, <3>1 DEF Configuration
  <2>4. M.policy[c.config.policy] = c.config.threshold
    BY <1>1, <2>1, <2>3 DEF Overwrite, Put
  <2> QED BY <2>2, <2>3, <2>4 DEF Configured
<1>9. GroundedIn(M)
  <2> SUFFICES ASSUME NEW a \in AnomalyId, M.anomaly[a] # None PROVE FALSE
    BY DEF GroundedIn
  <2>1. L.anomaly[a] # None /\ Grounded(L, L.anomaly[a])
    BY <1>2, <1>3 DEF GroundedIn
  <2>2. L.anomaly[a].threshold = L.policy[L.anomaly[a].policy]
    BY <2>1 DEF Grounded
  <2>3. L.anomaly[a].threshold \in 0..MaxThreshold /\ L.anomaly[a].policy \in PolicyId
    <3>1. L.anomaly[a] \in Anomaly
      BY <2>1, WorldTyped DEF Opt
    <3> QED BY <3>1 DEF Anomaly
  <2>4. L.policy[L.anomaly[a].policy] = None
    BY <1>3, <1>7, <2>3 DEF Configured
  <2>5. None \notin 0..MaxThreshold
    BY EngineAssumption, ValuesOf DEF Table, Keys
  <2> QED BY <2>2, <2>3, <2>4, <2>5
<1>10. PlacedIn(M)
  <2>1. \A b, type : PlaceOf(M, b, type) = PlaceOf(L, b, type)
    BY <1>2 DEF PlaceOf
  <2>2. \A d \in DocId : L.document[d] # None => Filled(M, d)
    <3> SUFFICES ASSUME NEW d \in DocId, L.document[d] # None PROVE Filled(M, d)
      OBVIOUS
    <3>1. Filled(L, d)
      BY <1>3 DEF PlacedIn
    <3> QED BY <1>2, <2>1, <3>1, SMTT(30) DEF Filled
  <2>3. \A b \in BatchId, type \in DocType : L.batch[b] # None => Filling(M, b, type)
    <3> SUFFICES ASSUME NEW b \in BatchId, NEW type \in DocType, L.batch[b] # None
                 PROVE  Filling(M, b, type)
      OBVIOUS
    <3>1. Filling(L, b, type)
      BY <1>3 DEF PlacedIn
    <3> QED BY <1>2, <2>1, <3>1 DEF Filling
  <2> QED BY <1>2, <1>3, <2>2, <2>3 DEF PlacedIn
<1>11. UsesIn(M)
  <2>1. \A t \in EvidenceTables : Filed(M, t) = Filed(L, t)
    BY <1>2 DEF Filed, EvidenceTables
  <2>2. "document" \in EvidenceTables
    BY DEF EvidenceTables
  <2> QED BY <1>3, <2>1, <2>2 DEF UsesIn
<1> QED BY <1>4, <1>5, <1>6, <1>8, <1>9, <1>10, <1>11 DEF Sound

\* An empty ledger is sound.
LEMMA EmptySound == Sound(EmptyWorld)
<1> DEFINE L == EmptyWorld
<1>1. \A t \in Table : \A i \in Keys[t] : L[t][i] = None
  BY DEF EmptyWorld
<1>2. /\ \A b \in BatchId : /\ L.batch[b] = None /\ L.batchEvidence[b] = None
                            /\ L.evaluation[b] = None
      /\ \A k \in OpKey : L.operation[k] = None
      /\ \A b \in BatchId, n \in 1..MaxVersion : L.history[<<b, n>>] = None
      /\ \A m \in Member, b \in BatchId : L.owner[<<m, b>>] = None
      /\ \A s \in State, b \in BatchId : L.state[<<s, b>>] = None
  BY <1>1 DEF Table, Keys
<1>3. /\ \A d \in DocId : /\ L.document[d] = None /\ L.tradeOpening[d] = None
                          /\ L.freightOpening[d] = None
      /\ \A k \in CostId : L.costReference[k] = None /\ L.cost[k] = None
      /\ \A k \in ReportId : L.reportReference[k] = None /\ L.report[k] = None
      /\ \A k \in LotId : L.lot[k] = None
  BY <1>1 DEF Table, Keys
<1>4. /\ \A a \in AnomalyId : L.anomalyReference[a] = None /\ L.anomaly[a] = None
      /\ \A a \in AnomalyId, o \in OpId : /\ L.reviewActionReference[<<a, o>>] = None
                                          /\ L.reviewAction[<<a, o>>] = None
      /\ L.configuration["v1"] = None
      /\ \A p \in PolicyId : L.policy[p] = None
      /\ \A k \in SourceKey : L.sourceKey[k] = None
  BY <1>1 DEF Table, Keys
<1>5. /\ \A t \in EvidenceTables : Filed(L, t) = {}
      /\ "document" \in EvidenceTables
  BY <1>1 DEF Filed, Occupied, EvidenceTables, Table, Keys
<1>6. \A b \in BatchId : version(L, b) = 0 /\ ReceiptsOf(L, b) = {}
  BY <1>2 DEF version, ReceiptsOf
<1> HIDE DEF L
<1>7. IsFiniteSet({}) /\ Cardinality({}) = 0
  BY FS_EmptySet
<1>8. Chained(L) /\ IndexedIn(L)
  BY <1>2, <1>6, <1>7 DEF Chained, IndexedIn
<1>9. /\ OpeningsIn(L) /\ PurchasedIn(L) /\ FreightIn(L) /\ SoldIn(L)
  BY <1>2, <1>3 DEF OpeningsIn, PurchasedIn, FreightIn, SoldIn
<1>10. EvaluatedIn(L) /\ ReviewsIn(L) /\ Configured(L) /\ GroundedIn(L)
  BY <1>2, <1>4 DEF EvaluatedIn, ReviewsIn, Configured, GroundedIn
<1>11. PlacedIn(L) /\ UsesIn(L)
  BY <1>2, <1>3, <1>5, <1>7 DEF PlacedIn, UsesIn
<1> QED BY <1>8, <1>9, <1>10, <1>11 DEF Sound, L

\* A transfer becomes accepted, on the terms that it has.
Accepting(old, new) ==
  /\ old.status = "OFFERED"
  /\ new = [old EXCEPT !.status = "ACCEPTED", !.accept = new.accept]

\* A transfer on record changes only by its acceptance, which keeps its terms.
LEMMA TransferAfter ==
  ASSUME NEW L, NEW c, NEW M, Effect(L, c, M), NEW t \in TransferId, L.transfer[t] # None,
         M.transfer[t] # L.transfer[t]
  PROVE  L.transfer[t].batch = c.batch /\ Accepting(L.transfer[t], M.transfer[t])
<1>1. IsWorld(L) /\ c \in Command /\ Accepts(L, c) /\ Handed(L, c, M)
  BY DEF Effect
<1>2. L.transfer \in [TransferId -> Opt(Transfer)]
  BY <1>1, WorldTyped
<1>3. c.fn \notin Offers
  <2> SUFFICES ASSUME c.fn \in Offers PROVE FALSE
    OBVIOUS
  <2>1. L.transfer[c.transfer] = None
    BY <1>1, Offered
  <2>2. M.transfer = [L.transfer EXCEPT ![c.transfer] = offered(L, c, KindOf(c.fn))]
    BY <1>1 DEF Handed
  <2> QED BY <1>2, <2>1, <2>2
<1>4. c.fn \in Acceptances
  BY <1>1, <1>3 DEF Handed
<1>5. /\ L.transfer[c.transfer].batch = c.batch
      /\ L.transfer[c.transfer].status = "OFFERED"
  BY <1>1, <1>4 DEF Accepts, Acceptances, CanAccept
<1>6. M.transfer = [L.transfer EXCEPT ![c.transfer] =
        [L.transfer[c.transfer] EXCEPT !.status = "ACCEPTED", !.accept = c.op]]
  BY <1>1, <1>4 DEF Handed
<1>7. t = c.transfer
  BY <1>2, <1>6
<1>8. M.transfer[t] = [L.transfer[t] EXCEPT !.status = "ACCEPTED", !.accept = c.op]
  BY <1>2, <1>6, <1>7
<1>9. M.transfer[t].accept = c.op
  <2>1. L.transfer[t] \in Transfer
    BY <1>2 DEF Opt
  <2> QED BY <1>8, <2>1 DEF Transfer
<1> QED BY <1>5, <1>7, <1>8, <1>9 DEF Accepting

\* Bootstrap finds nothing in the tables it writes.
LEMMA BootstrapFresh ==
  ASSUME NEW L, IsWorld(L), Configured(L), NEW c, c.fn = "Bootstrap", Accepts(L, c),
         NEW t \in {"configuration", "policy", "sourceKey"}, NEW i \in Keys[t]
  PROVE  L[t][i] = None
<1>1. L.configuration["v1"] = None
  BY DEF Accepts, CanBootstrap
<1>2. /\ \A p \in PolicyId : L.policy[p] = None
      /\ \A k \in SourceKey : L.sourceKey[k] = None
  BY <1>1 DEF Configured
<1> QED BY <1>1, <1>2 DEF Keys

-----------------------------------------------------------------------------
(* A batch as its life cycle sees it                                       *)

\* The lifecycle's view of batch b: a field of its record,
FieldAt(L, b, f, absent) == IF L.batch[b] = None THEN absent ELSE L.batch[b][f]

\* whether its freight cost is on record,
FreightAt(L, b) == IF L.batchEvidence[b] = None THEN FALSE ELSE L.batchEvidence[b].freight # None

\* and how far its review is.
ReviewAt(L, b) ==
  IF L.evaluation[b] = None THEN "NONE" ELSE L.anomaly[L.evaluation[b].anomaly].review

\* The life of batch b stands still.
SameLife(L, M, b) ==
  /\ FieldAt(M, b, "state", "ABSENT") = FieldAt(L, b, "state", "ABSENT")
  /\ FieldAt(M, b, "custodian", "NOBODY") = FieldAt(L, b, "custodian", "NOBODY")
  /\ FieldAt(M, b, "owner", "NOBODY") = FieldAt(L, b, "owner", "NOBODY")
  /\ FreightAt(M, b) <=> FreightAt(L, b)
  /\ ReviewAt(M, b) = ReviewAt(L, b)

\* The review of a batch that c does not evaluate or review stays as it is.
LEMMA ReviewStays ==
  ASSUME NEW L, NEW c, NEW M, Effect(L, c, M), EvaluatedIn(L), ReviewsIn(L), NEW b \in BatchId,
         b # c.batch \/ c.fn \notin Reviews \cup {"EvaluatePrice"}
  PROVE  ReviewAt(M, b) = ReviewAt(L, b)
<1>1. IsWorld(L) /\ Scored(L, c, M)
  BY DEF Effect
<1>2. L.evaluation \in [BatchId -> Opt(Evaluation)]
  BY <1>1, RecordsTyped
<1>3. M.evaluation[b] = L.evaluation[b]
  BY <1>1, <1>2 DEF Scored
<1>4. CASE L.evaluation[b] = None
  BY <1>3, <1>4 DEF ReviewAt
<1>5. CASE L.evaluation[b] # None
  <2> DEFINE a == L.evaluation[b].anomaly
  <2>1. Evaluated(L, b)
    BY <1>5 DEF EvaluatedIn
  <2>2. a \in AnomalyId /\ L.anomalyReference[a] # None /\ L.anomalyReference[a].batch = b
    BY <2>1 DEF Evaluated
  <2>3. Attached(L, a)
    BY <2>2 DEF EvaluatedIn
  <2>4. L.anomaly[a] # None /\ L.anomaly[a].batch = b
    BY <2>2, <2>3 DEF Attached
  <2> HIDE DEF a
  <2>5. c.fn \notin Reviews \/ a # c.anomaly
    <3> SUFFICES ASSUME c.fn \in Reviews PROVE a # c.anomaly
      OBVIOUS
    <3>1. /\ c.op \in OpId /\ <<Regulator, c.op>> \in OpKey
          /\ L.reviewAction[<<c.anomaly, c.op>>] = None
          /\ L.reviewActionReference[<<c.anomaly, c.op>>] = None
          /\ L.anomaly[c.anomaly].batch = c.batch
      BY ReviewFresh
    <3> QED BY <2>4, <3>1
  <2>6. M.anomaly[a] = L.anomaly[a]
    BY <2>2, <2>4, <2>5, AnomalyStays
  <2> QED BY <1>3, <2>6 DEF ReviewAt, a
<1> QED BY <1>4, <1>5

\* The life of the other batches goes on.
LEMMA OthersLive ==
  ASSUME NEW L, NEW c, NEW M, Effect(L, c, M), EvaluatedIn(L), ReviewsIn(L),
         NEW b \in BatchId, b # c.batch
  PROVE  SameLife(L, M, b)
<1>1. M.batch[b] = L.batch[b] /\ M.batchEvidence[b] = L.batchEvidence[b]
  BY DEF Effect
<1>2. ReviewAt(M, b) = ReviewAt(L, b)
  BY ReviewStays
<1> QED BY <1>1, <1>2 DEF SameLife, FieldAt, FreightAt

\* One step of the life of the batch, from L to M, by the function fn.
LivesOn(fn, L, M, b) ==
  LET st(X) == FieldAt(X, b, "state", "ABSENT")
      cu(X) == FieldAt(X, b, "custodian", "NOBODY")
      ow(X) == FieldAt(X, b, "owner", "NOBODY")
      fr(X) == FreightAt(X, b)
      rv(X) == ReviewAt(X, b)
      held == cu(M) = cu(L) /\ ow(M) = ow(L)
      k == KindOf(fn)
  IN  /\ fn = "CreateBatch" =>
           /\ st(L) = "ABSENT" /\ st(M) = "CREATED" /\ cu(M) = Producer /\ ow(M) = Producer
      /\ fn \in Offers => st(L) = Handoff[k].from /\ st(M) = Handoff[k].pending /\ held
      /\ fn \in Acceptances =>
           /\ st(L) = Handoff[k].pending /\ st(M) = Handoff[k].to
           /\ cu(M) = Handoff[k].recipient
           /\ ow(M) = IF k = "DELIVERY" THEN Retailer ELSE Producer
           /\ k = "DELIVERY" => fr(L)
      /\ fn = "RecordFreightCost" =>
           st(L) \in {"IN_TRANSPORT", "DELIVERY_PENDING"} /\ ~fr(L) /\ fr(M)
      /\ fn # "RecordFreightCost" => (fr(M) <=> fr(L))
      /\ fn = "ReportRetailPrice" =>
           st(L) = "RECEIVED" /\ st(M) = "RETAIL_REPORTED" /\ held
      /\ fn \notin {"CreateBatch", "ReportRetailPrice"} \cup Offers \cup Acceptances =>
           st(M) = st(L) /\ held
      /\ fn = "EvaluatePrice" =>
           st(L) = "RETAIL_REPORTED" /\ rv(L) = "NONE" /\ rv(M) \in {"NOT_REQUIRED", "OPEN"}
      /\ fn \in Reviews => rv(L) = Review[ActionOf(fn)].from /\ rv(M) = Review[ActionOf(fn)].to
      /\ fn \notin Reviews \cup {"EvaluatePrice"} => rv(M) = rv(L)

\* A review is taken on by a review, and begun by the evaluation.
LEMMA ReviewLives ==
  ASSUME NEW L, NEW c, NEW M, Effect(L, c, M)
  PROVE  /\ c.fn = "EvaluatePrice" =>
              ReviewAt(L, c.batch) = "NONE" /\ ReviewAt(M, c.batch) \in {"NOT_REQUIRED", "OPEN"}
         /\ c.fn \in Reviews =>
              /\ ReviewAt(L, c.batch) = Review[ActionOf(c.fn)].from
              /\ ReviewAt(M, c.batch) = Review[ActionOf(c.fn)].to
<1>1. /\ IsWorld(L) /\ c.batch \in BatchId /\ Scored(L, c, M) /\ Reviewed(L, c, M)
  BY DEF Effect
<1>2. /\ L.evaluation \in [BatchId -> Opt(Evaluation)]
      /\ L.anomaly \in [AnomalyId -> Opt(Anomaly)]
  BY <1>1, WorldTyped, RecordsTyped
<1>3. ASSUME c.fn = "EvaluatePrice"
      PROVE  ReviewAt(L, c.batch) = "NONE" /\ ReviewAt(M, c.batch) \in {"NOT_REQUIRED", "OPEN"}
  <2>1. /\ c.anomaly \in AnomalyId /\ L.anomalyReference[c.anomaly] = None
        /\ L.evaluation[c.batch] = None /\ L.batch[c.batch].state = "RETAIL_REPORTED"
        /\ scored(L, c) \in Anomaly /\ newEvaluation(c) \in Evaluation
        /\ From(L, c, scored(L, c))
    BY <1>3, EvaluationGuard
  <2>2. /\ M.evaluation = [L.evaluation EXCEPT ![c.batch] = newEvaluation(c)]
        /\ M.anomaly = [L.anomaly EXCEPT ![c.anomaly] = scored(L, c)]
    BY <1>1, <1>3 DEF Scored, newEvaluation
  <2>3. M.evaluation[c.batch] = newEvaluation(c) /\ M.anomaly[c.anomaly] = scored(L, c)
    BY <1>1, <1>2, <2>1, <2>2
  <2>4. newEvaluation(c) # None /\ newEvaluation(c).anomaly = c.anomaly
    BY <2>1, NoneApart DEF newEvaluation
  <2>5. scored(L, c).review \in {"NOT_REQUIRED", "OPEN"}
    BY <2>1 DEF From
  <2> QED BY <2>1, <2>3, <2>4, <2>5 DEF ReviewAt
<1>4. ASSUME c.fn \in Reviews
      PROVE  /\ ReviewAt(L, c.batch) = Review[ActionOf(c.fn)].from
             /\ ReviewAt(M, c.batch) = Review[ActionOf(c.fn)].to
  <2>1. /\ c.anomaly \in AnomalyId /\ c.actor = Regulator
        /\ L.evaluation[c.batch] # None /\ L.evaluation[c.batch].anomaly = c.anomaly
        /\ L.anomaly[c.anomaly] # None /\ L.anomaly[c.anomaly] \in Anomaly
        /\ L.anomaly[c.anomaly].score.classification = "REVIEW_REQUIRED"
        /\ L.anomaly[c.anomaly].review = Review[ActionOf(c.fn)].from
    BY <1>4, ReviewGuard
  <2>2. /\ M.evaluation = L.evaluation
        /\ M.anomaly = [L.anomaly EXCEPT ![c.anomaly] =
                [L.anomaly[c.anomaly] EXCEPT !.review = Review[ActionOf(c.fn)].to]]
    BY <1>1, <1>4 DEF Scored, Reviewed, Reviews
  <2>3. M.anomaly[c.anomaly] =
          [L.anomaly[c.anomaly] EXCEPT !.review = Review[ActionOf(c.fn)].to]
    BY <1>2, <2>1, <2>2
  <2>4. M.anomaly[c.anomaly].review = Review[ActionOf(c.fn)].to
    BY <2>1, <2>3 DEF Anomaly
  <2> QED BY <2>1, <2>2, <2>4 DEF ReviewAt
<1> QED BY <1>3, <1>4

\* A mutation takes the life of its batch one step on.
LEMMA BatchLives ==
  ASSUME NEW L, NEW c, NEW M, Effect(L, c, M), CustodiedIn(L), EvaluatedIn(L), ReviewsIn(L)
  PROVE  LivesOn(c.fn, L, M, c.batch)
<1> DEFINE r == L.batch[c.batch]
           s == M.batch[c.batch]
           e == L.batchEvidence[c.batch]
           f == M.batchEvidence[c.batch]
<1>1. /\ (c.fn = "CreateBatch") <=> (r = None)
      /\ r # None => r \in Batch /\ r.state \in Before(c.fn) /\ s.quantity = r.quantity
      /\ s # None /\ s \in Batch
      /\ s.state = After(c.fn, r.state)
  BY BatchAfter
<1>2. /\ Becomes(c.fn, r, s) /\ c.fn \in Mutation /\ c \in Command /\ Accepts(L, c)
      /\ IsWorld(L) /\ IsWorld(M) /\ PairedIn(L) /\ PairedIn(M) /\ c.batch \in BatchId
  BY DEF Effect
<1>3. /\ f.freight = IF c.fn = "CreateBatch" THEN None
                     ELSE IF c.fn = "RecordFreightCost" THEN c.cost ELSE e.freight
  BY RefsAfter
<1>4. (r = None <=> e = None) /\ f # None
  BY <1>1, <1>2 DEF PairedIn
<1>5. /\ c.fn = "EvaluatePrice" =>
           ReviewAt(L, c.batch) = "NONE" /\ ReviewAt(M, c.batch) \in {"NOT_REQUIRED", "OPEN"}
      /\ c.fn \in Reviews =>
           /\ ReviewAt(L, c.batch) = Review[ActionOf(c.fn)].from
           /\ ReviewAt(M, c.batch) = Review[ActionOf(c.fn)].to
  BY ReviewLives
<1>6. c.fn \notin Reviews \cup {"EvaluatePrice"} => ReviewAt(M, c.batch) = ReviewAt(L, c.batch)
  BY <1>2, ReviewStays
<1>7. c.fn = "RecordFreightCost" => e.freight = None /\ c.cost # None
  <2> SUFFICES ASSUME c.fn = "RecordFreightCost" PROVE e.freight = None /\ c.cost # None
    OBVIOUS
  <2>1. /\ c.cost \in CostId /\ L.costReference[c.cost] = None
        /\ L.batchEvidence[c.batch].freight = None
    BY FreightGuard
  <2> QED BY <2>1, NoneApart
<1>8. c.fn = "AcceptDelivery" => e.freight # None
  BY <1>2 DEF Accepts, CanAccept, FreightOnRecord
<1>9. r # None /\ r.state = "PICKUP_PENDING" => r.owner = Producer
  BY <1>2 DEF CustodiedIn, Custody, Holding, AtProducer, AtRetailer
<1>10. /\ FreightAt(L, c.batch) <=> (r # None /\ e.freight # None)
       /\ FreightAt(M, c.batch) <=> f.freight # None
  BY <1>4 DEF FreightAt
<1>11. /\ FieldAt(L, c.batch, "state", "ABSENT") = IF r = None THEN "ABSENT" ELSE r.state
       /\ FieldAt(L, c.batch, "custodian", "NOBODY") = IF r = None THEN "NOBODY" ELSE r.custodian
       /\ FieldAt(L, c.batch, "owner", "NOBODY") = IF r = None THEN "NOBODY" ELSE r.owner
       /\ FieldAt(M, c.batch, "state", "ABSENT") = s.state
       /\ FieldAt(M, c.batch, "custodian", "NOBODY") = s.custodian
       /\ FieldAt(M, c.batch, "owner", "NOBODY") = s.owner
  BY <1>1 DEF FieldAt
<1> HIDE DEF r, s, e, f
<1>12. CASE c.fn = "CreateBatch"
  BY <1>1, <1>2, <1>3, <1>5, <1>6, <1>10, <1>11, <1>12
     DEF LivesOn, Becomes, Offers, Acceptances, Reviews
<1>13. CASE c.fn \in Offers
  BY <1>1, <1>2, <1>3, <1>5, <1>6, <1>10, <1>11, <1>13
     DEF LivesOn, Becomes, Offers, Acceptances, Reviews, KindOf, Handoff, Before
<1>14. CASE c.fn \in Acceptances
  BY <1>1, <1>2, <1>3, <1>5, <1>6, <1>8, <1>9, <1>10, <1>11, <1>14
     DEF LivesOn, Becomes, Offers, Acceptances, Reviews, KindOf, Handoff, Before
<1>15. CASE c.fn = "RecordFreightCost"
  BY <1>1, <1>2, <1>3, <1>5, <1>6, <1>7, <1>10, <1>11, <1>15
     DEF LivesOn, Becomes, Offers, Acceptances, Reviews, Before, After
<1>16. CASE c.fn = "ReportRetailPrice"
  BY <1>1, <1>2, <1>3, <1>5, <1>6, <1>10, <1>11, <1>16
     DEF LivesOn, Becomes, Offers, Acceptances, Reviews, Before, After
<1>17. CASE c.fn \in Reviews \cup {"EvaluatePrice"}
  BY <1>1, <1>2, <1>3, <1>5, <1>6, <1>10, <1>11, <1>17
     DEF LivesOn, Becomes, Offers, Acceptances, Reviews, Before, After
<1> QED BY <1>2, <1>12, <1>13, <1>14, <1>15, <1>16, <1>17
           DEF Mutation, authorize, Offers, Acceptances, Reviews
=============================================================================
