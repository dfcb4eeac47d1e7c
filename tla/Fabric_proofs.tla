--------------------------- MODULE Fabric_proofs ---------------------------
(***************************************************************************)
(* Fabric's concurrency is the contract's sequence: a transaction that is  *)
(* valid when it is committed does what its proposal would do if it were   *)
(* invoked then.  This holds because the keys a proposal reads decide it,  *)
(* and because the version of a key tells its value.                       *)
(***************************************************************************)
EXTENDS Fabric, Engine_proofs

-----------------------------------------------------------------------------
(* What a proposal reads decides it                                        *)

\* Two worlds hold the same under the keys of R.
Agree(L, M, R) == \A k \in R : L[k[1]][k[2]] = M[k[1]][k[2]]

\* The records of the batch, its operation and the configuration agree.
CommonSame(L, M, c) ==
  /\ L.configuration["v1"] = M.configuration["v1"]
  /\ L.operation[<<c.actor, c.op>>] = M.operation[<<c.actor, c.op>>]
  /\ L.batch[c.batch] = M.batch[c.batch]
  /\ L.batch[c.batch] # None => L.batchEvidence[c.batch] = M.batchEvidence[c.batch]

\* The records that every mutation loads.
LEMMA CommonAgree ==
  ASSUME NEW L, NEW M, NEW c, Agree(L, M, CommonReads(L, c))
  PROVE  CommonSame(L, M, c)
<1>1. /\ <<"configuration", "v1">> \in CommonReads(L, c)
      /\ <<"operation", <<c.actor, c.op>>>> \in CommonReads(L, c)
      /\ <<"batch", c.batch>> \in CommonReads(L, c)
      /\ L.batch[c.batch] # None => <<"batchEvidence", c.batch>> \in CommonReads(L, c)
  BY DEF CommonReads, BatchReads
<1> QED BY <1>1 DEF Agree, CommonSame

\* The evidence of a bundle.
LEMMA EvidenceAgree ==
  ASSUME NEW L, NEW M, NEW c, Agree(L, M, EvidenceReads(c)), NEW q
  PROVE  Evidenced(L, c, q) <=> Evidenced(M, c, q)
<1>1. ASSUME NEW d \in c.docs
      PROVE  /\ L.sourceKey[<<d.issuer, d.key>>] = M.sourceKey[<<d.issuer, d.key>>]
             /\ L.document[d.id] = M.document[d.id]
             /\ L.sourceUse[<<d.issuer, d.src>>] = M.sourceUse[<<d.issuer, d.src>>]
             /\ L.nonceUse[<<d.issuer, d.nonce>>] = M.nonceUse[<<d.issuer, d.nonce>>]
  <2>1. /\ <<"sourceKey", <<d.issuer, d.key>>>> \in EvidenceReads(c)
        /\ <<"document", d.id>> \in EvidenceReads(c)
        /\ <<"sourceUse", <<d.issuer, d.src>>>> \in EvidenceReads(c)
        /\ <<"nonceUse", <<d.issuer, d.nonce>>>> \in EvidenceReads(c)
    BY DEF EvidenceReads
  <2> QED BY <2>1 DEF Agree
<1>2. \A d \in c.docs : Trusted(L, d) <=> Trusted(M, d)
  BY <1>1 DEF Trusted
<1>3. UnusedDocuments(L, c) <=> UnusedDocuments(M, c)
  <2>1. \A d \in c.docs : (L.document[d.id] = None) <=> (M.document[d.id] = None)
    BY <1>1
  <2> QED BY <2>1, Zenon DEF UnusedDocuments
<1>4. \A u \in Uses(c) : L.sourceUse[u] = M.sourceUse[u]
  BY <1>1 DEF Uses
<1>5. \A n \in Nonces(c) : L.nonceUse[n] = M.nonceUse[n]
  BY <1>1 DEF Nonces
<1>6. Unused(L, c) <=> Unused(M, c)
  BY <1>3, <1>4, <1>5 DEF Unused
<1> QED BY <1>2, <1>6, Zenon DEF Evidenced

\* Whether a document has been consumed.
LEMMA ConsumedAgree ==
  ASSUME NEW L, NEW M, NEW c, Agree(L, M, ConsumedReads(c))
  PROVE  Unconsumed(L, c) <=> Unconsumed(M, c)
<1>1. ASSUME NEW d \in c.docs
      PROVE  L.documentReference[d.id] = M.documentReference[d.id]
  <2>1. <<"documentReference", d.id>> \in ConsumedReads(c)
    BY DEF ConsumedReads
  <2> QED BY <2>1 DEF Agree
<1> QED BY <1>1 DEF Unconsumed

\* The records that the function of the proposal loads besides agree.
OwnSame(L, M, c) ==
  LET refs == L.batchEvidence[c.batch]
  IN  /\ c.fn \in {"CreateBatch", "OfferPickup"} => Agree(L, M, ConsumedReads(c))
      /\ c.fn \in Offers \cup Acceptances =>
           /\ L.pendingTransfer[c.batch] = M.pendingTransfer[c.batch]
           /\ L.transfer[c.transfer] = M.transfer[c.transfer]
      /\ c.fn = "RecordFreightCost" => L.costReference[c.cost] = M.costReference[c.cost]
      /\ c.fn = "ReportRetailPrice" =>
           /\ L.lot[c.lot] = M.lot[c.lot]
           /\ L.reportReference[c.report] = M.reportReference[c.report]
           /\ L.tradeOpening[refs.purchase] = M.tradeOpening[refs.purchase]
           /\ L.cost[refs.freight] = M.cost[refs.freight]
      /\ c.fn = "EvaluatePrice" =>
           /\ L.evaluation[c.batch] = M.evaluation[c.batch]
           /\ L.anomalyReference[c.anomaly] = M.anomalyReference[c.anomaly]
           /\ L.tradeOpening[refs.purchase] = M.tradeOpening[refs.purchase]
           /\ L.report[refs.report] = M.report[refs.report]
           /\ L.cost[refs.freight] = M.cost[refs.freight]
      /\ c.fn \in {"OpenReview", "ResolveReview"} =>
           /\ L.evaluation[c.batch] = M.evaluation[c.batch]
           /\ L.anomaly[c.anomaly] = M.anomaly[c.anomaly]

\* The function's own reads cover them.
LEMMA OwnAgree ==
  ASSUME NEW L, NEW M, NEW c, Agree(L, M, OwnReads(L, c))
  PROVE  OwnSame(L, M, c)
<1> DEFINE refs == L.batchEvidence[c.batch]
           R == OwnReads(L, c)
<1>1. c.fn \in {"CreateBatch", "OfferPickup"} => ConsumedReads(c) \subseteq R
  BY DEF OwnReads
<1>2. c.fn \in Offers \cup Acceptances =>
        {<<"pendingTransfer", c.batch>>, <<"transfer", c.transfer>>} \subseteq R
  BY DEF OwnReads, Offers, Acceptances
<1>3. c.fn = "RecordFreightCost" => <<"costReference", c.cost>> \in R
  BY DEF OwnReads
<1>4. c.fn = "ReportRetailPrice" =>
        /\ <<"lot", c.lot>> \in R /\ <<"reportReference", c.report>> \in R
        /\ <<"tradeOpening", refs.purchase>> \in R /\ <<"cost", refs.freight>> \in R
  BY DEF OwnReads
<1>5. c.fn = "EvaluatePrice" =>
        /\ <<"evaluation", c.batch>> \in R /\ <<"anomalyReference", c.anomaly>> \in R
        /\ <<"tradeOpening", refs.purchase>> \in R /\ <<"report", refs.report>> \in R
        /\ <<"cost", refs.freight>> \in R
  BY DEF OwnReads
<1>6. c.fn \in {"OpenReview", "ResolveReview"} =>
        /\ <<"evaluation", c.batch>> \in R /\ <<"anomaly", c.anomaly>> \in R
  BY DEF OwnReads
<1>7. \A k \in R : L[k[1]][k[2]] = M[k[1]][k[2]]
  BY DEF Agree
<1> HIDE DEF R, refs
<1>8. c.fn \in {"CreateBatch", "OfferPickup"} => Agree(L, M, ConsumedReads(c))
  BY <1>1, <1>7 DEF Agree
<1>9. c.fn \in Offers \cup Acceptances =>
        /\ L.pendingTransfer[c.batch] = M.pendingTransfer[c.batch]
        /\ L.transfer[c.transfer] = M.transfer[c.transfer]
  BY <1>2, <1>7
<1>10. c.fn = "RecordFreightCost" => L.costReference[c.cost] = M.costReference[c.cost]
  BY <1>3, <1>7
<1>11. c.fn = "ReportRetailPrice" =>
         /\ L.lot[c.lot] = M.lot[c.lot]
         /\ L.reportReference[c.report] = M.reportReference[c.report]
         /\ L.tradeOpening[refs.purchase] = M.tradeOpening[refs.purchase]
         /\ L.cost[refs.freight] = M.cost[refs.freight]
  BY <1>4, <1>7
<1>12. c.fn = "EvaluatePrice" =>
         /\ L.evaluation[c.batch] = M.evaluation[c.batch]
         /\ L.anomalyReference[c.anomaly] = M.anomalyReference[c.anomaly]
         /\ L.tradeOpening[refs.purchase] = M.tradeOpening[refs.purchase]
         /\ L.report[refs.report] = M.report[refs.report]
         /\ L.cost[refs.freight] = M.cost[refs.freight]
  BY <1>5, <1>7
<1>13. c.fn \in {"OpenReview", "ResolveReview"} =>
         /\ L.evaluation[c.batch] = M.evaluation[c.batch]
         /\ L.anomaly[c.anomaly] = M.anomaly[c.anomaly]
  BY <1>6, <1>7
<1> QED BY <1>8, <1>9, <1>10, <1>11, <1>12, <1>13 DEF refs, OwnSame

\* The proposal is accepted in both worlds and does the same.
Same(L, M, c) ==
  /\ Accepts(M, c)
  /\ Plan(M, c) = Plan(L, c)
  /\ Emits(M, c) = Emits(L, c)

\* The checks that every mutation passes read what they depend on.
LEMMA AdmittedAgree ==
  ASSUME NEW L, NEW M, NEW c, c.fn # "Bootstrap", Admitted(L, c),
         Agree(L, M, Reads(L, c))
  PROVE  /\ Agree(L, M, CommonReads(L, c))
         /\ Agree(L, M, OwnReads(L, c))
         /\ Admitted(M, c)
<1>1. /\ Agree(L, M, CommonReads(L, c)) /\ Agree(L, M, EvidenceReads(c))
      /\ Agree(L, M, OwnReads(L, c))
  BY DEF Agree, Reads
<1>0. CommonSame(L, M, c)
  BY <1>1, CommonAgree
<1>2. /\ L.configuration["v1"] = M.configuration["v1"]
      /\ L.operation[<<c.actor, c.op>>] = M.operation[<<c.actor, c.op>>]
      /\ L.batch[c.batch] = M.batch[c.batch]
  BY <1>0 DEF CommonSame
<1>3. quantity(L, c) = quantity(M, c) /\ version(L, c.batch) = version(M, c.batch)
  BY <1>2, Zenon DEF quantity, version
<1>4. Evidenced(M, c, quantity(M, c))
  BY <1>1, <1>3, EvidenceAgree DEF Admitted
<1>5. FreshOperation(M, c) /\ ExpectedVersion(M, c)
  BY <1>2, <1>3 DEF Admitted, FreshOperation, ExpectedVersion, UpToDate
<1>6. Admitted(M, c)
  BY <1>2, <1>4, <1>5 DEF Admitted
<1> QED BY <1>1, <1>6

\* What the function of the proposal checks and writes.
LEMMA OwnDecided ==
  ASSUME NEW L, NEW M, NEW c, c.fn \in Mutation, Accepts(L, c),
         Agree(L, M, Reads(L, c))
  PROVE  /\ Accepts(M, c)
         /\ OwnWrites(M, c) = OwnWrites(L, c)
<1> DEFINE refs == L.batchEvidence[c.batch]
<1>1. /\ Admitted(L, c) /\ Admitted(M, c)
      /\ Agree(L, M, CommonReads(L, c)) /\ Agree(L, M, OwnReads(L, c))
  BY AdmittedAgree DEF Accepts, Mutation
<1>0. CommonSame(L, M, c)
  BY <1>1, CommonAgree
<1>2. /\ L.configuration["v1"] = M.configuration["v1"]
      /\ L.batch[c.batch] = M.batch[c.batch]
      /\ c.fn # "CreateBatch" => M.batchEvidence[c.batch] = refs
  BY <1>1, <1>0, Zenon DEF Admitted, CommonSame
<1>14. OwnSame(L, M, c)
  BY <1>1, OwnAgree
<1>3. /\ c.fn \in {"CreateBatch", "OfferPickup"} => Agree(L, M, ConsumedReads(c))
      /\ c.fn \in Offers \cup Acceptances =>
           /\ L.pendingTransfer[c.batch] = M.pendingTransfer[c.batch]
           /\ L.transfer[c.transfer] = M.transfer[c.transfer]
      /\ c.fn = "RecordFreightCost" => L.costReference[c.cost] = M.costReference[c.cost]
      /\ c.fn = "ReportRetailPrice" =>
           /\ L.lot[c.lot] = M.lot[c.lot]
           /\ L.reportReference[c.report] = M.reportReference[c.report]
           /\ L.tradeOpening[refs.purchase] = M.tradeOpening[refs.purchase]
           /\ L.cost[refs.freight] = M.cost[refs.freight]
      /\ c.fn = "EvaluatePrice" =>
           /\ L.evaluation[c.batch] = M.evaluation[c.batch]
           /\ L.anomalyReference[c.anomaly] = M.anomalyReference[c.anomaly]
           /\ L.tradeOpening[refs.purchase] = M.tradeOpening[refs.purchase]
           /\ L.report[refs.report] = M.report[refs.report]
           /\ L.cost[refs.freight] = M.cost[refs.freight]
      /\ c.fn \in {"OpenReview", "ResolveReview"} =>
           /\ L.evaluation[c.batch] = M.evaluation[c.batch]
           /\ L.anomaly[c.anomaly] = M.anomaly[c.anomaly]
  BY <1>14 DEF OwnSame
<1>4. c.fn \in {"CreateBatch", "OfferPickup"} => (Unconsumed(L, c) <=> Unconsumed(M, c))
  BY <1>3, ConsumedAgree
<1>5. CASE c.fn = "CreateBatch"
  <2>1. CanCreateBatch(M, c)
    BY <1>4, <1>5 DEF Accepts, CanCreateBatch
  <2> QED BY <1>1, <1>5, <2>1 DEF Accepts, OwnWrites
<1>6. CASE c.fn = "OfferPickup"
  <2>1. CanOfferPickup(M, c)
    BY <1>2, <1>3, <1>4, <1>6, Zenon
    DEF Accepts, CanOfferPickup, CanOffer, NoPendingTransfer, FreshTransfer, Offers
  <2>2. OfferWrites(M, c, "PICKUP") = OfferWrites(L, c, "PICKUP")
    BY <1>2 DEF OfferWrites, offered
  <2> QED BY <1>1, <1>6, <2>1, <2>2 DEF Accepts, OwnWrites
<1>7. CASE c.fn = "OfferDelivery"
  <2>1. CanOfferDelivery(M, c)
    BY <1>2, <1>3, <1>7
    DEF Accepts, CanOfferDelivery, CanOffer, NoPendingTransfer, FreshTransfer, Offers,
        TransportOnRecord
  <2>2. OfferWrites(M, c, "DELIVERY") = OfferWrites(L, c, "DELIVERY")
    BY <1>2 DEF OfferWrites, offered
  <2> QED BY <1>1, <1>7, <2>1, <2>2 DEF Accepts, OwnWrites
<1>8. CASE c.fn \in Acceptances
  <2>0. c.fn \in {"AcceptPickup", "AcceptDelivery"}
    BY <1>8 DEF Acceptances
  <2>1. \A kind \in {"PICKUP", "DELIVERY"} : CanAccept(L, c, kind) => CanAccept(M, c, kind)
    BY <1>2, <1>3, <1>8, <2>0 DEF CanAccept, IsPending, FreightOnRecord
  <2>2. AcceptWrites(M, c) = AcceptWrites(L, c)
    BY <1>3, <1>8 DEF AcceptWrites, AcceptedTransfer
  <2> QED BY <1>1, <2>0, <2>1, <2>2 DEF Accepts, OwnWrites
<1>9. CASE c.fn = "RecordFreightCost"
  <2>1. CanRecordFreightCost(M, c)
    BY <1>2, <1>3, <1>9 DEF Accepts, CanRecordFreightCost, FreshCost, NoFreightCost
  <2> QED BY <1>1, <1>9, <2>1 DEF Accepts, OwnWrites
<1>10. CASE c.fn = "ReportRetailPrice"
  <2>1. CanReportRetailPrice(M, c)
    BY <1>2, <1>3, <1>10, Zenon
    DEF Accepts, CanReportRetailPrice, FreshReport, NoReport
  <2>2. ReportWrites(M, c) = ReportWrites(L, c)
    BY <1>2, <1>10 DEF ReportWrites
  <2> QED BY <1>1, <1>10, <2>1, <2>2 DEF Accepts, OwnWrites
<1>11. CASE c.fn = "EvaluatePrice"
  <2>0. Rederived(M, c) = Rederived(L, c)
    BY <1>2, <1>3, <1>11 DEF Rederived
  <2>1. CanEvaluatePrice(M, c)
    BY <1>2, <1>3, <1>11, <2>0, ZenonT(60)
    DEF Accepts, CanEvaluatePrice, NotEvaluated, NoEvaluation, FreshAnomaly
  <2>2. EvaluationWrites(M, c) = EvaluationWrites(L, c)
    BY <1>2, <1>3, <1>11, <2>0 DEF EvaluationWrites
  <2> QED BY <1>1, <1>11, <2>1, <2>2 DEF Accepts, OwnWrites
<1>12. CASE c.fn \in {"OpenReview", "ResolveReview"}
  <2>1. \A action : CanReview(L, c, action) => CanReview(M, c, action)
    BY <1>2, <1>3, <1>12, Zenon DEF CanReview, Reviewable
  <2>2. \A action : ReviewWrites(M, c, action) = ReviewWrites(L, c, action)
    BY <1>3, <1>12, Zenon DEF ReviewWrites
  <2> QED BY <1>1, <1>12, <2>1, <2>2 DEF Accepts, OwnWrites
<1>13. c.fn \in {"CreateBatch", "OfferPickup", "OfferDelivery", "RecordFreightCost",
                 "ReportRetailPrice", "EvaluatePrice", "OpenReview", "ResolveReview"}
         \cup Acceptances
  BY DEF Mutation, authorize, Acceptances
<1> QED BY <1>5, <1>6, <1>7, <1>8, <1>9, <1>10, <1>11, <1>12, <1>13

\* Whether a proposal is accepted, what it writes and what it emits depend on the
\* keys it reads and on no other, although it writes keys it never reads.
LEMMA ReadsDecide ==
  ASSUME NEW L, NEW M, NEW c \in Command, Accepts(L, c), Agree(L, M, Reads(L, c))
  PROVE  Same(L, M, c)
<1>1. CASE c.fn = "Bootstrap"
  <2>1. <<"configuration", "v1">> \in Reads(L, c)
    BY <1>1 DEF Reads
  <2>2. L.configuration["v1"] = M.configuration["v1"]
    BY <2>1 DEF Agree
  <2> QED BY <1>1, <2>2 DEF Same, Accepts, CanBootstrap, Plan, Emits
<1>2. CASE c.fn # "Bootstrap"
  <2>0. c.fn \in Mutation
    BY <1>2 DEF Command, Mutation
  <2>1. Accepts(M, c) /\ OwnWrites(M, c) = OwnWrites(L, c)
    BY <2>0, OwnDecided
  <2>2. Agree(L, M, CommonReads(L, c)) /\ Admitted(L, c)
    BY <1>2, AdmittedAgree DEF Accepts
  <2>10. CommonSame(L, M, c)
    BY <2>2, CommonAgree
  <2>3. /\ L.batch[c.batch] = M.batch[c.batch]
        /\ c.fn # "CreateBatch" => M.batchEvidence[c.batch] = L.batchEvidence[c.batch]
    BY <2>2, <2>10, Zenon DEF Admitted, CommonSame
  <2>4. nextBatch(M, c) = nextBatch(L, c)
    BY <2>3, Zenon DEF nextBatch, received, handedOver
  <2>5. nextEvidence(M, c) = nextEvidence(L, c)
    <3>1. CASE c.fn = "CreateBatch"
      BY <3>1 DEF nextEvidence
    <3>2. CASE c.fn # "CreateBatch"
      BY <2>3, <3>2, Zenon DEF nextEvidence
    <3> QED BY <3>1, <3>2
  <2>6. version(M, c.batch) = version(L, c.batch)
    BY <2>3, Zenon DEF version
  <2>7. CommonWrites(M, c) = CommonWrites(L, c)
    BY <2>3, <2>4, <2>5, <2>6, Zenon DEF CommonWrites
  <2>8. Plan(M, c) = Plan(L, c)
    BY <2>1, <2>7, Zenon DEF Plan
  <2>9. Emits(M, c) = Emits(L, c)
    BY <2>3, <2>4, <2>6, Zenon DEF Emits, Event
  <2> QED BY <2>1, <2>8, <2>9 DEF Same
<1> QED BY <1>1, <1>2

\* A composite key of the ledger.
IsKey(k) == k[1] \in Table /\ k[2] \in Keys[k[1]]

\* A proposal that is accepted reads only keys of the ledger: a reference is
\* followed only after the check that the batch has it.
LEMMA ReadsTyped ==
  ASSUME NEW L, IsWorld(L), PairedIn(L), NEW c \in Command, Accepts(L, c)
  PROVE  \A k \in Reads(L, c) : IsKey(k)
<1> DEFINE refs == L.batchEvidence[c.batch]
<1>1. IsKey(<<"configuration", "v1">>)
  BY DEF IsKey, Table, Keys
<1>2. CASE c.fn = "Bootstrap"
  BY <1>1, <1>2 DEF Reads
<1>3. CASE c.fn # "Bootstrap"
  <2>1. /\ c.actor \in Member /\ c.op \in OpId /\ c.batch \in BatchId
        /\ c.transfer \in TransferId /\ c.cost \in CostId
        /\ c.report \in ReportId /\ c.lot \in LotId /\ c.anomaly \in AnomalyId
        /\ c.fn \in Mutation /\ c.docs \subseteq Document
    BY <1>3, CommandTyped DEF Mutation
  <2>2. \A k \in CommonReads(L, c) : IsKey(k)
    <3>1. /\ IsKey(<<"batch", c.batch>>) /\ IsKey(<<"batchEvidence", c.batch>>)
          /\ IsKey(<<"operation", <<c.actor, c.op>>>>)
      BY <2>1 DEF IsKey, Table, Keys, OpKey
    <3> QED BY <1>1, <3>1 DEF CommonReads, BatchReads
  <2>3. ASSUME NEW d \in c.docs
        PROVE  /\ IsKey(<<"sourceKey", <<d.issuer, d.key>>>>)
               /\ IsKey(<<"document", d.id>>)
               /\ IsKey(<<"documentReference", d.id>>)
               /\ IsKey(<<"sourceUse", <<d.issuer, d.src>>>>)
               /\ IsKey(<<"nonceUse", <<d.issuer, d.nonce>>>>)
    <3>1. /\ d.id \in DocId
          /\ <<d.issuer, d.src>> \in Issuer \X DocId
          /\ <<d.issuer, d.nonce>> \in Issuer \X Nonce
          /\ <<d.issuer, d.key>> \in SourceKey
      BY <2>1, DocumentTyped
    <3> QED BY <3>1 DEF IsKey, Table, Keys
  <2>4. ASSUME NEW k \in EvidenceReads(c) PROVE IsKey(k)
    <3>1. PICK d \in c.docs :
            k \in {<<"sourceKey", <<d.issuer, d.key>>>>, <<"document", d.id>>,
                   <<"sourceUse", <<d.issuer, d.src>>>>,
                   <<"nonceUse", <<d.issuer, d.nonce>>>>}
      BY DEF EvidenceReads
    <3> QED BY <2>3, <3>1
  <2>5. \A k \in ConsumedReads(c) : IsKey(k)
    BY <2>3 DEF ConsumedReads
  <2>6. /\ IsKey(<<"pendingTransfer", c.batch>>) /\ IsKey(<<"transfer", c.transfer>>)
        /\ IsKey(<<"costReference", c.cost>>) /\ IsKey(<<"lot", c.lot>>)
        /\ IsKey(<<"reportReference", c.report>>) /\ IsKey(<<"evaluation", c.batch>>)
        /\ IsKey(<<"anomalyReference", c.anomaly>>) /\ IsKey(<<"anomaly", c.anomaly>>)
    BY <2>1 DEF IsKey, Table, Keys
  <2>7. c.fn \in {"ReportRetailPrice", "EvaluatePrice"} =>
          /\ refs \in EvidenceRefs
          /\ refs.purchase # None /\ refs.freight # None
    <3>1. c.fn \in {"ReportRetailPrice", "EvaluatePrice"} =>
            refs.purchase # None /\ refs.freight # None
      BY DEF Accepts, CanReportRetailPrice, CanEvaluatePrice
    <3>2. c.fn \in {"ReportRetailPrice", "EvaluatePrice"} => L.batch[c.batch] # None
      BY DEF Accepts, Admitted
    <3>3. refs \in Opt(EvidenceRefs)
      BY <2>1, WorldTyped
    <3> QED BY <2>1, <3>1, <3>2, <3>3 DEF PairedIn, Opt
  <2>8. c.fn = "EvaluatePrice" => refs.report # None
    BY DEF Accepts, CanEvaluatePrice
  <2>9. c.fn \in {"ReportRetailPrice", "EvaluatePrice"} =>
          /\ IsKey(<<"tradeOpening", refs.purchase>>) /\ IsKey(<<"cost", refs.freight>>)
    BY <2>7 DEF IsKey, Table, Keys, EvidenceRefs, Opt
  <2>10. c.fn = "EvaluatePrice" => IsKey(<<"report", refs.report>>)
    BY <2>7, <2>8 DEF IsKey, Table, Keys, EvidenceRefs, Opt
  <2>11. \A k \in OwnReads(L, c) : IsKey(k)
    <3> HIDE DEF IsKey
    <3>1. c.fn \in {"CreateBatch", "OfferPickup", "AcceptPickup", "OfferDelivery",
                    "AcceptDelivery", "RecordFreightCost", "ReportRetailPrice",
                    "EvaluatePrice", "OpenReview", "ResolveReview"}
      BY <2>1 DEF Mutation, authorize
    <3> QED BY <2>5, <2>6, <2>9, <2>10, <3>1 DEF OwnReads
  <2> QED BY <1>3, <2>2, <2>4, <2>11 DEF Reads
<1> QED BY <1>2, <1>3

-----------------------------------------------------------------------------
(* What was endorsed is what an invocation at the commit would do          *)

\* What a table of tables holds under a composite key.
At(W, k) == W[k[1]][k[2]]

\* A key that holds something has been written, and the count of its writes
\* only grows.
Counted ==
  /\ DOMAIN written = Table
  /\ \A t \in Table : written[t] \in [Keys[t] -> Nat]
  /\ \A t \in Table : \A i \in Keys[t] : world[t][i] # None => written[t][i] > 0

\* The version n that a transaction read of a key stands for the value v found
\* then: absent, or the value of the key's n-th write and of no other.
Seen(k, n, v) ==
  IF n = 0 THEN v = None
  ELSE /\ n \in Nat
       /\ n <= At(written, k)
       /\ n = At(written, k) => At(world, k) = v

\* The transaction tx was endorsed against the world L.
TakenFrom(tx, L) ==
  /\ Accepts(L, tx.c)
  /\ tx.plan  = Plan(L, tx.c)
  /\ tx.emits = Emits(L, tx.c)
  /\ DOMAIN tx.reads = Reads(L, tx.c)
  /\ \A k \in Reads(L, tx.c) : IsKey(k) /\ Seen(k, tx.reads[k], At(L, k))

\* Some world that the ledger went through is what the transaction tells of.
Endorsed(tx) == tx.c \in Proposal /\ \E L : TakenFrom(tx, L)

\* The inductive invariant.
IInv ==
  /\ IsWorld(world)
  /\ PairedIn(world)
  /\ Counted
  /\ \A tx \in pool : Endorsed(tx)

\* A valid transaction found what the ledger still holds.
LEMMA Stands ==
  ASSUME Counted, NEW tx, Endorsed(tx), Valid(tx)
  PROVE  /\ Accepts(world, tx.c)
         /\ Plan(world, tx.c) = tx.plan
         /\ Emits(world, tx.c) = tx.emits
<1>1. PICK L : TakenFrom(tx, L)
  BY DEF Endorsed
<1>2. tx.c \in Command
  BY FabricAssumption DEF Endorsed
<1>3. ASSUME NEW k \in Reads(L, tx.c) PROVE At(L, k) = At(world, k)
  <2>1. /\ IsKey(k) /\ Seen(k, tx.reads[k], At(L, k)) /\ Version(k) = tx.reads[k]
    BY <1>1 DEF TakenFrom, Valid
  <2>2. /\ At(written, k) \in Nat
        /\ At(world, k) # None => At(written, k) > 0
    BY <2>1 DEF Counted, IsKey, At
  <2> QED BY <2>1, <2>2 DEF Seen, Version, At
<1>4. Agree(L, world, Reads(L, tx.c))
  BY <1>3 DEF Agree, At
<1>5. Same(L, world, tx.c)
  BY <1>1, <1>2, <1>4, ReadsDecide DEF TakenFrom
<1> QED BY <1>1, <1>5 DEF Same, TakenFrom

\* A new endorsement is taken from the world as it is.
LEMMA EndorseKeeps ==
  ASSUME IInv, NEW c \in Proposal, Endorse(c)
  PROVE  IInv'
<1>1. UNCHANGED <<world, written>>
  BY DEF Endorse
<1>2. IsWorld(world)' /\ PairedIn(world)' /\ Counted'
  BY <1>1 DEF IInv, Counted
<1>3. \A k, n, v : Seen(k, n, v) <=> Seen(k, n, v)'
  BY <1>1 DEF Seen, At
<1> DEFINE new == [c     |-> c,
                   reads |-> [k \in Reads(world, c) |-> Version(k)],
                   plan  |-> Plan(world, c),
                   emits |-> Emits(world, c)]
<1>4. Accepts(world, c) /\ pool' = pool \cup {new} /\ c \in Command
  BY FabricAssumption DEF Endorse
<1>5. \A k \in Reads(world, c) : IsKey(k)
  BY <1>4, ReadsTyped DEF IInv
<1>6. ASSUME NEW k \in Reads(world, c) PROVE Seen(k, Version(k), At(world, k))
  <2>1. IsKey(k)
    BY <1>5
  <2>2. /\ At(written, k) \in Nat
        /\ At(world, k) # None => At(written, k) > 0
    BY <2>1 DEF IInv, Counted, IsKey, At
  <2> QED BY <2>2 DEF Seen, Version, At
<1>7. TakenFrom(new, world)
  BY <1>4, <1>5, <1>6 DEF TakenFrom
<1>8. ASSUME NEW tx \in pool' PROVE Endorsed(tx)'
  <2>1. Endorsed(tx)
    <3> HIDE DEF new
    <3>1. tx = new => tx.c = c
      BY DEF new
    <3> QED BY <1>4, <1>7, <3>1 DEF IInv, Endorsed
  <2>2. PICK L : TakenFrom(tx, L)
    BY <2>1 DEF Endorsed
  <2>3. TakenFrom(tx, L)'
    BY <1>3, <2>2 DEF TakenFrom
  <2> QED BY <2>1, <2>3 DEF Endorsed
<1> QED BY <1>2, <1>8 DEF IInv

\* A commit writes a plan the engine would make now, and every key whose value it
\* changes gets a version that no transaction in the pool has seen.
LEMMA CommitKeeps ==
  ASSUME IInv, NEW tx \in pool, Commit(tx)
  PROVE  IInv'
<1>1. /\ Endorsed(tx) /\ Valid(tx) /\ tx.c \in Command
      /\ world' = flush(world, tx.plan) /\ pool' = pool
  BY FabricAssumption DEF IInv, Commit, Endorsed
<1>2. Accepts(world, tx.c) /\ Plan(world, tx.c) = tx.plan
  BY <1>1, Stands DEF IInv
<1>3. IsWorld(world') /\ PairedIn(world')
  BY <1>1, <1>2, InvokeKeepsTypes DEF IInv
<1>4. ASSUME NEW t \in Table, NEW i \in Keys[t]
      PROVE  /\ world'[t][i] = world[t][i] /\ written'[t][i] = written[t][i]
             \/ written'[t][i] = written[t][i] + 1
  <2>1. DOMAIN world[t] = Keys[t]
    BY DEF IInv, IsWorld
  <2>2. world'[t] = IF t \in DOMAIN tx.plan THEN Overwrite(world[t], tx.plan[t])
                    ELSE world[t]
    BY <1>1 DEF flush
  <2>3. written'[t] = IF t \notin DOMAIN tx.plan THEN written[t]
                      ELSE [j \in Keys[t] |-> IF j \in DOMAIN tx.plan[t]
                                              THEN written[t][j] + 1
                                              ELSE written[t][j]]
    BY DEF Commit
  <2> QED BY <2>1, <2>2, <2>3 DEF Overwrite
<1>5. DOMAIN written' = Table /\ \A t \in Table : DOMAIN written'[t] = Keys[t]
  BY DEF Commit, IInv, Counted
<1>6. \A t \in Table : \A i \in Keys[t] : written[t][i] \in Nat
  BY DEF IInv, Counted
<1>7. \A t \in Table : written'[t] = [i \in Keys[t] |-> written'[t][i]]
  BY <1>5 DEF Commit, IInv, Counted
<1>8. Counted'
  BY <1>4, <1>5, <1>6, <1>7 DEF IInv, Counted
<1>9. ASSUME NEW k, IsKey(k), NEW n, NEW v, Seen(k, n, v) PROVE Seen(k, n, v)'
  <2>1. \/ At(world, k)' = At(world, k) /\ At(written, k)' = At(written, k)
        \/ At(written, k)' = At(written, k) + 1
    BY <1>4, <1>9 DEF IsKey, At
  <2>2. At(written, k) \in Nat
    BY <1>6, <1>9 DEF IsKey, At
  <2> QED BY <1>9, <2>1, <2>2 DEF Seen
<1>10. ASSUME NEW u \in pool PROVE Endorsed(u)'
  <2>1. Endorsed(u)
    BY DEF IInv
  <2>2. PICK L : TakenFrom(u, L)
    BY <2>1 DEF Endorsed
  <2>3. TakenFrom(u, L)'
    BY <1>9, <2>2 DEF TakenFrom
  <2> QED BY <2>1, <2>3 DEF Endorsed
<1> QED BY <1>1, <1>3, <1>8, <1>10 DEF IInv

\* A transaction that is dropped takes nothing with it.
LEMMA ForgetKeeps ==
  ASSUME IInv, NEW tx \in pool, Invalidate(tx) \/ Lose(tx)
  PROVE  IInv'
<1>1. UNCHANGED <<world, written>> /\ pool' \subseteq pool
  BY DEF Invalidate, Lose
<1> QED BY <1>1 DEF IInv, Counted, Endorsed, TakenFrom, Seen, At

\* The invariant holds in every reachable state.
THEOREM Inductive == Spec => []IInv
<1>1. Init => IInv
  <2> SUFFICES ASSUME Init PROVE IInv
    OBVIOUS
  <2>1. IsWorld(world) /\ PairedIn(world)
    BY InitialWorld DEF Init, PairedIn, EmptyWorld, Table, Keys
  <2>2. Counted
    BY DEF Init, Counted, EmptyWorld
  <2> QED BY <2>1, <2>2 DEF Init, IInv
<1>2. IInv /\ [Next]_vars => IInv'
  <2> SUFFICES ASSUME IInv, [Next]_vars PROVE IInv'
    OBVIOUS
  <2>1. ASSUME NEW c \in Proposal, Endorse(c) PROVE IInv'
    BY <2>1, EndorseKeeps
  <2>2. ASSUME NEW tx \in pool, Commit(tx) PROVE IInv'
    BY <2>2, CommitKeeps
  <2>3. ASSUME NEW tx \in pool, Invalidate(tx) \/ Lose(tx) PROVE IInv'
    BY <2>3, ForgetKeeps
  <2>4. CASE UNCHANGED vars
    BY <2>4 DEF IInv, Counted, Endorsed, TakenFrom, Seen, At, vars
  <2> QED BY <2>1, <2>2, <2>3, <2>4 DEF Next
<1> QED BY <1>1, <1>2, PTL DEF Spec

\* A transaction that passes the version check of its read set would be accepted
\* and would write and emit the same if it were invoked at its commit, however
\* many others were committed since it was endorsed.
THEOREM EndorsementsHold == Spec => []EndorsementsStand
<1>1. IInv => EndorsementsStand
  BY Stands DEF IInv, EndorsementsStand
<1> QED BY <1>1, Inductive, PTL

-----------------------------------------------------------------------------
(* Fabric implements the contract                                          *)

\* The contract C has operators of its own, the engine's under the same constants:
\* unfolded, they say the same.  What a proposal writes and emits:
LEMMA ContractWrites ==
  /\ C!EmptyWorld = EmptyWorld
  /\ \A L, plan : C!flush(L, plan) = flush(L, plan)
  /\ \A L, c : C!Plan(L, c) = Plan(L, c)
  /\ \A L, c : C!Emits(L, c) = Emits(L, c)
<1>1. C!EmptyWorld = EmptyWorld
  BY Zenon DEF EmptyWorld, C!EmptyWorld, Table, C!Table, Keys, C!Keys, State, C!State,
    Member, C!Member, OpKey, C!OpKey, SourceKey, C!SourceKey, Retailer, C!Retailer,
    Regulator, C!Regulator, Logistics, C!Logistics, Producer, C!Producer
<1>2. ASSUME NEW L, NEW plan PROVE C!flush(L, plan) = flush(L, plan)
  BY Zenon DEF flush, C!flush, Table, C!Table, Overwrite, C!Overwrite, Keys, C!Keys,
    State, C!State, Member, C!Member, OpKey, C!OpKey, SourceKey, C!SourceKey, Retailer,
    C!Retailer, Regulator, C!Regulator, Logistics, C!Logistics, Producer, C!Producer
<1>3. ASSUME NEW c PROVE C!bootstrap(c) = bootstrap(c)
  BY Zenon DEF bootstrap, C!bootstrap, Put, C!Put, System, C!System
<1>4. ASSUME NEW c PROVE C!EvidenceWrites(c) = EvidenceWrites(c)
  BY Zenon DEF EvidenceWrites, C!EvidenceWrites, Uses, C!Uses, use, C!use, Nonces,
    C!Nonces
<1>5. ASSUME NEW L, NEW c PROVE C!EvaluationWrites(L, c) = EvaluationWrites(L, c)
  BY Zenon DEF EvaluationWrites, C!EvaluationWrites, Rederived, C!Rederived, Put, C!Put,
    priceScore, C!priceScore, Signal, C!Signal, increase, C!increase, Score, C!Score,
    Wrap, C!Wrap, numerator, C!numerator, Remainder, C!Remainder, Quotient, C!Quotient
<1>6. ASSUME NEW L, NEW c PROVE C!OwnWrites(L, c) = OwnWrites(L, c)
  BY <1>5, Zenon DEF OwnWrites, C!OwnWrites, FreightWrites, C!FreightWrites, Put, C!Put,
    Opening, C!Opening, ReviewWrites, C!ReviewWrites, ReportWrites, C!ReportWrites,
    OfferWrites, C!OfferWrites, consumed, C!consumed, AcceptWrites, C!AcceptWrites, ++,
    C!++, Doc, C!Doc, Review, C!Review, offered, C!offered, use, C!use,
    AcceptedTransfer, C!AcceptedTransfer, Handoff, C!Handoff, Retailer, C!Retailer,
    Logistics, C!Logistics
<1>7. ASSUME NEW L, NEW c PROVE C!CommonWrites(L, c) = CommonWrites(L, c)
  BY Zenon DEF CommonWrites, C!CommonWrites, Put, C!Put, version, C!version, nextBatch,
    C!nextBatch, nextEvidence, C!nextEvidence, IndexWrites, C!IndexWrites, newBatch,
    C!newBatch, received, C!received, Doc, C!Doc, NoEvidence, C!NoEvidence, ++, C!++,
    IndexPut, C!IndexPut, handedOver, C!handedOver, Handoff, C!Handoff, Retailer,
    C!Retailer, Logistics, C!Logistics
<1>8. ASSUME NEW L, NEW c PROVE C!Plan(L, c) = Plan(L, c)
  BY <1>3, <1>4, <1>6, <1>7, Zenon DEF Plan, C!Plan, ++, C!++
<1>9. ASSUME NEW L, NEW c PROVE C!Emits(L, c) = Emits(L, c)
  BY Zenon DEF Emits, C!Emits, Event, C!Event, nextBatch, C!nextBatch, version,
    C!version, newBatch, C!newBatch, received, C!received, handedOver, C!handedOver,
    Handoff, C!Handoff, Retailer, C!Retailer, Logistics, C!Logistics
<1> QED BY <1>1, <1>2, <1>8, <1>9, Zenon

\* The checks that every mutation passes.
LEMMA ContractAdmits ==
  /\ C!authorize = authorize
  /\ \A L, c : C!Admitted(L, c) <=> Admitted(L, c)
<1>1. C!authorize = authorize
  BY Zenon DEF authorize, C!authorize, Retailer, C!Retailer, Regulator, C!Regulator,
    Logistics, C!Logistics, Producer, C!Producer
<1>2. ASSUME NEW fn PROVE C!required(fn) = required(fn)
  BY Zenon DEF required, C!required
<1>3. \A S : C!Cardinality(S) = Cardinality(S)
  BY Zenon DEF Cardinality, C!Cardinality
<1>4. ASSUME NEW L, NEW d PROVE C!Trusted(L, d) <=> Trusted(L, d)
  BY Zenon DEF Trusted, C!Trusted, SystemOf, C!SystemOf
<1>5. ASSUME NEW d, NEW c, NEW q PROVE C!Bound(d, c, q) <=> Bound(d, c, q)
  BY Zenon DEF Bound, C!Bound
<1>6. ASSUME NEW L, NEW c PROVE C!Unused(L, c) <=> Unused(L, c)
  BY Zenon DEF Unused, C!Unused, UnusedDocuments, C!UnusedDocuments, Uses, C!Uses,
    Nonces, C!Nonces
<1>7. ASSUME NEW c PROVE C!DistinctInBundle(c) <=> DistinctInBundle(c)
  BY Zenon DEF DistinctInBundle, C!DistinctInBundle
<1>8. ASSUME NEW L, NEW c PROVE C!quantity(L, c) = quantity(L, c)
  BY Zenon DEF quantity, C!quantity
<1>9. ASSUME NEW L, NEW c PROVE C!ExpectedVersion(L, c) <=> ExpectedVersion(L, c)
  BY Zenon DEF ExpectedVersion, C!ExpectedVersion, UpToDate, C!UpToDate, version,
    C!version
<1>10. ASSUME NEW L, NEW c PROVE C!FreshOperation(L, c) <=> FreshOperation(L, c)
  BY Zenon DEF FreshOperation, C!FreshOperation
<1>11. ASSUME NEW L, NEW c, NEW q PROVE C!Evidenced(L, c, q) <=> Evidenced(L, c, q)
  <2>1. (\A d \in c.docs : C!Trusted(L, d) /\ C!Bound(d, c, q))
          <=> (\A d \in c.docs : Trusted(L, d) /\ Bound(d, c, q))
    BY <1>4, <1>5
  <2> QED BY <1>2, <1>3, <1>6, <1>7, <2>1, Zenon DEF Evidenced, C!Evidenced
<1>12. \A L, c : C!Admitted(L, c) <=> Admitted(L, c)
  BY <1>1, <1>8, <1>9, <1>10, <1>11, Zenon DEF Admitted, C!Admitted
<1> QED BY <1>1, <1>12, Zenon

\* The checks of each function, and so the decision.
LEMMA ContractAccepts ==
  \A L, c : C!Accepts(L, c) <=> Accepts(L, c)
<1>1. ASSUME NEW L, NEW c PROVE C!CanBootstrap(L, c) <=> CanBootstrap(L, c)
  BY Zenon DEF CanBootstrap, C!CanBootstrap, SourcesDistinct, C!SourcesDistinct, System,
    C!System
<1>2. ASSUME NEW L, NEW c PROVE C!CanCreateBatch(L, c) <=> CanCreateBatch(L, c)
  BY Zenon DEF CanCreateBatch, C!CanCreateBatch, Unconsumed, C!Unconsumed
<1>3. ASSUME NEW p PROVE C!validPurchase(p) <=> validPurchase(p)
  BY Zenon DEF validPurchase, C!validPurchase
<1>4. ASSUME NEW L, NEW c, NEW kind
      PROVE  C!CanOffer(L, c, kind) <=> CanOffer(L, c, kind)
  BY Zenon DEF CanOffer, C!CanOffer, FreshTransfer, C!FreshTransfer, NoPendingTransfer,
    C!NoPendingTransfer, Handoff, C!Handoff, Retailer, C!Retailer, Logistics,
    C!Logistics
<1>5. ASSUME NEW L, NEW c PROVE C!CanOfferPickup(L, c) <=> CanOfferPickup(L, c)
  BY <1>3, <1>4, Zenon DEF CanOfferPickup, C!CanOfferPickup, Doc, C!Doc, Opening, C!Opening,
    Unconsumed, C!Unconsumed
<1>6. ASSUME NEW L, NEW c PROVE C!CanOfferDelivery(L, c) <=> CanOfferDelivery(L, c)
  BY <1>4, Zenon DEF CanOfferDelivery, C!CanOfferDelivery, TransportOnRecord,
    C!TransportOnRecord
<1>7. ASSUME NEW L, NEW c, NEW kind
      PROVE  C!CanAccept(L, c, kind) <=> CanAccept(L, c, kind)
  BY Zenon DEF CanAccept, C!CanAccept, IsPending, C!IsPending, FreightOnRecord,
    C!FreightOnRecord, Handoff, C!Handoff, Retailer, C!Retailer, Logistics, C!Logistics
<1>8. ASSUME NEW L, NEW c
      PROVE  C!CanRecordFreightCost(L, c) <=> CanRecordFreightCost(L, c)
  BY Zenon DEF CanRecordFreightCost, C!CanRecordFreightCost, Doc, C!Doc, FreshCost,
    C!FreshCost, NoFreightCost, C!NoFreightCost
<1>9. ASSUME NEW L, NEW c
      PROVE  C!CanReportRetailPrice(L, c) <=> CanReportRetailPrice(L, c)
  BY <1>3, Zenon DEF CanReportRetailPrice, C!CanReportRetailPrice, FreshReport, C!FreshReport,
    NoReport, C!NoReport
<1>10. ASSUME NEW L, NEW c PROVE C!Rederived(L, c) = Rederived(L, c)
  BY Zenon DEF Rederived, C!Rederived, priceScore, C!priceScore, Signal, C!Signal,
    increase, C!increase, Score, C!Score, Wrap, C!Wrap, numerator, C!numerator,
    Remainder, C!Remainder, Quotient, C!Quotient
<1>11. ASSUME NEW L, NEW c PROVE C!CanEvaluatePrice(L, c) <=> CanEvaluatePrice(L, c)
  BY <1>10, Zenon DEF CanEvaluatePrice, C!CanEvaluatePrice, NotEvaluated, C!NotEvaluated,
    NoEvaluation, C!NoEvaluation, FreshAnomaly, C!FreshAnomaly, Accepted, C!Accepted
<1>12. ASSUME NEW L, NEW c, NEW action
      PROVE  C!CanReview(L, c, action) <=> CanReview(L, c, action)
  BY Zenon DEF CanReview, C!CanReview, Review, C!Review, Reviewable, C!Reviewable,
    Outcome, C!Outcome
<1> QED BY <1>1, <1>2, <1>5, <1>6, <1>7, <1>8, <1>9, <1>11, <1>12,
           ContractAdmits, ZenonT(60) DEF Accepts, C!Accepts

\* A commit is an invocation: the proposal, run at that moment by the contract,
\* has the effect that was endorsed.
LEMMA CommitInvokes ==
  ASSUME IInv, NEW tx \in pool, Commit(tx)
  PROVE  C!Next
<1>1. tx.c \in Proposal /\ tx.c \in Command /\ Endorsed(tx) /\ Valid(tx) /\ Counted
  BY FabricAssumption DEF IInv, Commit, Endorsed
<1>2. /\ Accepts(world, tx.c) /\ Plan(world, tx.c) = tx.plan
      /\ Emits(world, tx.c) = tx.emits
  BY <1>1, Stands
<1>3. /\ world' = flush(world, Plan(world, tx.c))
      /\ events' = [events EXCEPT ![tx.c.batch] = @ \o Emits(world, tx.c)]
  BY <1>2 DEF Commit
<1>4. C!Invoke(tx.c)
  BY <1>2, <1>3, ContractAccepts, ContractWrites, Zenon DEF C!Invoke
<1>5. tx.c.fn \in DOMAIN C!authorize
  BY <1>1, ContractAdmits, CommandTyped
<1>6. tx.c \in C!ProposalOf[tx.c.fn]
  BY <1>1, <1>5, Zenon DEF C!ProposalOf
<1> QED BY <1>4, <1>5, <1>6, Zenon
        DEF C!Next, C!Bootstrap, C!CreateBatch, C!OfferPickup, C!AcceptPickup,
            C!RecordFreightCost, C!OfferDelivery, C!AcceptDelivery,
            C!ReportRetailPrice, C!EvaluatePrice, C!OpenReview, C!ResolveReview,
            C!authorize

\* Whatever is endorsed concurrently, delivered late, twice, out of order or never,
\* the ledger and the events are those of the contract run one proposal after
\* another: the refinement of Chaincode by Fabric.
THEOREM OneAfterAnother == Spec => Serializable
<1>1. Init => C!Init
  BY ContractWrites DEF Init, C!Init
<1>2. IInv /\ [Next]_vars => [C!Next]_(C!vars)
  BY CommitInvokes DEF Next, vars, Endorse, Invalidate, Lose, C!vars
<1> QED BY <1>1, <1>2, Inductive, PTL DEF Spec, Serializable, C!Spec
=============================================================================
