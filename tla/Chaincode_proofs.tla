--------------------------- MODULE Chaincode_proofs ---------------------------
(***************************************************************************)
(* For any identifiers, bounds and proposals: the contract on its ledger,  *)
(* one proposal after another, from what Engine_proofs shows of one.  The  *)
(* types, the custody, the invariants of the ledger and of the events, the *)
(* action properties, and the refinement of Lifecycle; then what follows   *)
(* for those who act on the ledger: the projection and the worker of the   *)
(* module Tracing, and the readers of the module Queries.                  *)
(***************************************************************************)
EXTENDS Tracing, Queries, Engine_proofs, WellFoundedInduction

-----------------------------------------------------------------------------
(* Types                                                                   *)

Paired == PairedIn(world)

IInv == TypeOK /\ Paired

\* A step is an accepted proposal's.
LEMMA StepInvokes ==
  ASSUME Next
  PROVE  \E c \in Proposal : Invoke(c)
BY DEF Next, ProposalOf, Bootstrap, CreateBatch, OfferPickup,
       AcceptPickup, RecordFreightCost, OfferDelivery, AcceptDelivery,
       ReportRetailPrice, EvaluatePrice, OpenReview, ResolveReview, authorize

\* An accepted proposal keeps the types, those of the events too.
LEMMA InvokeKeeps ==
  ASSUME IInv, NEW c \in Command, Invoke(c)
  PROVE  IInv'
<1>1. c \in Command /\ Accepts(world, c) /\ IsWorld(world)
  BY DEF Invoke, IInv, TypeOK
<1>3. IsWorld(world') /\ Paired'
  BY <1>1, InvokeKeepsTypes DEF Invoke, IInv, Paired
<1>4. events' \in [BatchId -> Seq(EventRecord)]
  <2>0. events \in [BatchId -> Seq(EventRecord)] /\ c.batch \in BatchId
    BY <1>1, CommandTyped DEF IInv, TypeOK
  <2>1. CASE c.fn = "Bootstrap"
    <3>1. events' = [events EXCEPT ![c.batch] = @ \o <<>>]
      BY <2>1 DEF Invoke, Emits
    <3>2. events[c.batch] \o <<>> \in Seq(EventRecord)
      BY <2>0
    <3> QED BY <2>0, <3>1, <3>2
  <2>2. CASE c.fn # "Bootstrap"
    <3> DEFINE e == Event(world, c)
               b == world.batch[c.batch]
    <3>1. /\ version(world, c.batch) + 1 \in 1..MaxVersion
          /\ b \in Opt(Batch)
      BY <1>1, <2>2, AdmittedBatch
    <3>2. nextBatch(world, c).state \in State
      BY <1>1, <2>2, NextBatchTyped DEF Unversioned
    <3>3. (IF b = None THEN None ELSE b.state) \in Opt(State)
      BY <3>1 DEF Opt, Batch
    <3>4. c.fn \in Mutation
      BY <1>1, <2>2, CommandTyped DEF Mutation
    <3>5. e \in EventRecord
      BY <1>1, <3>1, <3>2, <3>3, <3>4, CommandTyped DEF Event, EventRecord
    <3>6. events' = [events EXCEPT ![c.batch] = @ \o <<e>>]
      BY <2>2 DEF Invoke, Emits
    <3> HIDE DEF e
    <3>7. events[c.batch] \o <<e>> \in Seq(EventRecord)
      BY <2>0, <3>5
    <3> QED BY <2>0, <3>6, <3>7
  <2> QED BY <2>1, <2>2
<1> QED BY <1>3, <1>4 DEF IInv, TypeOK

\* Initially, and after every step, the invariant holds.
THEOREM Inductive == Spec => []IInv
<1>1. Init => IInv
  <2> SUFFICES ASSUME Init PROVE IInv
    OBVIOUS
  <2>1. IsWorld(world)
    BY InitialWorld DEF Init
  <2>2. \A b \in BatchId : world.batch[b] = None /\ world.batchEvidence[b] = None
    BY DEF Init, EmptyWorld, Table, Keys
  <2>3. events \in [BatchId -> Seq(EventRecord)]
    BY DEF Init
  <2> QED BY <2>1, <2>2, <2>3 DEF IInv, TypeOK, Paired, PairedIn
<1>2. IInv /\ [Next]_vars => IInv'
  <2> SUFFICES ASSUME IInv, [Next]_vars PROVE IInv'
    OBVIOUS
  <2>1. ASSUME NEW c \in Proposal, Invoke(c) PROVE IInv'
    BY <2>1, ProposalAssumption, InvokeKeeps
  <2>2. CASE Next
    BY <2>1, <2>2, StepInvokes
  <2>3. CASE UNCHANGED vars
    BY <2>3 DEF vars, IInv, TypeOK, Paired, PairedIn
  <2> QED BY <2>2, <2>3
<1> QED BY <1>1, <1>2, PTL DEF Spec

\* Every table of the ledger and every event keeps its type, and no batch's
\* version passes the ceiling (engine.apply), whatever clients propose.
THEOREM TypeCorrect == Spec => []TypeOK
<1>1. IInv => TypeOK
  BY DEF IInv
<1> QED BY <1>1, Inductive, PTL

-----------------------------------------------------------------------------
(* Custody                                                                 *)

Custodied == CustodiedIn(world)

\* Bootstrap touches neither the batches nor their transfers.
LEMMA BootstrapKeepsCustody ==
  ASSUME NEW c, c.fn = "Bootstrap", Custodied, Invoke(c)
  PROVE  Custodied'
<1>1. /\ world'.batch = world.batch /\ world'.transfer = world.transfer
      /\ world'.pendingTransfer = world.pendingTransfer
  BY DEF Invoke, Plan, bootstrap, flush, Table, Keys
<1> QED BY <1>1 DEF Custodied, CustodiedIn

\* An accepted proposal keeps every batch's custody its transfers'.
LEMMA CustodyKept ==
  ASSUME IInv, Custodied, NEW c \in Command, Invoke(c)
  PROVE  Custodied'
<1>1. CASE c.fn # "Bootstrap"
  <2>1. /\ Accepts(world, c) /\ IsWorld(world) /\ IsWorld(world')
        /\ world' = flush(world, Plan(world, c))
    BY InvokeKeeps DEF Invoke, IInv, TypeOK
  <2> QED BY <1>1, <2>1, InvokeKeepsCustody DEF Custodied
<1>2. CASE c.fn = "Bootstrap"
  BY <1>2, BootstrapKeepsCustody
<1> QED BY <1>1, <1>2

\* Every batch's custody is its transfers', initially and after every step.
LEMMA CustodyInvariant == Spec => []Custodied
<1>1. Init => Custodied
  <2> SUFFICES ASSUME Init PROVE Custodied
    OBVIOUS
  <2>1. /\ \A b \in BatchId : world.batch[b] = None /\ world.pendingTransfer[b] = None
        /\ \A t \in TransferId : world.transfer[t] = None
    BY DEF Init, EmptyWorld, Table, Keys
  <2> QED BY <2>1 DEF Custodied, CustodiedIn, Custody, Unoffered, Concerns
<1>2. IInv /\ Custodied /\ [Next]_vars => Custodied'
  <2> SUFFICES ASSUME IInv, Custodied, [Next]_vars PROVE Custodied'
    OBVIOUS
  <2>1. CASE Next
    BY <2>1, StepInvokes, CustodyKept, ProposalAssumption
  <2>2. CASE UNCHANGED vars
    BY <2>2 DEF vars, Custodied, CustodiedIn
  <2> QED BY <2>1, <2>2
<1> QED BY <1>1, <1>2, Inductive, PTL DEF Spec

\* A batch on the ledger, with its pending transfer and the table of transfers.
LEMMA OnLedger ==
  ASSUME IInv, Custodied, NEW b \in Present("batch")
  PROVE  /\ b \in BatchId /\ world.batch[b] \in Batch
         /\ world.pendingTransfer[b] \in Opt(TransferId)
         /\ world.transfer \in Transferring
         /\ Offering(world.batch[b], world.pendingTransfer[b], world.transfer, b)
         /\ Holding(world.batch[b], world.transfer, b)
         /\ Transfers(b) = {t \in TransferId : Concerns(world.transfer, t, b)}
<1>1. b \in BatchId /\ world.batch[b] # None
  BY DEF Present, Keys
<1>2. IsWorld(world)
  BY DEF IInv, TypeOK
<1>3. /\ world.batch[b] \in Batch /\ world.pendingTransfer[b] \in Opt(TransferId)
      /\ world.transfer \in Transferring
  BY <1>1, <1>2, WorldTyped DEF Opt, Transferring
<1>4. Custody(world.batch[b], world.pendingTransfer[b], world.transfer, b)
  BY <1>1 DEF Custodied, CustodiedIn
<1>5. Transfers(b) = {t \in TransferId : Concerns(world.transfer, t, b)}
  BY DEF Transfers, Present, Keys, Concerns
<1> QED BY <1>1, <1>3, <1>4, <1>5 DEF Custody

\* An offer is outstanding exactly while its batch waits for its acceptance, made
\* by the custodian to the organisation the state waits for, whatever identifiers
\* clients propose and in whatever order (engine.apply, offers/accepts).
THEOREM OffersOutstanding == Spec => []CustodyOffered
<1>1. IInv /\ Custodied => CustodyOffered
  <2> SUFFICES ASSUME IInv, Custodied, NEW b \in Present("batch")
               PROVE  LET r == world.batch[b]
                          p == world.pendingTransfer[b]
                      IN  /\ (p # None) <=>
                               (\E k \in DOMAIN Handoff : r.state = Handoff[k].pending)
                          /\ {t \in Transfers(b) : world.transfer[t].status = "OFFERED"} = {p} \ {None}
                          /\ p # None => LET t == world.transfer[p]
                                         IN  /\ t.batch = b
                                             /\ t.from = r.custodian
                                             /\ r.state = Handoff[t.kind].pending
                                             /\ t.to = Handoff[t.kind].recipient
                                             /\ t.quantity = r.quantity
    BY DEF CustodyOffered
  <2> DEFINE r == world.batch[b]
             p == world.pendingTransfer[b]
             T == world.transfer
  <2>1. p \in Opt(TransferId) /\ Offering(r, p, T, b)
    BY OnLedger
  <2>2. (p # None) <=> (\E k \in DOMAIN Handoff : r.state = Handoff[k].pending)
    BY <2>1 DEF Offering, Waiting, Handoff
  <2>3. Transfers(b) = {t \in TransferId : Concerns(T, t, b)}
    BY OnLedger
  <2>4. {t \in Transfers(b) : T[t].status = "OFFERED"} = {p} \ {None}
    <3>1. None \notin TransferId
      BY EngineAssumption, ValuesOf DEF Table, Keys
    <3>2. p # None => p \in TransferId /\ Concerns(T, p, b)
      BY <2>1 DEF Offering, Opt
    <3>3. \A t \in TransferId : Concerns(T, t, b) => (T[t].status = "OFFERED" <=> t = p)
      BY <2>1 DEF Offering
    <3> HIDE DEF p, T
    <3>4. \A t : /\ t \in {u \in Transfers(b) : T[u].status = "OFFERED"}
                <=> t \in {p} \ {None}
      BY <2>3, <3>1, <3>2, <3>3
    <3> QED BY <3>4
  <2>5. p # None => /\ T[p].batch = b
                    /\ T[p].from = r.custodian
                    /\ r.state = Handoff[T[p].kind].pending
                    /\ T[p].to = Handoff[T[p].kind].recipient
                    /\ T[p].quantity = r.quantity
    BY <2>1 DEF Offering, Concerns
  <2> QED BY <2>2, <2>4, <2>5
<1> QED BY <1>1, Inductive, CustodyInvariant, PTL

\* Who holds and who owns a batch is what its accepted transfers say, of which
\* there is at most one of each kind, so no hand-over is counted twice and a
\* delivery only follows its pickup (engine.apply, accepts).
THEOREM CustodyTrue == Spec => []CustodyFollowsTransfers
<1>1. IInv /\ Custodied => CustodyFollowsTransfers
  <2> SUFFICES ASSUME IInv, Custodied, NEW b \in Present("batch")
               PROVE  LET r == world.batch[b]
                          A == {t \in Transfers(b) : world.transfer[t].status = "ACCEPTED"}
                          K == {world.transfer[t].kind : t \in A}
                      IN  /\ r.custodian = CASE K = {}         -> Producer
                                             [] K = {"PICKUP"} -> Logistics
                                             [] OTHER          -> Retailer
                          /\ r.owner = IF "DELIVERY" \in K THEN Retailer ELSE Producer
                          /\ "DELIVERY" \in K => "PICKUP" \in K
                          /\ Cardinality(A) = Cardinality(K)
    BY DEF CustodyFollowsTransfers
  <2> DEFINE r == world.batch[b]
             T == world.transfer
             A == {t \in Transfers(b) : T[t].status = "ACCEPTED"}
             K == {T[t].kind : t \in A}
  <2>1. T \in Transferring /\ Holding(r, T, b)
    BY OnLedger
  <2>2. Transfers(b) = {t \in TransferId : Concerns(T, t, b)}
    BY OnLedger
  <2>3. A = {t \in TransferId : Taken(T, t, b, "PICKUP") \/ Taken(T, t, b, "DELIVERY")}
    <3>1. \A t \in TransferId : Concerns(T, t, b) => T[t].kind \in {"PICKUP", "DELIVERY"}
      BY <2>1 DEF Concerns, Transferring, Opt, Transfer, Handoff
    <3> HIDE DEF T
    <3> QED BY <2>2, <3>1 DEF Taken
  <2> HIDE DEF r, T
  <2>4. CASE r.state \in AtProducer
    <3>1. A = {}
      BY <2>1, <2>3, <2>4 DEF Holding, AtProducer, AtRetailer
    <3>2. K = {}
      BY <3>1
    <3> HIDE DEF A, K
    <3> QED BY <2>1, <2>4, <3>1, <3>2 DEF Holding, AtProducer, AtRetailer, r, T, A, K
  <2>5. CASE r.state \in AtRetailer
    <3>1. PICK t \in TransferId, u \in TransferId :
            Taken(T, t, b, "PICKUP") /\ Taken(T, u, b, "DELIVERY")
      BY <2>1, <2>5 DEF Holding, AtProducer, AtRetailer
    <3>2. T[t].kind = "PICKUP" /\ T[u].kind = "DELIVERY"
      BY <3>1 DEF Taken
    <3>3. A = {t} \cup {u}
      BY <2>1, <2>3, <3>1 DEF Holding, Handoff
    <3>4. K = {"PICKUP"} \cup {"DELIVERY"}
      BY <3>2, <3>3
    <3>5. Cardinality(A) = Cardinality(K)
      <4>1. u \notin {t} /\ "DELIVERY" \notin {"PICKUP"}
        BY <3>2
      <4>2. /\ IsFiniteSet({t}) /\ Cardinality({t}) = 1
            /\ IsFiniteSet({"PICKUP"}) /\ Cardinality({"PICKUP"}) = 1
        BY FS_Singleton
      <4>3. Cardinality({t} \cup {u}) = 1 + 1
        BY <4>1, <4>2, FS_AddElement, Zenon
      <4>4. Cardinality({"PICKUP"} \cup {"DELIVERY"}) = 1 + 1
        BY <4>1, <4>2, FS_AddElement, Zenon
      <4> HIDE DEF A, K
      <4> QED BY <3>3, <3>4, <4>3, <4>4
    <3>6. r.custodian = Retailer /\ r.owner = Retailer
      BY <2>1, <2>5 DEF Holding, AtProducer, AtRetailer
    <3>7. K # {} /\ K # {"PICKUP"} /\ {"PICKUP", "DELIVERY"} \subseteq K
      BY <3>4
    <3> HIDE DEF A, K
    <3> QED BY <3>5, <3>6, <3>7 DEF r, T, A, K
  <2>6. CASE r.state \notin AtProducer \cup AtRetailer
    <3>1. PICK t \in TransferId : Taken(T, t, b, "PICKUP")
      BY <2>1, <2>6 DEF Holding
    <3>2. T[t].kind = "PICKUP"
      BY <3>1 DEF Taken
    <3>3. A = {t}
      BY <2>1, <2>3, <2>6, <3>1 DEF Holding, Handoff
    <3>4. K = {"PICKUP"}
      BY <3>2, <3>3
    <3>5. Cardinality(A) = Cardinality(K)
      BY <3>3, <3>4, FS_Singleton
    <3>6. r.custodian = Logistics /\ r.owner = Producer
      BY <2>1, <2>6 DEF Holding
    <3> HIDE DEF A, K
    <3> QED BY <3>4, <3>5, <3>6 DEF r, T, A, K
  <2> QED BY <2>4, <2>5, <2>6
<1> QED BY <1>1, Inductive, CustodyInvariant, PTL

-----------------------------------------------------------------------------
(* The ledger                                                              *)

Ledger == Sound(world)

\* A mutation does what Engine_proofs says that it does.
LEMMA Mutates ==
  ASSUME IInv, NEW c \in Command, Invoke(c), c.fn # "Bootstrap"
  PROVE  Effect(world, c, world')
<1>1. /\ c \in Command /\ Accepts(world, c) /\ IsWorld(world) /\ PairedIn(world)
      /\ world' = flush(world, Plan(world, c))
  BY DEF Invoke, IInv, TypeOK, Paired
<1> QED BY <1>1, MutationEffect

\* An accepted proposal keeps the ledger sound.
LEMMA LedgerKept ==
  ASSUME IInv, Ledger, NEW c \in Command, Invoke(c)
  PROVE  Ledger'
<1>1. CASE c.fn # "Bootstrap"
  <2>1. Effect(world, c, world')
    BY <1>1, Mutates
  <2> QED BY <2>1, SoundKept DEF Ledger
<1>2. CASE c.fn = "Bootstrap"
  <2>1. /\ Accepts(world, c) /\ IsWorld(world) /\ PairedIn(world)
        /\ world' = flush(world, Plan(world, c))
    BY DEF Invoke, IInv, TypeOK, Paired
  <2> QED BY <1>2, <2>1, BootstrapKeepsSound DEF Ledger
<1> QED BY <1>1, <1>2

\* The ledger is sound, initially and after every step.
LEMMA LedgerInvariant == Spec => []Ledger
<1>1. Init => Ledger
  BY EmptySound DEF Init, Ledger
<1>2. IInv /\ Ledger /\ [Next]_vars => Ledger'
  <2> SUFFICES ASSUME IInv, Ledger, [Next]_vars PROVE Ledger'
    OBVIOUS
  <2>1. CASE Next
    BY <2>1, StepInvokes, LedgerKept, ProposalAssumption
  <2>2. CASE UNCHANGED vars
    BY <2>2 DEF vars, Ledger
  <2> QED BY <2>1, <2>2
<1> QED BY <1>1, <1>2, Inductive, PTL DEF Spec

\* What is present in a table of the ledger.
LEMMA Presence ==
  /\ Present("batch") = {b \in BatchId : world.batch[b] # None}
  /\ Present("owner") = {k \in Member \X BatchId : world.owner[k] # None}
  /\ Present("state") = {k \in State \X BatchId : world.state[k] # None}
  /\ Present("lot") = {l \in LotId : world.lot[l] # None}
  /\ Present("anomaly") = {a \in AnomalyId : world.anomaly[a] # None}
  /\ Present("operation") = {k \in OpKey : world.operation[k] # None}
  /\ Present("transfer") = {t \in TransferId : world.transfer[t] # None}
  /\ Present("document") = {d \in DocId : world.document[d] # None}
  /\ Present("reviewAction") = {k \in AnomalyId \X OpId : world.reviewAction[k] # None}
  /\ Present("reviewActionReference") =
       {k \in AnomalyId \X OpId : world.reviewActionReference[k] # None}
BY DEF Present, Keys

\* The owner and state indexes list every batch once, under its current owner and
\* state (engine.apply), so a page read through them shows no stale batch.
THEOREM IndexesTrue == Spec => []IndexesAgree
<1>1. IInv /\ Ledger => IndexesAgree
  <2> SUFFICES ASSUME IInv, Ledger PROVE IndexesAgree
    OBVIOUS
  <2>1. /\ \A m \in Member, b \in BatchId :
             (world.owner[<<m, b>>] # None) <=>
               (world.batch[b] # None /\ world.batch[b].owner = m)
        /\ \A s \in State, b \in BatchId :
             (world.state[<<s, b>>] # None) <=>
               (world.batch[b] # None /\ world.batch[b].state = s)
    BY NoneApart DEF Ledger, Sound, IndexedIn
  <2>2. \A b \in BatchId : world.batch[b] # None =>
          world.batch[b].owner \in Member /\ world.batch[b].state \in State
    <3>1. world.batch \in [BatchId -> Opt(Batch)]
      BY WorldTyped DEF IInv, TypeOK
    <3> QED BY <3>1 DEF Opt, Batch
  <2>3. Present("owner") = {<<world.batch[b].owner, b>> : b \in Present("batch")}
    BY <2>1, <2>2, Presence
  <2>4. Present("state") = {<<world.batch[b].state, b>> : b \in Present("batch")}
    BY <2>1, <2>2, Presence
  <2> QED BY <2>3, <2>4 DEF IndexesAgree
<1> QED BY <1>1, Inductive, LedgerInvariant, PTL

\* A lot and a reported batch belong to each other, and the lot is for the whole
\* quantity (engine.apply, ReportRetailPrice): no quantity is sold twice.
THEOREM LotsAreConserved == Spec => []LotsConserved
<1>1. IInv /\ Ledger => LotsConserved
  <2> SUFFICES ASSUME IInv, Ledger PROVE LotsConserved
    OBVIOUS
  <2>1. /\ \A b \in BatchId : world.batch[b] # None => Sold(world, b)
        /\ \A l \in LotId : world.lot[l] # None => LotOf(world, l)
    BY DEF Ledger, Sound, SoldIn
  <2>2. ASSUME NEW b \in Present("batch")
        PROVE  LET r == world.batch[b]
               IN  /\ (r.lot # None) <=> (r.state = "RETAIL_REPORTED")
                   /\ r.lot # None =>
                        world.lot[r.lot] = [batch |-> b, quantity |-> r.quantity,
                                            report |-> world.batchEvidence[b].report]
    <3>1. b \in BatchId /\ world.batch[b] # None
      BY <2>2, Presence
    <3>2. Sold(world, b)
      BY <2>1, <3>1
    <3> QED BY <3>2 DEF Sold
  <2>3. ASSUME NEW l \in Present("lot")
        PROVE  world.batch[world.lot[l].batch].lot = l
    <3>1. LotOf(world, l)
      BY <2>1, <2>3, Presence
    <3> QED BY <3>1 DEF LotOf
  <2> QED BY <2>2, <2>3 DEF LotsConserved
<1> QED BY <1>1, Inductive, LedgerInvariant, PTL

\* What a batch refers to exists and is the batch's own, publicly and privately,
\* and no private record lacks its public reference (realPrivate.prepare).
THEOREM PrivateRecordsBacked == Spec => []PrivateBacked
<1>1. IInv /\ Ledger => PrivateBacked
  <2> SUFFICES ASSUME IInv, Ledger PROVE PrivateBacked
    OBVIOUS
  <2>1. OpeningsIn(world) /\ FreightIn(world) /\ SoldIn(world) /\ EvaluatedIn(world)
    BY DEF Ledger, Sound
  <2>2. \A a \in AnomalyId : world.anomalyReference[a] # None => Attached(world, a)
    BY <2>1 DEF EvaluatedIn
  <2>3. ASSUME NEW b \in Present("batch")
        PROVE  LET refs == world.batchEvidence[b]
                   ev == world.evaluation[b]
               IN  /\ refs.freight # None => world.costReference[refs.freight] = b
                   /\ refs.report # None => world.reportReference[refs.report] = b
                   /\ ev # None => world.anomaly[ev.anomaly].batch = b
    <3>1. b \in BatchId /\ world.batch[b] # None
      BY <2>3, Presence
    <3>2. Freighted(world, b) /\ Sold(world, b)
      BY <2>1, <3>1 DEF FreightIn, SoldIn
    <3>3. ASSUME world.evaluation[b] # None
          PROVE  world.anomaly[world.evaluation[b].anomaly].batch = b
      <4>1. Evaluated(world, b)
        BY <2>1, <3>1, <3>3 DEF EvaluatedIn
      <4>2. Attached(world, world.evaluation[b].anomaly)
        BY <2>2, <4>1 DEF Evaluated
      <4> QED BY <4>1, <4>2 DEF Evaluated, Attached
    <3>4. /\ world.batchEvidence[b].freight # None =>
               world.costReference[world.batchEvidence[b].freight] = b
          /\ world.batchEvidence[b].report # None =>
               world.reportReference[world.batchEvidence[b].report] = b
      BY <3>2 DEF Freighted, Sold
    <3> QED BY <3>3, <3>4
  <2>4. \A k \in CostId :
          IF world.costReference[k] = None THEN world.cost[k] = None
          ELSE world.cost[k] # None /\ world.cost[k].batch = world.costReference[k]
    BY <2>1 DEF FreightIn
  <2>5. \A k \in ReportId :
          IF world.reportReference[k] = None THEN world.report[k] = None
          ELSE /\ world.report[k] # None
               /\ world.report[k].batch = world.reportReference[k]
    BY <2>1 DEF SoldIn
  <2>6. ASSUME NEW k \in AnomalyId
        PROVE  IF world.anomalyReference[k] = None THEN world.anomaly[k] = None
               ELSE /\ world.anomaly[k] # None
                    /\ world.anomaly[k].batch = world.anomalyReference[k].batch
                    /\ world.evaluation[world.anomaly[k].batch].anomaly = k
    <3>1. CASE world.anomalyReference[k] = None
      BY <2>1, <3>1 DEF EvaluatedIn
    <3>2. CASE world.anomalyReference[k] # None
      BY <2>2, <3>2 DEF Attached
    <3> QED BY <3>1, <3>2
  <2>7. \A d \in DocId :
          (world.tradeOpening[d] # None) <=>
             (world.document[d] # None /\ world.document[d].type = "PURCHASE_INVOICE")
    BY <2>1 DEF OpeningsIn
  <2> QED BY <2>3, <2>4, <2>5, <2>6, <2>7 DEF PrivateBacked
<1> QED BY <1>1, Inductive, LedgerInvariant, PTL

\* What the retailer has received has a freight cost and a purchase on record, for
\* the batch's quantity, so a report or an evaluation lacks no input.
THEOREM InputsOnRecord == Spec => []ReceivedWithCost
<1>1. IInv /\ Ledger => ReceivedWithCost
  <2> SUFFICES ASSUME IInv, Ledger, NEW b \in Present("batch"),
                      world.batch[b].state \in {"RECEIVED", "RETAIL_REPORTED"}
               PROVE  LET refs == world.batchEvidence[b]
                      IN  /\ refs.freight # None /\ world.cost[refs.freight] # None
                          /\ refs.purchase # None /\ world.tradeOpening[refs.purchase] # None
                          /\ world.cost[refs.freight].quantity = world.batch[b].quantity
                          /\ world.tradeOpening[refs.purchase].quantity = world.batch[b].quantity
    BY DEF ReceivedWithCost
  <2>1. b \in BatchId /\ world.batch[b] # None
    BY Presence
  <2>2. Freighted(world, b) /\ Purchased(world, b)
    BY <2>1 DEF Ledger, Sound, FreightIn, PurchasedIn
  <2>3. world.batch[b].state \in AtRetailer /\ world.batch[b].state # "CREATED"
    BY DEF AtRetailer
  <2> QED BY <2>2, <2>3 DEF Freighted, Purchased
<1> QED BY <1>1, Inductive, LedgerInvariant, PTL

\* An anomaly states the rule's verdict on the prices of its own batch under the
\* policy on record (realEvidence.analysis, EvaluatePrice), now and at any later time.
THEOREM ScoresGrounded == Spec => []ScoreGrounded
<1>1. IInv /\ Ledger => ScoreGrounded
  <2> SUFFICES ASSUME IInv, Ledger PROVE ScoreGrounded
    OBVIOUS
  <2>1. \A a \in Present("anomaly") : Grounded(world, world.anomaly[a])
    BY Presence DEF Ledger, Sound, GroundedIn
  <2> QED BY <2>1 DEF ScoreGrounded, Grounded
<1> QED BY <1>1, Inductive, LedgerInvariant, PTL

\* The review actions of an anomaly are those its review state tells of, in the
\* order of their receipts (realEvidence.analysis, OpenReview and ResolveReview).
THEOREM ReviewsJustified == Spec => []ReviewJustified
<1>1. IInv /\ Ledger => ReviewJustified
  <2> SUFFICES ASSUME IInv, Ledger, NEW a \in Present("anomaly")
               PROVE
    LET of == {k \in Present("reviewAction") : k[1] = a}
        opened   == {k \in of : world.reviewAction[k].action = "OPEN_REVIEW"}
        resolved == of \ opened
        at(k)    == world.operation[<<Regulator, k[2]>>].version
        count    == <<Cardinality(opened), Cardinality(resolved)>>
    IN  /\ of = {k \in Present("reviewActionReference") : k[1] = a}
        /\ count = CASE world.anomaly[a].review = "RESOLVED"  -> <<1, 1>>
                     [] world.anomaly[a].review = "IN_REVIEW" -> <<1, 0>>
                     [] OTHER                                 -> <<0, 0>>
        /\ \A o \in opened, r \in resolved : at(o) < at(r)
        /\ (world.anomaly[a].review = "NOT_REQUIRED")
             <=> (world.anomaly[a].score.classification = "NO_SIGNAL")
    BY DEF ReviewJustified
  <2> DEFINE of == {k \in Present("reviewAction") : k[1] = a}
             opened == {k \in of : world.reviewAction[k].action = "OPEN_REVIEW"}
             resolved == of \ opened
             x == world.anomaly[a]
  <2>1. a \in AnomalyId /\ x # None
    BY Presence
  <2>2. x.review \in ReviewState
    <3>1. world.anomaly \in [AnomalyId -> Opt(Anomaly)]
      BY WorldTyped DEF IInv, TypeOK
    <3>2. x \in Anomaly
      BY <2>1, <3>1 DEF Opt
    <3> QED BY <3>2 DEF Anomaly
  <2>3. /\ \A o \in OpId :
             (world.reviewActionReference[<<a, o>>] # None) <=>
               (world.reviewAction[<<a, o>>] # None)
        /\ Progress(world, a)
    BY <2>1 DEF Ledger, Sound, ReviewsIn
  <2>4. of = {k \in Present("reviewActionReference") : k[1] = a}
    <3>1. of = {k \in {a} \X OpId : world.reviewAction[k] # None}
      BY <2>1, Presence
    <3>2. {k \in Present("reviewActionReference") : k[1] = a}
            = {k \in {a} \X OpId : world.reviewActionReference[k] # None}
      BY <2>1, Presence
    <3>3. \A k \in {a} \X OpId :
            (world.reviewActionReference[k] # None) <=> (world.reviewAction[k] # None)
      BY <2>3
    <3> HIDE DEF of
    <3> QED BY <3>1, <3>2, <3>3
  <2>5. (x.review = "NOT_REQUIRED") <=> (x.score.classification = "NO_SIGNAL")
    BY <2>3 DEF Progress
  <2>6. \A k : k \in of <=> \E o \in OpId : k = <<a, o>> /\ world.reviewAction[<<a, o>>] # None
    <3>1. of = {k \in {a} \X OpId : world.reviewAction[k] # None}
      BY <2>1, Presence
    <3> HIDE DEF of
    <3>2. \A k : k \in {a} \X OpId <=> \E o \in OpId : k = <<a, o>>
      OBVIOUS
    <3> QED BY <3>1, <3>2
  <2>7. /\ Cardinality({}) = 0 /\ \A k : Cardinality({k}) = 1
    BY FS_EmptySet, FS_Singleton
  <2>8. /\ <<Cardinality(opened), Cardinality(resolved)>> =
             CASE x.review = "RESOLVED"  -> <<1, 1>>
               [] x.review = "IN_REVIEW" -> <<1, 0>>
               [] OTHER                  -> <<0, 0>>
        /\ \A o \in opened, r \in resolved :
             world.operation[<<Regulator, o[2]>>].version
               < world.operation[<<Regulator, r[2]>>].version
    <3>1. CASE x.review \in {"NOT_REQUIRED", "OPEN"}
      <4>1. \A o \in OpId : world.reviewAction[<<a, o>>] = None
        BY <2>3, <3>1 DEF Progress
      <4>2. of = {}
        BY <2>6, <4>1
      <4> HIDE DEF of
      <4>3. opened = {} /\ resolved = {}
        BY <4>2
      <4> HIDE DEF opened, resolved
      <4> QED BY <2>7, <3>1, <4>3
    <3>2. CASE x.review = "IN_REVIEW"
      <4>1. PICK o \in OpId : /\ Taking(world, a, o, "OPEN_REVIEW")
                              /\ \A p \in OpId : world.reviewAction[<<a, p>>] # None => p = o
        BY <2>3, <3>2 DEF Progress
      <4>2. of = {<<a, o>>}
        BY <2>6, <4>1 DEF Taking
      <4> HIDE DEF of
      <4>3. opened = {<<a, o>>} /\ resolved = {}
        BY <4>1, <4>2 DEF Taking
      <4> HIDE DEF opened, resolved
      <4> QED BY <2>7, <3>2, <4>3
    <3>3. CASE x.review = "RESOLVED"
      <4>1. PICK o \in OpId, q \in OpId :
              /\ Taking(world, a, o, "OPEN_REVIEW")
              /\ Taking(world, a, q, "RESOLVE_REVIEW")
              /\ \A p \in OpId : world.reviewAction[<<a, p>>] # None => p \in {o, q}
              /\ world.operation[<<Regulator, o>>].version
                   < world.operation[<<Regulator, q>>].version
        BY <2>3, <3>3 DEF Progress
      <4>2. of = {<<a, o>>, <<a, q>>}
        BY <2>6, <4>1 DEF Taking
      <4> HIDE DEF of
      <4>3. opened = {<<a, o>>}
        BY <4>1, <4>2 DEF Taking
      <4>4. o # q
        BY <4>1 DEF Taking
      <4> HIDE DEF opened
      <4>5. resolved = {<<a, q>>}
        BY <4>2, <4>3, <4>4
      <4> HIDE DEF resolved
      <4>6. Cardinality(opened) = 1 /\ Cardinality(resolved) = 1
        BY <2>7, <4>3, <4>5
      <4>7. ASSUME NEW k \in opened, NEW l \in resolved
            PROVE  world.operation[<<Regulator, k[2]>>].version
                     < world.operation[<<Regulator, l[2]>>].version
        <5>1. k[2] = o /\ l[2] = q
          BY <4>3, <4>5, <4>7
        <5> QED BY <4>1, <5>1
      <4> QED BY <3>3, <4>6, <4>7
    <3> QED BY <2>2, <3>1, <3>2, <3>3 DEF ReviewState
  <2> HIDE DEF of, opened, resolved, x
  <2> QED BY <2>4, <2>5, <2>8 DEF of, opened, resolved, x
<1> QED BY <1>1, Inductive, LedgerInvariant, PTL

\* A document backs the batch it was accepted for, in the place of its type and by
\* an operation with a receipt, and uses up a source and a nonce of its own
\* (realEvidence.prepare, consumeDocument): none backs two batches, or one twice.
THEOREM EvidenceUsed == Spec => []EvidenceUsedOnce
<1>1. IInv /\ Ledger => EvidenceUsedOnce
  <2> SUFFICES ASSUME IInv, Ledger PROVE EvidenceUsedOnce
    OBVIOUS
  <2>1. /\ \A d \in DocId : world.document[d] # None => Filled(world, d)
        /\ \A b \in BatchId, type \in DocType : world.batch[b] # None => Filling(world, b, type)
        /\ UsesIn(world) /\ FreightIn(world)
    BY DEF Ledger, Sound, PlacedIn
  <2>2. \A b \in BatchId : Backing(b) = {[type |-> y, doc |-> PlaceOf(world, b, y)] : y \in DocType}
    BY DocTypes DEF Backing, PlaceOf
  <2>3. ASSUME NEW d \in Present("document")
        PROVE  LET e == world.document[d]
               IN  /\ [type |-> e.type, doc |-> d] \in Backing(e.batch)
                   /\ \E m \in Member : /\ world.operation[<<m, e.op>>] # None
                                        /\ world.operation[<<m, e.op>>].batch = e.batch
                                        /\ e.type \in required(world.operation[<<m, e.op>>].fn)
    <3>1. d \in DocId /\ world.document[d] # None
      BY Presence
    <3>2. Filled(world, d)
      BY <2>1, <3>1
    <3>3. world.document[d].batch \in BatchId /\ world.document[d].type \in DocType
      <4>1. world.document[d] \in [batch : BatchId, op : OpId, type : DocType]
        BY <3>1, RecordsTyped DEF IInv, TypeOK, Opt
      <4> QED BY <4>1
    <3>4. [type |-> world.document[d].type, doc |-> d] \in Backing(world.document[d].batch)
      BY <2>2, <3>2, <3>3 DEF Filled
    <3> QED BY <3>2, <3>4 DEF Filled
  <2>4. ASSUME NEW b \in Present("batch"), NEW r \in Backing(b), r.doc # None
        PROVE  /\ world.document[r.doc] # None
               /\ world.document[r.doc].batch = b
               /\ world.document[r.doc].type = r.type
    <3>1. b \in BatchId /\ world.batch[b] # None
      BY Presence
    <3>2. PICK y \in DocType : r = [type |-> y, doc |-> PlaceOf(world, b, y)]
      BY <2>2, <3>1
    <3>3. r.type = y /\ r.doc = PlaceOf(world, b, y)
      BY <3>2
    <3>4. Filling(world, b, y)
      BY <2>1, <3>1
    <3> QED BY <2>4, <3>3, <3>4 DEF Filling
  <2>5. /\ Cardinality(Present("sourceUse")) = Cardinality(Present("document"))
        /\ Cardinality(Present("nonceUse")) = Cardinality(Present("document"))
    <3>1. \A t : Present(t) = Filed(world, t)
      BY DEF Present, Filed, Occupied
    <3> QED BY <2>1, <3>1 DEF UsesIn, EvidenceTables
  <2> QED BY <2>3, <2>4, <2>5 DEF EvidenceUsedOnce
<1> QED BY <1>1, Inductive, LedgerInvariant, PTL

\* The events of batch b tell of its history, one for one, each from where the
\* last one left.
ToldOf(L, E, b) ==
  LET v == version(L, b)
  IN  /\ Len(E) = v
      /\ \A n \in 1..v : /\ E[n].op = L.history[<<b, n>>].op /\ E[n].version = n
                         /\ E[n].from = IF n = 1 THEN None ELSE E[n - 1].to
      /\ v > 0 => E[v].to = L.batch[b].state

Told == \A b \in BatchId : ToldOf(world, events[b], b)

\* A mutation adds its event to its batch's, Bootstrap none to any.
LEMMA EventsAfter ==
  ASSUME IInv, NEW c \in Proposal, Invoke(c)
  PROVE  /\ c.batch \in BatchId
         /\ c.fn = "Bootstrap" => events' = events
         /\ c.fn # "Bootstrap" =>
              /\ events'[c.batch] = Append(events[c.batch], Event(world, c))
              /\ \A b \in BatchId \ {c.batch} : events'[b] = events[b]
<1>1. c \in Command /\ events \in [BatchId -> Seq(EventRecord)]
  BY ProposalAssumption DEF IInv, TypeOK
<1>2. c.batch \in BatchId
  BY <1>1, CommandTyped
<1>3. events' = [events EXCEPT ![c.batch] = @ \o Emits(world, c)]
  BY DEF Invoke
<1>4. ASSUME c.fn = "Bootstrap" PROVE events' = events
  <2>1. events[c.batch] \o Emits(world, c) = events[c.batch]
    BY <1>1, <1>2, <1>4 DEF Emits
  <2> QED BY <1>1, <1>2, <1>3, <2>1
<1>5. ASSUME c.fn # "Bootstrap"
      PROVE  /\ events'[c.batch] = Append(events[c.batch], Event(world, c))
             /\ \A b \in BatchId \ {c.batch} : events'[b] = events[b]
  <2> DEFINE e == Event(world, c)
  <2>1. Emits(world, c) = <<e>>
    BY <1>5 DEF Emits
  <2> HIDE DEF e
  <2>2. events[c.batch] \o <<e>> = Append(events[c.batch], e)
    BY <1>1, <1>2
  <2>3. /\ events'[c.batch] = Append(events[c.batch], e)
        /\ \A b \in BatchId \ {c.batch} : events'[b] = events[b]
    BY <1>1, <1>2, <1>3, <2>1, <2>2
  <2> QED BY <2>3 DEF e
<1> QED BY <1>2, <1>4, <1>5

\* The events keep telling of the history.
LEMMA EventsTell ==
  ASSUME IInv, Told, NEW c \in Proposal, Invoke(c)
  PROVE  Told'
<1>1. /\ c.batch \in BatchId
      /\ c.fn = "Bootstrap" => events' = events
      /\ c.fn # "Bootstrap" =>
           /\ events'[c.batch] = Append(events[c.batch], Event(world, c))
           /\ \A b \in BatchId \ {c.batch} : events'[b] = events[b]
  BY EventsAfter
<1>2. CASE c.fn = "Bootstrap"
  <2>1. \A t \in Table \ {"configuration", "policy", "sourceKey"} : world'[t] = world[t]
    BY <1>2, BootstrapEffect DEF Invoke
  <2>2. world'.batch = world.batch /\ world'.history = world.history
    BY <2>1 DEF Table, Keys
  <2> QED BY <1>1, <1>2, <2>2 DEF Told, ToldOf, version
<1>3. CASE c.fn # "Bootstrap"
  <2>1. Effect(world, c, world')
    BY <1>3, ProposalAssumption, Mutates
  <2>2. /\ version(world, c.batch) \in Nat
        /\ version(world, c.batch) + 1 \in 1..MaxVersion
        /\ version(world', c.batch) = version(world, c.batch) + 1
        /\ world'.batch[c.batch] # None
        /\ \A b \in BatchId \ {c.batch} : version(world', b) = version(world, b)
    BY <2>1, VersionsAfter
  <2>3. world.history \in [BatchId \X (1..MaxVersion) -> Opt(Receipt)]
    BY RecordsTyped DEF IInv, TypeOK
  <2>4. world'.history = [world.history EXCEPT
          ![<<c.batch, version(world, c.batch) + 1>>] = receipt(world, c)]
    BY <2>1 DEF Effect, Receipted, receipt
  <2>5. ASSUME NEW b \in BatchId \ {c.batch} PROVE ToldOf(world', events'[b], b)
    <3>1. ToldOf(world, events[b], b)
      BY DEF Told
    <3>2. world'.batch[b] = world.batch[b] /\ events'[b] = events[b]
          /\ version(world', b) = version(world, b)
      BY <1>1, <1>3, <2>1, <2>2 DEF Effect
    <3>3. \A n : world'.history[<<b, n>>] = world.history[<<b, n>>]
      BY <2>3, <2>4
    <3> QED BY <3>1, <3>2, <3>3 DEF ToldOf
  <2>6. ToldOf(world', events'[c.batch], c.batch)
    <3> DEFINE E == events[c.batch]
               v == version(world, c.batch)
               e == Event(world, c)
               b == c.batch
    <3>1. E \in Seq(EventRecord) /\ v \in Nat /\ v + 1 \in 1..MaxVersion
      BY <1>1, <2>2 DEF IInv, TypeOK
    <3>2. /\ Len(E) = v
          /\ \A n \in 1..v : /\ E[n].op = world.history[<<b, n>>].op /\ E[n].version = n
                             /\ E[n].from = IF n = 1 THEN None ELSE E[n - 1].to
          /\ v > 0 => E[v].to = world.batch[b].state
      BY <1>1 DEF Told, ToldOf
    <3>3. /\ e.op = c.op /\ e.version = v + 1
          /\ e.from = IF world.batch[b] = None THEN None ELSE world.batch[b].state
          /\ e.to = nextBatch(world, c).state
      BY DEF Event
    <3>4. world'.batch[b].state = nextBatch(world, c).state
      BY <2>1 DEF Effect, Advances
    <3>5. (world.batch[b] = None) <=> (v = 0)
      <4>1. world.batch \in [BatchId -> Opt(Batch)]
        BY WorldTyped DEF IInv, TypeOK
      <4>2. world.batch[b] # None => world.batch[b] \in Batch
        BY <1>1, <4>1 DEF Opt
      <4>3. world.batch[b] # None => world.batch[b].version \in 1..MaxVersion
        BY <4>2 DEF Batch
      <4>4. MaxVersion \in Nat
        BY EngineAssumption
      <4> QED BY <4>3, <4>4 DEF version
    <3>6. receipt(world, c).op = c.op
      BY DEF receipt
    <3>7. /\ world'.history[<<b, v + 1>>].op = c.op
          /\ \A n \in 1..v : world'.history[<<b, n>>] = world.history[<<b, n>>]
      BY <1>1, <2>3, <2>4, <3>1, <3>6
    <3>8. events'[b] = Append(E, e) /\ version(world', b) = v + 1
      BY <1>1, <1>3, <2>2
    <3> HIDE DEF E, v, e, b
    <3>9. /\ Len(Append(E, e)) = v + 1 /\ Append(E, e)[v + 1] = e
          /\ \A n \in 1..v : Append(E, e)[n] = E[n]
      BY <3>1, <3>2
    <3>10. ASSUME NEW n \in 1..(v + 1)
           PROVE  /\ Append(E, e)[n].op = world'.history[<<b, n>>].op
                  /\ Append(E, e)[n].version = n
                  /\ Append(E, e)[n].from = IF n = 1 THEN None ELSE Append(E, e)[n - 1].to
      <4>1. CASE n \in 1..v
        <5>1. n # 1 => n - 1 \in 1..v
          BY <3>1, <4>1
        <5> QED BY <3>2, <3>7, <3>9, <4>1, <5>1
      <4>2. CASE n = v + 1
        <5>1. Append(E, e)[n] = e
          BY <3>9, <4>2
        <5>2. e.op = world'.history[<<b, n>>].op /\ e.version = n
          BY <3>3, <3>7, <4>2
        <5>3. e.from = IF n = 1 THEN None ELSE Append(E, e)[n - 1].to
          <6>1. CASE v = 0
            BY <3>3, <3>5, <4>2, <6>1
          <6>2. CASE v # 0
            <7>1. v \in 1..v /\ n - 1 = v /\ v > 0 /\ n # 1
              BY <3>1, <4>2, <6>2
            <7>2. Append(E, e)[v] = E[v] /\ E[v].to = world.batch[b].state
              BY <3>2, <3>9, <7>1
            <7>3. e.from = world.batch[b].state
              BY <3>3, <3>5, <6>2
            <7> QED BY <7>1, <7>2, <7>3
          <6> QED BY <6>1, <6>2
        <5> QED BY <5>1, <5>2, <5>3
      <4>3. n \in 1..v \/ n = v + 1
        BY <3>1
      <4> QED BY <4>1, <4>2, <4>3
    <3>11. ToldOf(world', Append(E, e), b)
      BY <3>3, <3>4, <3>8, <3>9, <3>10 DEF ToldOf
    <3> QED BY <3>8, <3>11 DEF b
  <2> QED BY <2>5, <2>6 DEF Told
<1> QED BY <1>2, <1>3

\* The events tell of the history, initially and after every step.
LEMMA EventsInvariant == Spec => []Told
<1>1. Init => Told
  <2> SUFFICES ASSUME Init, NEW b \in BatchId PROVE ToldOf(world, events[b], b)
    BY DEF Told
  <2>1. world.batch[b] = None
    BY DEF Init, EmptyWorld, Table, Keys
  <2>2. events[b] = <<>>
    BY DEF Init
  <2> QED BY <2>1, <2>2 DEF ToldOf, version
<1>2. IInv /\ Told /\ [Next]_vars => Told'
  <2> SUFFICES ASSUME IInv, Told, [Next]_vars PROVE Told'
    OBVIOUS
  <2>1. CASE Next
    BY <2>1, StepInvokes, EventsTell
  <2>2. CASE UNCHANGED vars
    BY <2>2 DEF vars, Told
  <2> QED BY <2>1, <2>2
<1> QED BY <1>1, <1>2, Inductive, PTL DEF Spec

\* Each accepted mutation left one receipt, one history entry and one event, in an
\* unbroken chain up to the batch's version and state (engine.apply): a reader of
\* the history or of the events misses none and sees none twice.
THEOREM HistoryUnbroken == Spec => []HistoryComplete
<1>1. IInv /\ Ledger /\ Told => HistoryComplete
  <2> SUFFICES ASSUME IInv, Ledger, Told, NEW b \in BatchId
               PROVE
    LET v == version(world, b)
        E == events[b]
    IN  /\ Len(E) = v
        /\ \A n \in 1..MaxVersion : (world.history[<<b, n>>] # None) <=> (n <= v)
        /\ \A n \in 1..v :
             LET h == world.history[<<b, n>>]
             IN  /\ h.batch = b /\ h.version = n
                 /\ world.operation[<<h.actor, h.op>>] = h
                 /\ E[n].op = h.op /\ E[n].version = n
                 /\ E[n].from = IF n = 1 THEN None ELSE E[n - 1].to
        /\ v > 0 => E[v].to = world.batch[b].state
        /\ Cardinality({k \in Present("operation") : world.operation[k].batch = b}) = v
    BY DEF HistoryComplete
  <2> DEFINE v == version(world, b)
             E == events[b]
  <2>1. /\ Len(E) = v
        /\ \A n \in 1..v : /\ E[n].op = world.history[<<b, n>>].op /\ E[n].version = n
                           /\ E[n].from = IF n = 1 THEN None ELSE E[n - 1].to
        /\ v > 0 => E[v].to = world.batch[b].state
    BY DEF Told, ToldOf
  <2>2. /\ \A n \in 1..MaxVersion : (world.history[<<b, n>>] # None) <=> (n <= v)
        /\ \A n \in 1..MaxVersion : world.history[<<b, n>>] # None =>
             LET h == world.history[<<b, n>>]
             IN  h.batch = b /\ h.version = n /\ world.operation[<<h.actor, h.op>>] = h
        /\ Cardinality(ReceiptsOf(world, b)) = v
    BY DEF Ledger, Sound, Chained
  <2>3. v \in 0..MaxVersion
    <3>1. world.batch \in [BatchId -> Opt(Batch)]
      BY WorldTyped DEF IInv, TypeOK
    <3>2. world.batch[b] # None => world.batch[b] \in Batch
      BY <3>1 DEF Opt
    <3>3. world.batch[b] # None => world.batch[b].version \in 1..MaxVersion
      BY <3>2 DEF Batch
    <3>4. MaxVersion \in Nat
      BY EngineAssumption
    <3> QED BY <3>3, <3>4 DEF version
  <2>4. {k \in Present("operation") : world.operation[k].batch = b} = ReceiptsOf(world, b)
    BY Presence DEF ReceiptsOf
  <2> HIDE DEF v, E
  <2>5. \A n \in 1..v : n \in 1..MaxVersion /\ n <= v
    <3>1. MaxVersion \in Nat
      BY EngineAssumption
    <3> QED BY <2>3, <3>1
  <2>6. \A n \in 1..v :
          LET h == world.history[<<b, n>>]
          IN  h.batch = b /\ h.version = n /\ world.operation[<<h.actor, h.op>>] = h
    BY <2>2, <2>5
  <2> QED BY <2>1, <2>2, <2>4, <2>6 DEF v, E
<1> QED BY <1>1, Inductive, LedgerInvariant, EventsInvariant, PTL

\* Receipts, history, references, documents, uses and the private records are
\* written once; a transfer changes by its acceptance only, an anomaly by its
\* review only (writePlan.flush writes over whatever key a plan names).
THEOREM PermanentRecords == Spec => RecordsPermanent
<1> DEFINE A ==
      /\ \A t \in WriteOnce : \A i \in Present(t) : world'[t][i] = world[t][i]
      /\ \A t \in Present("transfer") :
           LET old == world.transfer[t]
               new == world'.transfer[t]
           IN  new # old => /\ old.status = "OFFERED"
                            /\ new = [old EXCEPT !.status = "ACCEPTED",
                                                 !.accept = new.accept]
      /\ \A a \in Present("anomaly") :
           world'.anomaly[a] = [world.anomaly[a] EXCEPT
                                  !.review = world'.anomaly[a].review]
<1>1. IInv /\ Ledger /\ [Next]_vars => [A]_vars
  <2> SUFFICES ASSUME IInv, Ledger, NEW c \in Proposal, Invoke(c) PROVE A
    BY StepInvokes
  <2>1. /\ c \in Command /\ Accepts(world, c) /\ IsWorld(world)
        /\ world' = flush(world, Plan(world, c))
    BY ProposalAssumption DEF Invoke, IInv, TypeOK
  <2>2. CASE c.fn # "Bootstrap"
    <3>1. Effect(world, c, world')
      BY <2>2, ProposalAssumption, Mutates
    <3>2. /\ Chained(world) /\ OpeningsIn(world) /\ FreightIn(world) /\ SoldIn(world)
          /\ EvaluatedIn(world) /\ ReviewsIn(world)
      BY DEF Ledger, Sound
    <3>3. \A t \in WriteOnce : \A i \in Present(t) : world'[t][i] = world[t][i]
      <4>1. \A t \in Lasting : Kept(world, world', t)
        BY <3>1, <3>2, RecordsKept
      <4> QED BY <4>1 DEF Lasting, WriteOnce, Kept, Present
    <3>4. ASSUME NEW t \in Present("transfer"), world'.transfer[t] # world.transfer[t]
          PROVE  /\ world.transfer[t].status = "OFFERED"
                 /\ world'.transfer[t] = [world.transfer[t] EXCEPT !.status = "ACCEPTED",
                                                   !.accept = world'.transfer[t].accept]
      <4>1. t \in TransferId /\ world.transfer[t] # None
        BY Presence
      <4>2. /\ world.transfer[t].batch = c.batch
            /\ Accepting(world.transfer[t], world'.transfer[t])
        BY <3>1, <3>4, <4>1, TransferAfter
      <4> QED BY <4>2 DEF Accepting
    <3>5. ASSUME NEW a \in Present("anomaly")
          PROVE  world'.anomaly[a] = [world.anomaly[a] EXCEPT
                                        !.review = world'.anomaly[a].review]
      BY <3>1, <3>2, Presence, AnomalyAfter
    <3> QED BY <3>3, <3>4, <3>5
  <2>3. CASE c.fn = "Bootstrap"
    <3>1. \A t \in Table \ {"configuration", "policy", "sourceKey"} : world'[t] = world[t]
      BY <2>1, <2>3, BootstrapEffect
    <3>2. ASSUME NEW t \in WriteOnce, NEW i \in Present(t)
          PROVE  world'[t][i] = world[t][i]
      <4>1. CASE t \notin {"configuration", "policy", "sourceKey"}
        BY <3>1, <4>1 DEF WriteOnce
      <4>2. CASE t \in {"configuration", "policy", "sourceKey"}
        <5>1. i \in Keys[t] /\ world[t][i] # None
          BY <3>2 DEF Present
        <5>2. Configured(world)
          BY DEF Ledger, Sound
        <5> QED BY <2>1, <2>3, <4>2, <5>1, <5>2, BootstrapFresh
      <4> QED BY <4>1, <4>2
    <3>3. world'.transfer = world.transfer /\ world'.anomaly = world.anomaly
      BY <3>1 DEF Table, Keys
    <3>4. ASSUME NEW a \in Present("anomaly")
          PROVE  world.anomaly[a] = [world.anomaly[a] EXCEPT !.review = world.anomaly[a].review]
      <4>1. world.anomaly[a] \in Anomaly
        <5>1. world.anomaly \in [AnomalyId -> Opt(Anomaly)]
          BY <2>1, WorldTyped
        <5> QED BY <5>1, Presence DEF Opt
      <4> QED BY <4>1 DEF Anomaly
    <3> QED BY <3>2, <3>3, <3>4
  <2> QED BY <2>2, <2>3
<1> QED BY <1>1, Inductive, LedgerInvariant, PTL DEF Spec, RecordsPermanent

\* A step moves one batch by one version, or none, and leaves what concerns the
\* other batches alone, so a client's expected version guards all that it saw.
THEOREM OneBatchEach == Spec => OneBatchAtATime
<1> DEFINE A ==
      \E b \in BatchId :
         /\ version(world', b) \in {version(world, b), version(world, b) + 1}
         /\ version(world', b) = version(world, b) =>
              world'.batch = world.batch /\ events' = events
         /\ \A o \in BatchId \ {b} :
              /\ world'.batch[o] = world.batch[o]
              /\ world'.batchEvidence[o] = world.batchEvidence[o]
              /\ world'.pendingTransfer[o] = world.pendingTransfer[o]
              /\ world'.evaluation[o] = world.evaluation[o]
              /\ events'[o] = events[o]
              /\ \A t \in Transfers(o) : world'.transfer[t] = world.transfer[t]
<1>1. IInv /\ [Next]_vars => [A]_vars
  <2> SUFFICES ASSUME IInv, NEW c \in Proposal, Invoke(c) PROVE A
    BY StepInvokes
  <2>1. /\ c.batch \in BatchId
        /\ c.fn = "Bootstrap" => events' = events
        /\ c.fn # "Bootstrap" =>
             /\ events'[c.batch] = Append(events[c.batch], Event(world, c))
             /\ \A b \in BatchId \ {c.batch} : events'[b] = events[b]
    BY EventsAfter
  <2>2. CASE c.fn # "Bootstrap"
    <3>1. Effect(world, c, world')
      BY <2>2, ProposalAssumption, Mutates
    <3>2. /\ version(world, c.batch) \in Nat
          /\ version(world, c.batch) + 1 \in 1..MaxVersion
          /\ version(world', c.batch) = version(world, c.batch) + 1
          /\ world'.batch[c.batch] # None
          /\ \A b \in BatchId \ {c.batch} : version(world', b) = version(world, b)
      BY <3>1, VersionsAfter
    <3>3. world.pendingTransfer \in [BatchId -> Opt(TransferId)]
          /\ world.evaluation \in [BatchId -> Opt(Evaluation)]
      BY WorldTyped, RecordsTyped DEF IInv, TypeOK
    <3>4. ASSUME NEW o \in BatchId \ {c.batch}
          PROVE  /\ world'.batch[o] = world.batch[o]
                 /\ world'.batchEvidence[o] = world.batchEvidence[o]
                 /\ world'.pendingTransfer[o] = world.pendingTransfer[o]
                 /\ world'.evaluation[o] = world.evaluation[o]
                 /\ events'[o] = events[o]
                 /\ \A t \in Transfers(o) : world'.transfer[t] = world.transfer[t]
      <4>1. /\ world'.batch[o] = world.batch[o]
            /\ world'.batchEvidence[o] = world.batchEvidence[o]
        BY <3>1 DEF Effect
      <4>2. world'.pendingTransfer[o] = world.pendingTransfer[o]
        BY <3>1, <3>3 DEF Effect, Handed
      <4>3. world'.evaluation[o] = world.evaluation[o]
        BY <3>1, <3>3 DEF Effect, Scored
      <4>4. ASSUME NEW t \in Transfers(o), world'.transfer[t] # world.transfer[t] PROVE FALSE
        <5>1. t \in TransferId /\ world.transfer[t] # None /\ world.transfer[t].batch = o
          BY Presence DEF Transfers
        <5>2. /\ world.transfer[t].batch = c.batch
            /\ Accepting(world.transfer[t], world'.transfer[t])
          BY <3>1, <4>4, <5>1, TransferAfter
        <5> QED BY <5>1, <5>2
      <4> QED BY <2>1, <2>2, <4>1, <4>2, <4>3, <4>4
    <3>5. version(world', c.batch) # version(world, c.batch)
      BY <3>2
    <3> QED BY <2>1, <3>2, <3>4, <3>5
  <2>3. CASE c.fn = "Bootstrap"
    <3>1. \A t \in Table \ {"configuration", "policy", "sourceKey"} : world'[t] = world[t]
      BY <2>3, BootstrapEffect DEF Invoke
    <3>2. /\ world'.batch = world.batch /\ world'.batchEvidence = world.batchEvidence
          /\ world'.pendingTransfer = world.pendingTransfer
          /\ world'.evaluation = world.evaluation /\ world'.transfer = world.transfer
      BY <3>1 DEF Table, Keys
    <3>3. \A b : version(world', b) = version(world, b)
      BY <3>2 DEF version
    <3> QED BY <2>1, <2>3, <3>2, <3>3
  <2> QED BY <2>2, <2>3
<1> QED BY <1>1, Inductive, PTL DEF Spec, OneBatchAtATime

-----------------------------------------------------------------------------
(* The chaincode implements the lifecycle                                  *)

\* What the lifecycle sees of a ledger.
StageIn(L)     == [b \in BatchId |-> FieldAt(L, b, "state", "ABSENT")]
CustodianIn(L) == [b \in BatchId |-> FieldAt(L, b, "custodian", "NOBODY")]
OwnerIn(L)     == [b \in BatchId |-> FieldAt(L, b, "owner", "NOBODY")]
FreightOf(L)   == [b \in BatchId |-> FreightAt(L, b)]
ReviewIn(L)    == [b \in BatchId |-> ReviewAt(L, b)]

\* Only batch b's life goes on.
OneLives(L, M, b) ==
  /\ StageIn(M) = [StageIn(L) EXCEPT ![b] = FieldAt(M, b, "state", "ABSENT")]
  /\ CustodianIn(M) = [CustodianIn(L) EXCEPT ![b] = FieldAt(M, b, "custodian", "NOBODY")]
  /\ OwnerIn(M) = [OwnerIn(L) EXCEPT ![b] = FieldAt(M, b, "owner", "NOBODY")]
  /\ FreightOf(M) = [FreightOf(L) EXCEPT ![b] = FreightAt(M, b)]
  /\ ReviewIn(M) = [ReviewIn(L) EXCEPT ![b] = ReviewAt(M, b)]

\* A mutation changes what the lifecycle sees of its own batch only.
LEMMA OneLivesOn ==
  ASSUME NEW L, NEW c, NEW M, Effect(L, c, M), EvaluatedIn(L), ReviewsIn(L)
  PROVE  OneLives(L, M, c.batch)
<1>1. ASSUME NEW b \in BatchId, b # c.batch
      PROVE  /\ FieldAt(M, b, "state", "ABSENT") = FieldAt(L, b, "state", "ABSENT")
             /\ FieldAt(M, b, "custodian", "NOBODY") = FieldAt(L, b, "custodian", "NOBODY")
             /\ FieldAt(M, b, "owner", "NOBODY") = FieldAt(L, b, "owner", "NOBODY")
             /\ FreightAt(M, b) = FreightAt(L, b)
             /\ ReviewAt(M, b) = ReviewAt(L, b)
  <2>1. SameLife(L, M, b)
    BY <1>1, OthersLive
  <2>2. FreightAt(M, b) = FreightAt(L, b)
    BY <2>1 DEF SameLife, FreightAt
  <2> QED BY <2>1, <2>2 DEF SameLife
<1>2. c.batch \in BatchId
  BY DEF Effect
<1> QED BY <1>1, <1>2 DEF OneLives, StageIn, CustodianIn, OwnerIn, FreightOf, ReviewIn

\* The lifecycle's variables are what it sees of the ledger, now and next.
LEMMA LifeSeen ==
  /\ [b \in BatchId |-> field(b, "state", "ABSENT")] = StageIn(world)
  /\ [b \in BatchId |-> field(b, "custodian", "NOBODY")] = CustodianIn(world)
  /\ [b \in BatchId |-> field(b, "owner", "NOBODY")] = OwnerIn(world)
  /\ [b \in BatchId |-> IF world.batchEvidence[b] = None THEN FALSE
                        ELSE world.batchEvidence[b].freight # None] = FreightOf(world)
  /\ [b \in BatchId |-> IF world.evaluation[b] = None THEN "NONE"
                        ELSE world.anomaly[world.evaluation[b].anomaly].review]
       = ReviewIn(world)
BY DEF field, StageIn, CustodianIn, OwnerIn, FreightOf, ReviewIn, FieldAt, FreightAt, ReviewAt

\* So are their next values.
LEMMA LifeSeenNext ==
  /\ [b \in BatchId |-> field(b, "state", "ABSENT")'] = StageIn(world')
  /\ [b \in BatchId |-> field(b, "custodian", "NOBODY")'] = CustodianIn(world')
  /\ [b \in BatchId |-> field(b, "owner", "NOBODY")'] = OwnerIn(world')
  /\ [b \in BatchId |-> IF world'.batchEvidence[b] = None THEN FALSE
                        ELSE world'.batchEvidence[b].freight # None] = FreightOf(world')
  /\ [b \in BatchId |-> IF world'.evaluation[b] = None THEN "NONE"
                        ELSE world'.anomaly[world'.evaluation[b].anomaly].review]
       = ReviewIn(world')
BY DEF field, StageIn, CustodianIn, OwnerIn, FreightOf, ReviewIn, FieldAt, FreightAt, ReviewAt

\* A mutation is one step of one batch's life.
LEMMA MutationLives ==
  ASSUME IInv, Custodied, Ledger, NEW c \in Proposal, Invoke(c), c.fn # "Bootstrap"
  PROVE  Life!Next
<1> DEFINE b == c.batch
           L == world
           M == world'
<1>1. Effect(world, c, world')
  BY ProposalAssumption, Mutates
<1>2. b \in BatchId /\ c.fn \in Mutation
  BY <1>1 DEF Effect
<1>3. CustodiedIn(world) /\ EvaluatedIn(world) /\ ReviewsIn(world)
  BY DEF Custodied, Ledger, Sound
<1>4. OneLives(L, M, b)
  BY <1>1, <1>3, OneLivesOn
<1>5. LivesOn(c.fn, L, M, b)
  BY <1>1, <1>3, BatchLives
<1>6. /\ StageIn(L)[b] = FieldAt(L, b, "state", "ABSENT")
      /\ CustodianIn(L)[b] = FieldAt(L, b, "custodian", "NOBODY")
      /\ OwnerIn(L)[b] = FieldAt(L, b, "owner", "NOBODY")
      /\ FreightOf(L)[b] = FreightAt(L, b)
      /\ ReviewIn(L)[b] = ReviewAt(L, b)
      /\ DOMAIN StageIn(L) = BatchId
  BY <1>2 DEF StageIn, CustodianIn, OwnerIn, FreightOf, ReviewIn
<1>7. ASSUME FieldAt(M, b, "state", "ABSENT") = FieldAt(L, b, "state", "ABSENT")
      PROVE  StageIn(M) = StageIn(L)
  BY <1>2, <1>4, <1>7 DEF OneLives, StageIn
<1>8. ASSUME FieldAt(M, b, "custodian", "NOBODY") = FieldAt(L, b, "custodian", "NOBODY"),
             FieldAt(M, b, "owner", "NOBODY") = FieldAt(L, b, "owner", "NOBODY")
      PROVE  CustodianIn(M) = CustodianIn(L) /\ OwnerIn(M) = OwnerIn(L)
  BY <1>2, <1>4, <1>8 DEF OneLives, CustodianIn, OwnerIn
<1>9. ASSUME FreightAt(M, b) <=> FreightAt(L, b)
      PROVE  FreightOf(M) = FreightOf(L)
  <2>1. FreightAt(M, b) = FreightAt(L, b)
    BY <1>9 DEF FreightAt
  <2> QED BY <1>2, <1>4, <2>1 DEF OneLives, FreightOf
<1>10. ASSUME ReviewAt(M, b) = ReviewAt(L, b)
       PROVE  ReviewIn(M) = ReviewIn(L)
  BY <1>2, <1>4, <1>10 DEF OneLives, ReviewIn
<1> HIDE DEF b
<1>11. CASE c.fn = "CreateBatch"
  <2>1. /\ StageIn(L)[b] = "ABSENT"
        /\ StageIn(M) = [StageIn(L) EXCEPT ![b] = "CREATED"]
        /\ CustodianIn(M) = [CustodianIn(L) EXCEPT ![b] = "ProducerMSP"]
        /\ OwnerIn(M) = [OwnerIn(L) EXCEPT ![b] = "ProducerMSP"]
        /\ FreightOf(M) = FreightOf(L) /\ ReviewIn(M) = ReviewIn(L)
    BY <1>4, <1>5, <1>6, <1>9, <1>10, <1>11 DEF LivesOn, OneLives, Reviews, Producer
  <2>2. Life!Create(b)
    BY <2>1, LifeSeen, LifeSeenNext DEF Life!Create
  <2> QED BY <1>2, <2>2 DEF Life!Next
<1>12. CASE c.fn \in Offers
  <2> DEFINE k == KindOf(c.fn)
  <2>1. /\ StageIn(L)[b] = Handoff[k].from
        /\ StageIn(M) = [StageIn(L) EXCEPT ![b] = Handoff[k].pending]
        /\ CustodianIn(M) = CustodianIn(L) /\ OwnerIn(M) = OwnerIn(L)
        /\ FreightOf(M) = FreightOf(L) /\ ReviewIn(M) = ReviewIn(L)
    BY <1>4, <1>5, <1>6, <1>8, <1>9, <1>10, <1>12 DEF LivesOn, OneLives, Reviews, Offers
  <2>2. \E h \in Life!Handoffs : h.from = Handoff[k].from /\ h.offered = Handoff[k].pending
    BY DEF Life!Handoffs, KindOf, Handoff
  <2>3. Life!Offer(b)
    BY <2>1, <2>2, LifeSeen, LifeSeenNext DEF Life!Offer
  <2> QED BY <1>2, <2>3 DEF Life!Next
<1>13. CASE c.fn \in Acceptances
  <2> DEFINE k == KindOf(c.fn)
  <2>1. /\ StageIn(L)[b] = Handoff[k].pending
        /\ StageIn(M) = [StageIn(L) EXCEPT ![b] = Handoff[k].to]
        /\ CustodianIn(M) = [CustodianIn(L) EXCEPT ![b] = Handoff[k].recipient]
        /\ OwnerIn(M) = [OwnerIn(L) EXCEPT ![b] =
                           IF k = "DELIVERY" THEN "RetailerMSP" ELSE "ProducerMSP"]
        /\ k = "DELIVERY" => FreightOf(L)[b]
        /\ FreightOf(M) = FreightOf(L) /\ ReviewIn(M) = ReviewIn(L)
    BY <1>4, <1>5, <1>6, <1>9, <1>10, <1>13
       DEF LivesOn, OneLives, Reviews, Acceptances, Producer, Retailer
  <2>2. FreightOf(L)[b] \in BOOLEAN
    BY <1>2, <1>6 DEF FreightAt
  <2>3. \E h \in Life!Handoffs :
          /\ h.offered = Handoff[k].pending /\ h.to = Handoff[k].to
          /\ h.recipient = Handoff[k].recipient
          /\ h.owner = IF k = "DELIVERY" THEN "RetailerMSP" ELSE "ProducerMSP"
          /\ FreightOf(L)[b] \in h.costed
    <3> DEFINE pickup ==
                 [from |-> "CREATED", offered |-> "PICKUP_PENDING", to |-> "IN_TRANSPORT",
                  recipient |-> "LogisticsMSP", owner |-> "ProducerMSP",
                  costed |-> {TRUE, FALSE}]
               delivery ==
                 [from |-> "IN_TRANSPORT", offered |-> "DELIVERY_PENDING", to |-> "RECEIVED",
                  recipient |-> "RetailerMSP", owner |-> "RetailerMSP", costed |-> {TRUE}]
               paid == FreightOf(L)[b]
    <3>0. pickup \in Life!Handoffs /\ delivery \in Life!Handoffs
      BY DEF Life!Handoffs
    <3>1. CASE k = "DELIVERY"
      <4>1. paid = TRUE
        BY <2>1, <2>2, <3>1
      <4> HIDE DEF paid
      <4>2. paid \in delivery.costed
        BY <4>1
      <4>3. /\ delivery.offered = Handoff[k].pending /\ delivery.to = Handoff[k].to
            /\ delivery.recipient = Handoff[k].recipient /\ delivery.owner = "RetailerMSP"
        BY <3>1 DEF Handoff, Retailer
      <4> HIDE DEF delivery
      <4> QED BY <3>0, <3>1, <4>2, <4>3 DEF paid
    <3>2. CASE k = "PICKUP"
      <4>1. paid \in {TRUE, FALSE}
        BY <2>2
      <4> HIDE DEF paid
      <4>2. paid \in pickup.costed
        BY <4>1
      <4>3. /\ pickup.offered = Handoff[k].pending /\ pickup.to = Handoff[k].to
            /\ pickup.recipient = Handoff[k].recipient /\ pickup.owner = "ProducerMSP"
        BY <3>2 DEF Handoff, Logistics
      <4> HIDE DEF pickup
      <4> QED BY <3>0, <3>2, <4>2, <4>3 DEF paid
    <3> QED BY <3>1, <3>2 DEF KindOf
  <2>4. Life!Accept(b)
    BY <2>1, <2>3, LifeSeen, LifeSeenNext, ZenonT(60) DEF Life!Accept
  <2> QED BY <1>2, <2>4 DEF Life!Next
<1>14. CASE c.fn = "RecordFreightCost"
  <2>1. /\ StageIn(L)[b] \in {"IN_TRANSPORT", "DELIVERY_PENDING"}
        /\ ~FreightOf(L)[b]
        /\ FreightAt(M, b)
        /\ StageIn(M) = StageIn(L)
        /\ CustodianIn(M) = CustodianIn(L) /\ OwnerIn(M) = OwnerIn(L)
        /\ ReviewIn(M) = ReviewIn(L)
    BY <1>5, <1>6, <1>7, <1>8, <1>10, <1>14 DEF LivesOn, Reviews, Offers, Acceptances
  <2>2. FreightOf(M) = [FreightOf(L) EXCEPT ![b] = TRUE]
    <3>1. FreightAt(M, b) = TRUE
      BY <2>1 DEF FreightAt
    <3> QED BY <1>4, <3>1 DEF OneLives
  <2>3. Life!RecordFreight(b)
    BY <2>1, <2>2, LifeSeen, LifeSeenNext DEF Life!RecordFreight
  <2> QED BY <1>2, <2>3 DEF Life!Next
<1>15. CASE c.fn = "ReportRetailPrice"
  <2>1. /\ StageIn(L)[b] = "RECEIVED"
        /\ StageIn(M) = [StageIn(L) EXCEPT ![b] = "RETAIL_REPORTED"]
        /\ CustodianIn(M) = CustodianIn(L) /\ OwnerIn(M) = OwnerIn(L)
        /\ FreightOf(M) = FreightOf(L) /\ ReviewIn(M) = ReviewIn(L)
    BY <1>4, <1>5, <1>6, <1>8, <1>9, <1>10, <1>15 DEF LivesOn, OneLives, Reviews
  <2>2. Life!Report(b)
    BY <2>1, LifeSeen, LifeSeenNext DEF Life!Report
  <2> QED BY <1>2, <2>2 DEF Life!Next
<1>16. CASE c.fn \in Reviews \cup {"EvaluatePrice"}
  <2>1. /\ StageIn(M) = StageIn(L)
        /\ CustodianIn(M) = CustodianIn(L) /\ OwnerIn(M) = OwnerIn(L)
        /\ FreightOf(M) = FreightOf(L)
        /\ ReviewIn(M) = [ReviewIn(L) EXCEPT ![b] = ReviewAt(M, b)]
    BY <1>4, <1>5, <1>7, <1>8, <1>9, <1>16
       DEF LivesOn, OneLives, Reviews, Offers, Acceptances
  <2>2. CASE c.fn = "EvaluatePrice"
    <3>1. /\ StageIn(L)[b] = "RETAIL_REPORTED" /\ ReviewIn(L)[b] = "NONE"
          /\ ReviewAt(M, b) \in {"NOT_REQUIRED", "OPEN"}
      BY <1>5, <1>6, <2>2 DEF LivesOn
    <3>2. Life!Evaluate(b)
      BY <2>1, <3>1, LifeSeen, LifeSeenNext DEF Life!Evaluate
    <3> QED BY <1>2, <3>2 DEF Life!Next
  <2>3. CASE c.fn = "OpenReview"
    <3>1. ReviewIn(L)[b] = "OPEN" /\ ReviewAt(M, b) = "IN_REVIEW"
      BY <1>5, <1>6, <2>3 DEF LivesOn, Reviews, ActionOf, Review
    <3>2. Life!OpenReview(b)
      BY <2>1, <3>1, LifeSeen, LifeSeenNext DEF Life!OpenReview
    <3> QED BY <1>2, <3>2 DEF Life!Next
  <2>4. CASE c.fn = "ResolveReview"
    <3>1. ReviewIn(L)[b] = "IN_REVIEW" /\ ReviewAt(M, b) = "RESOLVED"
      BY <1>5, <1>6, <2>4 DEF LivesOn, Reviews, ActionOf, Review
    <3>2. Life!ResolveReview(b)
      BY <2>1, <3>1, LifeSeen, LifeSeenNext DEF Life!ResolveReview
    <3> QED BY <1>2, <3>2 DEF Life!Next
  <2> QED BY <1>16, <2>2, <2>3, <2>4 DEF Reviews
<1> QED BY <1>2, <1>11, <1>12, <1>13, <1>14, <1>15, <1>16
           DEF Mutation, authorize, Offers, Acceptances, Reviews

\* Bootstrap is no step of any batch's life.
LEMMA BootstrapLives ==
  ASSUME NEW c, c.fn = "Bootstrap", Invoke(c)
  PROVE  UNCHANGED Life!vars
<1>1. \A t \in Table \ {"configuration", "policy", "sourceKey"} : world'[t] = world[t]
  BY BootstrapEffect DEF Invoke
<1>2. /\ world'.batch = world.batch /\ world'.batchEvidence = world.batchEvidence
      /\ world'.evaluation = world.evaluation /\ world'.anomaly = world.anomaly
  BY <1>1 DEF Table, Keys
<1> QED BY <1>2 DEF Life!vars, field

\* The chaincode implements the lifecycle of docs/STATE_MACHINE.md: each step is a
\* step of one batch's life or none of any.
THEOREM Implements == Spec => ImplementsLifecycle
<1>1. Init => Life!Init
  <2> SUFFICES ASSUME Init PROVE Life!Init
    OBVIOUS
  <2>1. \A b \in BatchId : /\ world.batch[b] = None /\ world.batchEvidence[b] = None
                           /\ world.evaluation[b] = None
    BY DEF Init, EmptyWorld, Table, Keys
  <2> QED BY <2>1 DEF Life!Init, field
<1>2. IInv /\ Custodied /\ Ledger /\ [Next]_vars => [Life!Next]_(Life!vars)
  <2> SUFFICES ASSUME IInv, Custodied, Ledger, [Next]_vars
               PROVE  [Life!Next]_(Life!vars)
    OBVIOUS
  <2>1. CASE Next
    BY <2>1, StepInvokes, MutationLives, BootstrapLives
  <2>2. CASE UNCHANGED vars
    BY <2>2 DEF vars, Life!vars, field
  <2> QED BY <2>1, <2>2
<1> QED BY <1>1, <1>2, Inductive, CustodyInvariant, LedgerInvariant, PTL
        DEF Spec, ImplementsLifecycle, Life!Spec

-----------------------------------------------------------------------------
(* Tracing: the life of a batch in its events                              *)

\* The types that the last event of a batch may have, by its state, its freight
\* cost and its review.
Tells(st, fr, rv) ==
  CASE st = "ABSENT"           -> {None}
    [] st = "CREATED"          -> IF fr THEN {} ELSE {"BatchCreated"}
    [] st = "PICKUP_PENDING"   -> IF fr THEN {} ELSE {"PickupOffered"}
    [] st = "IN_TRANSPORT"     -> IF fr THEN {"FreightCostRecorded"} ELSE {"PickupAccepted"}
    [] st = "DELIVERY_PENDING" -> IF fr THEN {"DeliveryOffered", "FreightCostRecorded"}
                                  ELSE {"DeliveryOffered"}
    [] st = "RECEIVED"         -> {"DeliveryAccepted"}
    [] st = "RETAIL_REPORTED"  -> IF rv = "NONE" THEN {"RetailPriceReported"}
                                  ELSE IF rv \in {"NOT_REQUIRED", "OPEN"} THEN {"PriceEvaluated"}
                                  ELSE {"ReviewUpdated"}

\* The types that the last event of batch b may have.
LastEvents(L, b) == Tells(FieldAt(L, b, "state", "ABSENT"), FreightAt(L, b), ReviewAt(L, b))

\* A batch that is not reported has no evaluation yet.
LEMMA UnreviewedBefore ==
  ASSUME NEW L, EvaluatedIn(L), NEW b \in BatchId,
         FieldAt(L, b, "state", "ABSENT") # "RETAIL_REPORTED"
  PROVE  ReviewAt(L, b) = "NONE"
BY DEF EvaluatedIn, Evaluated, ReviewAt, FieldAt

\* How a mutation moves the state, the freight cost and the review of its batch.
Moving(fn, st, fr, rv, sm, fm, rm) ==
  /\ fn = "CreateBatch" => st = "ABSENT" /\ sm = "CREATED" /\ ~fr
  /\ fn = "OfferPickup" => st = "CREATED" /\ sm = "PICKUP_PENDING"
  /\ fn = "OfferDelivery" => st = "IN_TRANSPORT" /\ sm = "DELIVERY_PENDING"
  /\ fn = "AcceptPickup" => st = "PICKUP_PENDING" /\ sm = "IN_TRANSPORT"
  /\ fn = "AcceptDelivery" => st = "DELIVERY_PENDING" /\ sm = "RECEIVED"
  /\ fn = "RecordFreightCost" =>
       st \in {"IN_TRANSPORT", "DELIVERY_PENDING"} /\ ~fr /\ fm /\ sm = st
  /\ fn # "RecordFreightCost" => (fm <=> fr)
  /\ fn = "ReportRetailPrice" => st = "RECEIVED" /\ sm = "RETAIL_REPORTED" /\ rv = "NONE"
  /\ fn = "EvaluatePrice" =>
       st = "RETAIL_REPORTED" /\ sm = st /\ rv = "NONE" /\ rm \in {"NOT_REQUIRED", "OPEN"}
  /\ fn = "OpenReview" =>
       st = "RETAIL_REPORTED" /\ sm = st /\ rv = "OPEN" /\ rm = "IN_REVIEW"
  /\ fn = "ResolveReview" =>
       st = "RETAIL_REPORTED" /\ sm = st /\ rv = "IN_REVIEW" /\ rm = "RESOLVED"
  /\ fn \notin {"OpenReview", "ResolveReview", "EvaluatePrice"} => rm = rv

\* A mutation moves its batch along its life (BatchLives), one function at a time.
LEMMA BatchMoves ==
  ASSUME NEW L, NEW c, NEW M, Effect(L, c, M), CustodiedIn(L), EvaluatedIn(L), ReviewsIn(L)
  PROVE  /\ Moving(c.fn, FieldAt(L, c.batch, "state", "ABSENT"), FreightAt(L, c.batch),
                   ReviewAt(L, c.batch), FieldAt(M, c.batch, "state", "ABSENT"),
                   FreightAt(M, c.batch), ReviewAt(M, c.batch))
         /\ c.fn \in Mutation
<1> DEFINE st == FieldAt(L, c.batch, "state", "ABSENT")
           fr == FreightAt(L, c.batch)
           rv == ReviewAt(L, c.batch)
           sm == FieldAt(M, c.batch, "state", "ABSENT")
           fm == FreightAt(M, c.batch)
           rm == ReviewAt(M, c.batch)
<1>1. LivesOn(c.fn, L, M, c.batch) /\ c.fn \in Mutation /\ c.batch \in BatchId
  BY BatchLives DEF Effect
<1>2. st # "RETAIL_REPORTED" => rv = "NONE"
  BY <1>1, UnreviewedBefore
<1>3. c.fn = "CreateBatch" => ~fr
  BY BatchAfter DEF Effect, PairedIn, FreightAt
<1> HIDE DEF st, fr, rv, sm, fm, rm
<1>4. /\ c.fn = "CreateBatch" => st = "ABSENT" /\ sm = "CREATED"
      /\ c.fn \in Offers => st = Handoff[KindOf(c.fn)].from /\ sm = Handoff[KindOf(c.fn)].pending
      /\ c.fn \in Acceptances => st = Handoff[KindOf(c.fn)].pending /\ sm = Handoff[KindOf(c.fn)].to
      /\ c.fn = "RecordFreightCost" => st \in {"IN_TRANSPORT", "DELIVERY_PENDING"} /\ ~fr /\ fm
      /\ c.fn # "RecordFreightCost" => (fm <=> fr)
      /\ c.fn = "ReportRetailPrice" => st = "RECEIVED" /\ sm = "RETAIL_REPORTED"
      /\ c.fn \notin {"CreateBatch", "ReportRetailPrice"} \cup Offers \cup Acceptances => sm = st
      /\ c.fn = "EvaluatePrice" =>
           st = "RETAIL_REPORTED" /\ rv = "NONE" /\ rm \in {"NOT_REQUIRED", "OPEN"}
      /\ c.fn \in Reviews => rv = Review[ActionOf(c.fn)].from /\ rm = Review[ActionOf(c.fn)].to
      /\ c.fn \notin Reviews \cup {"EvaluatePrice"} => rm = rv
  BY <1>1 DEF LivesOn, st, fr, rv, sm, fm, rm
<1>5. Moving(c.fn, st, fr, rv, sm, fm, rm)
  BY <1>2, <1>3, <1>4 DEF Moving, Offers, Acceptances, Reviews, Handoff, Review, ActionOf, KindOf
<1> QED BY <1>1, <1>5 DEF st, fr, rv, sm, fm, rm

\* The event of a mutation may follow the last one of its batch, and is then one
\* that the state tells of.
LEMMA EventFollows ==
  ASSUME NEW fn \in Mutation, NEW st, NEW fr \in BOOLEAN, NEW rv,
         NEW sm, NEW fm \in BOOLEAN, NEW rm,
         Moving(fn, st, fr, rv, sm, fm, rm), NEW t \in Tells(st, fr, rv)
  PROVE  <<t, eventType[fn]>> \in Follows /\ eventType[fn] \in Tells(sm, fm, rm)
<1> USE DEF Moving, Tells, eventType, Follows
<1>1. CASE fn = "CreateBatch" BY <1>1
<1>2. CASE fn = "OfferPickup" BY <1>2
<1>3. CASE fn = "AcceptPickup" BY <1>3
<1>4. CASE fn = "OfferDelivery" BY <1>4
<1>5. CASE fn = "AcceptDelivery" BY <1>5
<1>6. CASE fn = "RecordFreightCost" BY <1>6
<1>7. CASE fn = "ReportRetailPrice" BY <1>7
<1>8. CASE fn = "EvaluatePrice" BY <1>8
<1>9. CASE fn \in {"OpenReview", "ResolveReview"} BY <1>9
<1> HIDE DEF Moving, Tells, eventType, Follows
<1> QED BY <1>1, <1>2, <1>3, <1>4, <1>5, <1>6, <1>7, <1>8, <1>9 DEF Mutation, authorize

\* Of the other batches nothing is told.
LEMMA OthersStay ==
  ASSUME NEW L, NEW c, NEW M, Effect(L, c, M), EvaluatedIn(L), ReviewsIn(L),
         NEW b \in BatchId, b # c.batch
  PROVE  /\ LastEvents(M, b) = LastEvents(L, b)
         /\ FieldAt(M, b, "state", "ABSENT") = FieldAt(L, b, "state", "ABSENT")
<1>1. SameLife(L, M, b)
  BY OthersLive
<1>2. FreightAt(M, b) \in BOOLEAN /\ FreightAt(L, b) \in BOOLEAN
  BY DEF FreightAt
<1>3. FreightAt(M, b) = FreightAt(L, b)
  BY <1>1, <1>2 DEF SameLife
<1> QED BY <1>1, <1>3 DEF SameLife, LastEvents

-----------------------------------------------------------------------------
(* A chain of events, one event longer                                     *)

\* In blocks of one transaction, an event's block is its position.
Numbered(C) ==
  /\ C \in Seq(P!Event)
  /\ \A i \in DOMAIN C :
       /\ C[i].block = i
       /\ (C[i].lot # None) <=> (C[i].type = "RetailPriceReported")

\* Batch b has a last event on the chain.
Ended(C, b) == \E i \in P!Of(C, b) : \A j \in P!Of(C, b) : j <= i

\* An appended event joins those of its batch, and no other batch's.
LEMMA ChainGrows ==
  ASSUME NEW C, Numbered(C), NEW e \in P!Event
  PROVE  LET D == Append(C, e)
             n == Len(C) + 1
         IN  /\ n \in Nat /\ DOMAIN C = 1..Len(C) /\ DOMAIN D = DOMAIN C \cup {n}
             /\ n \notin DOMAIN C
             /\ D[n] = e /\ \A i \in DOMAIN C : i < n /\ D[i] = C[i]
             /\ P!Of(D, e.batch) = P!Of(C, e.batch) \cup {n}
             /\ \A b \in BatchId \ {e.batch} : P!Of(D, b) = P!Of(C, b)
<1> DEFINE D == Append(C, e)
           n == Len(C) + 1
<1>1. C \in Seq(P!Event)
  BY DEF Numbered
<1>2. /\ n \in Nat /\ DOMAIN C = 1..Len(C) /\ DOMAIN D = DOMAIN C \cup {n}
      /\ n \notin DOMAIN C
      /\ D[n] = e /\ \A i \in DOMAIN C : i < n /\ D[i] = C[i]
  BY <1>1
<1> HIDE DEF D, n
<1>3. P!Of(D, e.batch) = P!Of(C, e.batch) \cup {n}
  BY <1>2 DEF P!Of
<1>4. \A b \in BatchId \ {e.batch} : P!Of(D, b) = P!Of(C, b)
  BY <1>2 DEF P!Of
<1> QED BY <1>2, <1>3, <1>4 DEF D, n

\* The last event of its batch is the new one, the others' stay.
LEMMA LatestAfter ==
  ASSUME NEW C, Numbered(C), NEW e \in P!Event
  PROVE  /\ Ended(Append(C, e), e.batch) /\ P!Latest(Append(C, e), e.batch) = e.type
         /\ \A b \in BatchId \ {e.batch} :
              /\ Ended(C, b) => Ended(Append(C, e), b)
              /\ Ended(C, b) \/ P!Of(C, b) = {} => P!Latest(Append(C, e), b) = P!Latest(C, b)
<1> DEFINE D == Append(C, e)
           n == Len(C) + 1
<1>1. /\ n \in Nat /\ DOMAIN C = 1..Len(C)
      /\ D[n] = e /\ \A i \in DOMAIN C : i < n /\ D[i] = C[i]
      /\ P!Of(D, e.batch) = P!Of(C, e.batch) \cup {n}
      /\ \A b \in BatchId \ {e.batch} : P!Of(D, b) = P!Of(C, b)
  BY ChainGrows
<1> HIDE DEF D, n
<1>2. \A b : P!Of(C, b) \subseteq DOMAIN C
  BY DEF P!Of
<1>3. \A i \in P!Of(D, e.batch) : (\A j \in P!Of(D, e.batch) : j <= i) <=> i = n
  <2> DEFINE S == P!Of(C, e.batch)
  <2>1. \A i \in S : i \in Nat /\ i < n
    BY <1>1, <1>2
  <2>2. P!Of(D, e.batch) = S \cup {n} /\ n \in Nat
    BY <1>1
  <2> HIDE DEF S
  <2>3. \A j \in S \cup {n} : j <= n
    BY <2>1, <2>2
  <2>4. \A i \in S : ~(n <= i)
    BY <2>1, <2>2
  <2> QED BY <2>2, <2>3, <2>4
<1>4. Ended(D, e.batch)
  BY <1>1, <1>3 DEF Ended
<1>5. P!Latest(D, e.batch) = e.type
  <2>1. (CHOOSE i \in P!Of(D, e.batch) : \A j \in P!Of(D, e.batch) : j <= i) = n
    BY <1>1, <1>3
  <2> QED BY <1>1, <2>1 DEF P!Latest
<1>6. ASSUME NEW b \in BatchId \ {e.batch}
      PROVE  /\ Ended(C, b) => Ended(D, b)
             /\ Ended(C, b) \/ P!Of(C, b) = {} => P!Latest(D, b) = P!Latest(C, b)
  <2>1. P!Of(D, b) = P!Of(C, b)
    BY <1>1
  <2>2. Ended(C, b) => Ended(D, b)
    BY <2>1 DEF Ended
  <2>3. CASE P!Of(C, b) = {}
    BY <2>1, <2>2, <2>3 DEF P!Latest
  <2>4. CASE Ended(C, b)
    <3> DEFINE i == CHOOSE k \in P!Of(C, b) : \A j \in P!Of(C, b) : j <= k
    <3>1. i \in P!Of(C, b)
      BY <2>4 DEF Ended
    <3>2. D[i] = C[i]
      BY <1>1, <1>2, <3>1
    <3> QED BY <2>1, <2>2, <3>1, <3>2 DEF P!Latest
  <2> QED BY <2>2, <2>3, <2>4
<1> QED BY <1>4, <1>5, <1>6 DEF D

-----------------------------------------------------------------------------
(* The chain recounts the ledger                                           *)

\* How many handovers and how many sources a page shows, by the state of its batch.
HandoversOf(st) ==
  CASE st = "ABSENT"      -> 0
    [] st \in AtProducer  -> 1
    [] st \in AtRetailer  -> 3
    [] OTHER              -> 2

SourcesOf(st) == CASE st = "ABSENT" -> 0 [] st = "CREATED" -> 1 [] OTHER -> 2

\* The handovers and the signed sources among the events S.
HandoversIn(C, S) == {i \in S : P!Handover(C[i])}
SourcesIn(C, S)   == {i \in S : P!Sourced(C[i])}

\* Every event of a batch is told of by its state on the ledger: how many there
\* are, of which type the last is, and that one has the batch's lot.
Recounted(C, L, b) ==
  LET S  == P!Of(C, b)
      st == FieldAt(L, b, "state", "ABSENT")
  IN  /\ IsFiniteSet(S) /\ Cardinality(S) = version(L, b)
      /\ S = {} \/ Ended(C, b)
      /\ P!Latest(C, b) \in LastEvents(L, b)
      /\ Cardinality(HandoversIn(C, S)) = HandoversOf(st)
      /\ Cardinality(SourcesIn(C, S)) = SourcesOf(st)
      /\ \A i \in S : C[i].lot # None => C[i].lot = FieldAt(L, b, "lot", None)
      /\ FieldAt(L, b, "lot", None) # None =>
           \E i \in S : C[i].lot = FieldAt(L, b, "lot", None)

\* The chain tells what the ledger holds.
Recounts(C, L) == Numbered(C) /\ \A b \in BatchId : Recounted(C, L, b)

\* The event that an accepted proposal publishes.
EventOf(C, c) ==
  [type |-> eventType[c.fn], batch |-> c.batch, lot |-> lotNamed(c), block |-> Len(C) + 1]

\* Projection counts as the ledger does.
LEMMA SameCount ==
  ASSUME NEW S
  PROVE  P!Cardinality(S) = Cardinality(S)
BY Zenon DEF P!Cardinality, Cardinality

\* A set with one more element, if the new one counts, has one more.
LEMMA CountsOneMore ==
  ASSUME NEW A, NEW B, NEW n, NEW p \in BOOLEAN, NEW k \in Nat, n \notin A, IsFiniteSet(A),
         Cardinality(A) = k, B = IF p THEN A \cup {n} ELSE A
  PROVE  IsFiniteSet(B) /\ Cardinality(B) = k + (IF p THEN 1 ELSE 0)
<1>1. IsFiniteSet(A \cup {n}) /\ Cardinality(A \cup {n}) = Cardinality(A) + 1
  BY FS_AddElement, Zenon
<1> QED BY <1>1

\* The event is typed, and names a lot exactly if it is a report's.
LEMMA EventTyped ==
  ASSUME NEW L, NEW c, NEW M, Effect(L, c, M), NEW C, Numbered(C)
  PROVE  LET e == EventOf(C, c)
         IN  /\ e \in P!Event
             /\ e.block = Len(C) + 1 /\ e.type = eventType[c.fn] /\ e.batch = c.batch
             /\ e.lot = IF c.fn = "ReportRetailPrice" THEN c.lot ELSE None
             /\ (e.lot # None) <=> (e.type = "RetailPriceReported")
             /\ c.fn = "ReportRetailPrice" => c.lot # None
<1>1. c.fn \in Mutation /\ c.batch \in BatchId /\ c \in Command
  BY DEF Effect
<1>2. c.lot \in LotId /\ c.lot # None
  BY <1>1, NoneApart, CommandTyped
<1>3. eventType[c.fn] \in P!Type
  BY <1>1 DEF Mutation, authorize, eventType, P!Type
<1>4. Len(C) + 1 \in Nat \ {0}
  BY DEF Numbered
<1>5. (eventType[c.fn] = "RetailPriceReported") <=> (c.fn = "ReportRetailPrice")
  BY <1>1 DEF Mutation, authorize, eventType
<1> QED BY <1>1, <1>2, <1>3, <1>4, <1>5 DEF EventOf, lotNamed, P!Event

\* The batch of the event is recounted.
LEMMA BatchRecounted ==
  ASSUME NEW L, NEW c, NEW M, Effect(L, c, M), CustodiedIn(L), EvaluatedIn(L), ReviewsIn(L),
         SoldIn(L), NEW C, Recounts(C, L)
  PROVE  Recounted(Append(C, EventOf(C, c)), M, c.batch)
<1> DEFINE e  == EventOf(C, c)
           b  == c.batch
           D  == Append(C, e)
           n  == Len(C) + 1
           S  == P!Of(C, b)
           T  == P!Of(D, b)
           st == FieldAt(L, b, "state", "ABSENT")
           sm == FieldAt(M, b, "state", "ABSENT")
<1>0. c.fn \in Mutation /\ b \in BatchId /\ Numbered(C) /\ Recounted(C, L, b)
  BY DEF Effect, Recounts
<1>1. /\ e \in P!Event /\ e.batch = b /\ e.type = eventType[c.fn]
      /\ e.lot = IF c.fn = "ReportRetailPrice" THEN c.lot ELSE None
      /\ c.fn = "ReportRetailPrice" => c.lot # None
  BY <1>0, EventTyped
<1> HIDE DEF e
<1>2. /\ n \notin DOMAIN C /\ D[n] = e /\ \A i \in DOMAIN C : D[i] = C[i]
      /\ T = S \cup {n}
  BY <1>0, <1>1, ChainGrows
<1>3. Ended(D, b) /\ P!Latest(D, b) = e.type
  BY <1>0, <1>1, LatestAfter
<1> HIDE DEF D, n
<1>4. S \subseteq DOMAIN C
  BY DEF P!Of
<1>5. Moving(c.fn, st, FreightAt(L, b), ReviewAt(L, b), sm, FreightAt(M, b), ReviewAt(M, b))
  BY BatchMoves
<1>6. e.type \in LastEvents(M, b)
  <2>1. FreightAt(L, b) \in BOOLEAN /\ FreightAt(M, b) \in BOOLEAN
    BY DEF FreightAt
  <2>2. P!Latest(C, b) \in Tells(st, FreightAt(L, b), ReviewAt(L, b))
    BY <1>0 DEF Recounted, LastEvents
  <2> DEFINE fr == FreightAt(L, b)
             fm == FreightAt(M, b)
             rv == ReviewAt(L, b)
             rm == ReviewAt(M, b)
             t  == P!Latest(C, b)
  <2> HIDE DEF st, sm, fr, fm, rv, rm, t
  <2>3. eventType[c.fn] \in Tells(sm, fm, rm)
    <3>1. fr \in BOOLEAN /\ fm \in BOOLEAN /\ t \in Tells(st, fr, rv)
      BY <2>1, <2>2 DEF fr, fm, rv, t
    <3>2. Moving(c.fn, st, fr, rv, sm, fm, rm)
      BY <1>5 DEF fr, fm, rv, rm
    <3>3. c.fn \in Mutation
      BY <1>0
    <3>4. <<t, eventType[c.fn]>> \in Follows /\ eventType[c.fn] \in Tells(sm, fm, rm)
      BY <3>1, <3>2, <3>3, EventFollows
    <3> QED BY <3>4
  <2> USE DEF sm, fm, rm
  <2> QED BY <1>1, <2>3 DEF LastEvents
<1>7. IsFiniteSet(T) /\ Cardinality(T) = version(M, b)
  <2>1. /\ IsFiniteSet(S) /\ Cardinality(S) = version(L, b)
        /\ version(L, b) \in Nat /\ version(M, b) = version(L, b) + 1
    BY <1>0, VersionsAfter DEF Recounted
  <2>2. n \notin S
    BY <1>2, <1>4
  <2> QED BY <1>2, <2>1, <2>2, FS_AddElement
<1>8. IsFiniteSet(S) /\ n \notin S /\ \A i \in S : D[i] = C[i]
  BY <1>0, <1>2, <1>4 DEF Recounted
<1>9. Cardinality(HandoversIn(D, T)) = HandoversOf(sm)
  <2> DEFINE A == HandoversIn(C, S)
             B == HandoversIn(D, T)
             p == P!Handover(e)
  <2>1. B = IF p THEN A \cup {n} ELSE A
    BY <1>2, <1>8 DEF HandoversIn
  <2>2. IsFiniteSet(A) /\ n \notin A /\ p \in BOOLEAN
    BY <1>8, FS_Subset DEF HandoversIn, P!Handover
  <2>3. Cardinality(A) = HandoversOf(st) /\ HandoversOf(st) \in Nat
    BY <1>0 DEF Recounted, HandoversOf
  <2>4. HandoversOf(sm) = HandoversOf(st) + (IF p THEN 1 ELSE 0)
    BY <1>0, <1>1, <1>5 DEF Moving, HandoversOf, AtProducer, AtRetailer, P!Handover, eventType,
       Mutation, authorize
  <2> HIDE DEF A, B, p
  <2>5. Cardinality(B) = HandoversOf(st) + (IF p THEN 1 ELSE 0)
    BY <2>1, <2>2, <2>3, CountsOneMore
  <2> QED BY <2>4, <2>5 DEF B
<1>10. Cardinality(SourcesIn(D, T)) = SourcesOf(sm)
  <2> DEFINE A == SourcesIn(C, S)
             B == SourcesIn(D, T)
             p == P!Sourced(e)
  <2>1. B = IF p THEN A \cup {n} ELSE A
    BY <1>2, <1>8 DEF SourcesIn
  <2>2. IsFiniteSet(A) /\ n \notin A /\ p \in BOOLEAN
    BY <1>8, FS_Subset DEF SourcesIn, P!Sourced
  <2>3. Cardinality(A) = SourcesOf(st) /\ SourcesOf(st) \in Nat
    BY <1>0 DEF Recounted, SourcesOf
  <2>4. SourcesOf(sm) = SourcesOf(st) + (IF p THEN 1 ELSE 0)
    BY <1>0, <1>1, <1>5 DEF Moving, SourcesOf, P!Sourced, eventType, Mutation, authorize
  <2> HIDE DEF A, B, p
  <2>5. Cardinality(B) = SourcesOf(st) + (IF p THEN 1 ELSE 0)
    BY <2>1, <2>2, <2>3, CountsOneMore
  <2> QED BY <2>4, <2>5 DEF B
<1>11. /\ \A i \in T : D[i].lot # None => D[i].lot = FieldAt(M, b, "lot", None)
       /\ FieldAt(M, b, "lot", None) # None => \E i \in T : D[i].lot = FieldAt(M, b, "lot", None)
  <2> DEFINE l == FieldAt(L, b, "lot", None)
             m == FieldAt(M, b, "lot", None)
  <2>1. m = IF c.fn = "ReportRetailPrice" THEN c.lot ELSE l
    BY BatchAfter DEF FieldAt
  <2>2. c.fn = "ReportRetailPrice" => l = None
    <3>1. c.fn = "ReportRetailPrice" => st = "RECEIVED"
      BY <1>5 DEF Moving
    <3> QED BY <1>0, <3>1 DEF SoldIn, Sold, FieldAt
  <2>3. /\ \A i \in S : C[i].lot # None => C[i].lot = l
        /\ l # None => \E i \in S : C[i].lot = l
    BY <1>0 DEF Recounted
  <2> HIDE DEF l, m
  <2>4. \A i \in T : D[i].lot # None => D[i].lot = m
    BY <1>1, <1>2, <1>8, <2>1, <2>2, <2>3
  <2>5. m # None => \E i \in T : D[i].lot = m
    BY <1>1, <1>2, <1>8, <2>1, <2>2, <2>3
  <2> QED BY <2>4, <2>5 DEF m
<1> HIDE DEF S, T, st, sm
<1>12. Recounted(D, M, b)
  BY <1>3, <1>6, <1>7, <1>9, <1>10, <1>11 DEF Recounted, T, sm
<1> QED BY <1>12 DEF D, e

\* The other batches have the events they had.
LEMMA OthersRecounted ==
  ASSUME NEW L, NEW c, NEW M, Effect(L, c, M), EvaluatedIn(L), ReviewsIn(L),
         NEW C, Recounts(C, L), NEW b \in BatchId, b # c.batch
  PROVE  Recounted(Append(C, EventOf(C, c)), M, b)
<1> DEFINE e == EventOf(C, c)
           D == Append(C, e)
           S == P!Of(C, b)
<1>1. Numbered(C) /\ Recounted(C, L, b)
  BY DEF Recounts
<1>2. e \in P!Event /\ e.batch = c.batch
  BY <1>1, EventTyped
<1> HIDE DEF e
<1>3. /\ \A i \in DOMAIN C : D[i] = C[i]
      /\ P!Of(D, b) = S
  BY <1>1, <1>2, ChainGrows
<1>4. /\ S = {} \/ Ended(D, b)
      /\ P!Latest(D, b) = P!Latest(C, b)
  BY <1>1, <1>2, LatestAfter DEF Recounted
<1> HIDE DEF D
<1>5. \A i \in S : D[i] = C[i]
  BY <1>3 DEF P!Of
<1>6. HandoversIn(D, S) = HandoversIn(C, S) /\ SourcesIn(D, S) = SourcesIn(C, S)
  BY <1>5 DEF HandoversIn, SourcesIn
<1>7. /\ LastEvents(M, b) = LastEvents(L, b)
      /\ FieldAt(M, b, "state", "ABSENT") = FieldAt(L, b, "state", "ABSENT")
  BY OthersStay
<1>8. version(M, b) = version(L, b) /\ FieldAt(M, b, "lot", None) = FieldAt(L, b, "lot", None)
  BY DEF Effect, version, FieldAt
<1> HIDE DEF S
<1>9. Recounted(D, M, b)
  BY <1>1, <1>3, <1>4, <1>5, <1>6, <1>7, <1>8 DEF Recounted, S
<1> QED BY <1>9 DEF D, e

\* The chain, one event longer, tells what the mutation left.
LEMMA RecountsKept ==
  ASSUME NEW L, NEW c, NEW M, Effect(L, c, M), CustodiedIn(L), Sound(L), NEW C, Recounts(C, L)
  PROVE  Recounts(Append(C, EventOf(C, c)), M)
<1> DEFINE e == EventOf(C, c)
           D == Append(C, e)
<1>1. Numbered(C) /\ EvaluatedIn(L) /\ ReviewsIn(L) /\ SoldIn(L)
  BY DEF Recounts, Sound
<1>2. /\ e \in P!Event /\ e.block = Len(C) + 1
      /\ (e.lot # None) <=> (e.type = "RetailPriceReported")
  BY <1>1, EventTyped
<1> HIDE DEF e
<1>3. Numbered(D)
  <2>1. /\ DOMAIN D = DOMAIN C \cup {Len(C) + 1} /\ D[Len(C) + 1] = e
        /\ \A i \in DOMAIN C : D[i] = C[i]
    BY <1>1, <1>2, ChainGrows
  <2>2. D \in Seq(P!Event)
    BY <1>1, <1>2 DEF Numbered
  <2> HIDE DEF D
  <2> QED BY <1>1, <1>2, <2>1, <2>2 DEF Numbered
<1>4. \A b \in BatchId : Recounted(Append(C, EventOf(C, c)), M, b)
  BY <1>1, BatchRecounted, OthersRecounted
<1> HIDE DEF D
<1>5. D = Append(C, EventOf(C, c))
  BY DEF D, e
<1> QED BY <1>3, <1>4, <1>5 DEF Recounts

\* The event of a mutation is one that may come next.
LEMMA EventUpcoming ==
  ASSUME NEW L, NEW c, NEW M, Effect(L, c, M), CustodiedIn(L), Sound(L), NEW C, Recounts(C, L)
  PROVE  EventOf(C, c) \in P!Upcoming(C, P!Height(C) + 1)
<1> DEFINE e == EventOf(C, c)
           b == c.batch
<1>1. Numbered(C) /\ EvaluatedIn(L) /\ ReviewsIn(L) /\ SoldIn(L) /\ b \in BatchId
      /\ c.fn \in Mutation /\ Recounted(C, L, b) /\ IsWorld(L)
  BY DEF Recounts, Sound, Effect
<1>2. /\ e \in P!Event /\ e.block = Len(C) + 1 /\ e.batch = b /\ e.type = eventType[c.fn]
      /\ (e.lot # None) <=> (e.type = "RetailPriceReported")
      /\ e.lot = IF c.fn = "ReportRetailPrice" THEN c.lot ELSE None
  BY <1>1, EventTyped
<1> HIDE DEF e
<1>3. P!Height(C) = Len(C)
  <2>1. C \in Seq(P!Event)
    BY <1>1 DEF Numbered
  <2>2. CASE C = <<>>
    BY <2>2 DEF P!Height
  <2>3. CASE C # <<>>
    <3>1. Len(C) \in DOMAIN C
      BY <2>1, <2>3
    <3>2. \A i \in DOMAIN C : C[i].block = i
      BY <1>1 DEF Numbered
    <3>3. C[Len(C)].block = Len(C)
      BY <3>1, <3>2
    <3> QED BY <2>3, <3>3 DEF P!Height
  <2> QED BY <2>2, <2>3
<1>4. <<P!Latest(C, b), e.type>> \in Follows
  <2>1. Moving(c.fn, FieldAt(L, b, "state", "ABSENT"), FreightAt(L, b), ReviewAt(L, b),
               FieldAt(M, b, "state", "ABSENT"), FreightAt(M, b), ReviewAt(M, b))
    BY <1>1, BatchMoves
  <2>2. FreightAt(L, b) \in BOOLEAN /\ FreightAt(M, b) \in BOOLEAN
    BY DEF FreightAt
  <2>3. P!Latest(C, b) \in Tells(FieldAt(L, b, "state", "ABSENT"), FreightAt(L, b), ReviewAt(L, b))
    BY <1>1 DEF Recounted, LastEvents
  <2> QED BY <1>1, <1>2, <2>1, <2>2, <2>3, EventFollows
<1>5. e.lot # None => P!FreshLot(C, e.lot)
  <2> SUFFICES ASSUME e.lot # None, NEW i \in DOMAIN C PROVE C[i].lot # e.lot
    BY DEF P!FreshLot
  <2>1. c.fn = "ReportRetailPrice" /\ e.lot = c.lot
    BY <1>2
  <2>2. L.lot[c.lot] = None
    BY <2>1 DEF Effect, Accepts, CanReportRetailPrice, FreshReport
  <2> DEFINE o == C[i].batch
  <2>3. o \in BatchId /\ i \in P!Of(C, o)
    <3>1. C[i] \in P!Event
      BY <1>1 DEF Numbered
    <3> QED BY <3>1 DEF P!Of, P!Event
  <2>4. Recounted(C, L, o)
    BY <2>3 DEF Recounts
  <2>5. C[i].lot # None => C[i].lot = FieldAt(L, o, "lot", None)
    BY <2>3, <2>4 DEF Recounted
  <2>6. FieldAt(L, o, "lot", None) # None => L.lot[FieldAt(L, o, "lot", None)] # None
    <3> SUFFICES ASSUME FieldAt(L, o, "lot", None) # None
                 PROVE  L.lot[FieldAt(L, o, "lot", None)] # None
      OBVIOUS
    <3> DEFINE r == L.batch[o]
    <3>1. r # None /\ r.lot = FieldAt(L, o, "lot", None) /\ r.lot # None
      BY DEF FieldAt
    <3>2. r \in Batch
      BY <1>1, <2>3, <3>1, WorldTyped DEF Opt
    <3>3. Sold(L, o)
      BY <1>1, <2>3, <3>1 DEF SoldIn
    <3>4. /\ L.batchEvidence[o].report \in ReportId
          /\ L.lot[r.lot] = [batch |-> o, quantity |-> r.quantity,
                             report |-> L.batchEvidence[o].report]
      BY <3>1, <3>3 DEF Sold
    <3>5. L.lot[r.lot] \in Lot
      BY <2>3, <3>2, <3>4 DEF Lot, Batch
    <3> QED BY <3>1, <3>5, NoneApart
  <2> QED BY <2>1, <2>2, <2>5, <2>6
<1>6. Cardinality(P!Of(C, b)) < MaxVersion
  BY <1>1, VersionsAfter, EngineAssumption DEF Recounted
<1>7. e \in [type : P!Type, batch : BatchId, lot : LotId \cup {None}, block : {P!Height(C) + 1}]
  BY <1>2, <1>3 DEF P!Event
<1>8. P!Continues(C, e)
  BY <1>2, <1>4, <1>5 DEF P!Continues
<1>9. e \in P!Upcoming(C, P!Height(C) + 1)
  <2>1. Cardinality(P!Of(C, e.batch)) < MaxVersion
    BY <1>2, <1>6
  <2> QED BY <1>7, <1>8, <2>1, SameCount DEF P!Upcoming
<1> QED BY <1>9 DEF e

-----------------------------------------------------------------------------
(* The steps of the ledger, as the chain has them                          *)

\* The ledger is what the theorems above say.
Good == IInv /\ Custodied /\ Ledger

\* The chain of events recounts it.
Recounting == Recounts(chain, world)

\* The identifier of a staged evaluation is one that the worker has derived.
Staged == task # None => task.batch \in BatchId /\ <<task.batch, task.version>> \in DOMAIN Digest

\* An accepted proposal keeps what the ledger is.
LEMMA GoodKept ==
  ASSUME Good, NEW c \in Command, Invoke(c)
  PROVE  Good'
<1>1. IInv' /\ Custodied' /\ Ledger'
  BY InvokeKeeps, CustodyKept, LedgerKept DEF Good
<1> QED BY <1>1 DEF Good

\* It publishes its event in the order of its batch's life, and Bootstrap none.
LEMMA CommitFeeds ==
  ASSUME Good, Recounting, NEW c \in Command, Commit(c)
  PROVE  /\ Good' /\ Recounting' /\ (P!Publish \/ chain' = chain)
         /\ \A i \in DOMAIN chain : i \in DOMAIN chain' /\ chain'[i] = chain[i]
<1>1. Invoke(c) /\ chain' = chain \o Emitted(c) /\ UNCHANGED <<stored, page, stream>>
  BY DEF Commit
<1>2. Good'
  BY <1>1, GoodKept
<1>3. Numbered(chain) /\ chain \in Seq(P!Event) /\ IInv /\ CustodiedIn(world) /\ Sound(world)
  BY DEF Recounting, Recounts, Numbered, Good, Custodied, Ledger
<1>4. CASE c.fn = "Bootstrap"
  <2>1. chain' = chain
    <3>1. Emitted(c) = <<>>
      BY <1>4 DEF Emitted
    <3> QED BY <1>1, <1>3, <3>1
  <2>2. /\ world'.batch = world.batch /\ world'.batchEvidence = world.batchEvidence
        /\ world'.evaluation = world.evaluation /\ world'.anomaly = world.anomaly
    <3>1. world' = flush(world, Plan(world, c))
      BY <1>1 DEF Invoke
    <3>2. \A t \in Table \ {"configuration", "policy", "sourceKey"} : world'[t] = world[t]
      BY <1>4, <3>1, BootstrapEffect
    <3> QED BY <3>2 DEF Table, Keys
  <2>3. ASSUME NEW b \in BatchId PROVE Recounted(chain, world', b)
    <3>1. Recounted(chain, world, b)
      BY DEF Recounting, Recounts
    <3>2. /\ version(world', b) = version(world, b)
          /\ FieldAt(world', b, "state", "ABSENT") = FieldAt(world, b, "state", "ABSENT")
          /\ FieldAt(world', b, "lot", None) = FieldAt(world, b, "lot", None)
          /\ FreightAt(world', b) = FreightAt(world, b)
          /\ ReviewAt(world', b) = ReviewAt(world, b)
      BY <2>2 DEF version, FieldAt, FreightAt, ReviewAt
    <3>3. LastEvents(world', b) = LastEvents(world, b)
      BY <3>2 DEF LastEvents
    <3> QED BY <3>1, <3>2, <3>3 DEF Recounted
  <2> QED BY <1>2, <1>3, <2>1, <2>3 DEF Recounting, Recounts
<1>5. CASE c.fn # "Bootstrap"
  <2>1. Effect(world, c, world')
    BY <1>1, <1>3, <1>5, Mutates
  <2>2. chain' = Append(chain, EventOf(chain, c))
    <3>1. Emitted(c) = <<EventOf(chain, c)>>
      BY <1>5 DEF Emitted, EventOf
    <3>2. EventOf(chain, c) \in P!Event
      BY <1>3, <2>1, EventTyped
    <3> QED BY <1>1, <1>3, <3>1, <3>2
  <2>3. Recounting'
    <3>1. Recounts(Append(chain, EventOf(chain, c)), world')
      BY <1>3, <2>1, RecountsKept DEF Recounting
    <3> QED BY <2>2, <3>1 DEF Recounting
  <2>4. EventOf(chain, c) \in P!Upcoming(chain, P!Height(chain) + 1)
    BY <1>3, <2>1, EventUpcoming DEF Recounting
  <2>5. P!Publish
    BY <1>1, <2>2, <2>4 DEF P!Publish
  <2>6. \A i \in DOMAIN chain : i \in DOMAIN chain' /\ chain'[i] = chain[i]
    <3>1. EventOf(chain, c) \in P!Event
      BY <1>3, <2>1, EventTyped
    <3> QED BY <1>3, <2>2, <3>1, ChainGrows
  <2> QED BY <1>2, <2>3, <2>5, <2>6
<1> QED BY <1>4, <1>5

-----------------------------------------------------------------------------
(* The worker's request                                                    *)

\* What a request consists of.
LEMMA RequestFields ==
  ASSUME NEW t
  PROVE  LET c == request(t)
         IN  /\ c.fn = "EvaluatePrice" /\ c.actor = Regulator /\ c.role = "oracle"
             /\ c.op = operation(t.batch, t.version) /\ c.anomaly = operation(t.batch, t.version)
             /\ c.batch = t.batch /\ c.expected = t.version /\ c.report = t.report
             /\ c.proposed = proposal(t.batch) /\ c.docs = {}
<1>1. AnyCommand \in Command
  BY ProposalAssumption, TracingAssumption DEF AnyCommand
<1> HIDE DEF AnyCommand
<1> QED BY <1>1 DEF request, Command

\* A command whose fields are set to an evaluation's is one.
LEMMA FieldsFit ==
  ASSUME NEW o \in Command, NEW a \in Member, NEW k \in OpId \cap AnomalyId, NEW b \in BatchId,
         NEW v \in 0..MaxVersion, NEW r \in ReportId,
         NEW s \in [increaseBps : Int, classification : {"REVIEW_REQUIRED", "NO_SIGNAL"}]
  PROVE  [o EXCEPT !.fn = "EvaluatePrice", !.actor = a, !.role = "oracle", !.op = k,
                   !.batch = b, !.expected = v, !.report = r,
                   !.anomaly = k, !.proposed = s, !.docs = {}] \in Command
<1>1. {} \in Bundles
  BY FS_EmptySet DEF Bundles
<1>2. "EvaluatePrice" \in DOMAIN authorize /\ "oracle" \in Role
  BY DEF authorize, Role
<1> QED BY <1>1, <1>2 DEF Command

\* A request that the engine accepts is a proposal of its type: what it names was
\* found on the ledger.
LEMMA RequestTyped ==
  ASSUME Good, Staged, task # None, Accepts(world, request(task))
  PROVE  request(task) \in Command
<1> DEFINE c == request(task)
           k == operation(task.batch, task.version)
<1>1. IsWorld(world) /\ task.batch \in BatchId /\ <<task.batch, task.version>> \in DOMAIN Digest
  BY DEF Good, IInv, TypeOK, Staged
<1>2. k \in OpId \cap AnomalyId
  BY <1>1, TracingAssumption DEF operation
<1>3. /\ c.fn = "EvaluatePrice" /\ c.batch = task.batch /\ c.expected = task.version
      /\ c.report = task.report /\ c.proposed = proposal(task.batch)
  BY RequestFields
<1> HIDE DEF c
<1>4. Admitted(world, c) /\ CanEvaluatePrice(world, c)
  BY <1>3 DEF Accepts, c
<1> DEFINE refs == world.batchEvidence[task.batch]
<1>5. task.version \in 0..MaxVersion
  <2>1. task.version \in 1..MaxVersion
    BY <1>1, TracingAssumption
  <2> QED BY <2>1, EngineAssumption
<1>6. task.report \in ReportId
  <2>1. refs \in Opt(EvidenceRefs)
    BY <1>1, WorldTyped
  <2>2. refs # None
    <3>1. world.batch[task.batch] # None
      BY <1>3, <1>4 DEF Admitted
    <3> QED BY <1>1, <3>1 DEF Good, IInv, Paired, PairedIn
  <2>3. refs.report # None /\ task.report = refs.report
    BY <1>3, <1>4 DEF CanEvaluatePrice
  <2> QED BY <2>1, <2>2, <2>3 DEF Opt, EvidenceRefs
<1>7. proposal(task.batch) \in [increaseBps : Int, classification : {"REVIEW_REQUIRED", "NO_SIGNAL"}]
  <2> DEFINE buy == world.tradeOpening[refs.purchase]
             rep == world.report[refs.report]
             cfg == world.configuration["v1"]
  <2>0. refs \in EvidenceRefs
    <3>1. refs \in Opt(EvidenceRefs)
      BY <1>1, WorldTyped
    <3>2. world.batch[task.batch] # None
      BY <1>3, <1>4 DEF Admitted
    <3> QED BY <1>1, <3>1, <3>2 DEF Good, IInv, Paired, PairedIn, Opt
  <2>1. /\ refs.purchase # None /\ refs.report # None /\ buy # None /\ rep # None /\ cfg # None
        /\ Accepted(buy.price, rep.price, cfg.threshold)
    BY <1>3, <1>4 DEF CanEvaluatePrice, Admitted
  <2>2. refs.purchase \in DocId /\ refs.report \in ReportId
    BY <2>0, <2>1 DEF EvidenceRefs, Opt
  <2>3. buy \in Purchase /\ rep \in Report /\ cfg \in Configuration
    <3>1. buy \in Opt(Purchase) /\ rep \in Opt(Report) /\ cfg \in Opt(Configuration)
      BY <1>1, <2>2, WorldTyped
    <3> QED BY <2>1, <3>1 DEF Opt
  <2>4. buy.price \in Int /\ rep.price \in Int /\ cfg.threshold \in Int
    BY <2>3 DEF Purchase, Report, Configuration
  <2>5. proposal(task.batch) = score(buy.price, rep.price, cfg.threshold)
    BY DEF proposal
  <2> HIDE DEF buy, rep, cfg
  <2>6. priceScore(buy.price, rep.price, cfg.threshold)
          \in [increaseBps : Int, classification : {"REVIEW_REQUIRED", "NO_SIGNAL"}]
    BY <2>1, <2>4, ScoreTyped
  <2>7. priceScore(buy.price, rep.price, cfg.threshold) = score(buy.price, rep.price, cfg.threshold)
    BY <2>1, <2>4, ScoresAgree
  <2> QED BY <2>5, <2>6, <2>7
<1>8. AnyCommand \in Command /\ Regulator \in Member
  BY ProposalAssumption, TracingAssumption DEF AnyCommand, Member
<1> QED BY <1>1, <1>2, <1>5, <1>6, <1>7, <1>8, FieldsFit DEF request

-----------------------------------------------------------------------------
(* FeedsProjection                                                         *)

\* The inductive invariant of the ledger, its events and the worker's task.
Traced == Good /\ Recounting /\ Staged

\* Before the first proposal the ledger is what it has to be.
LEMMA GoodInitially == Init => Good
<1> SUFFICES ASSUME Init PROVE Good
  OBVIOUS
<1>1. IsWorld(world) /\ Ledger
  BY InitialWorld, EmptySound DEF Init, Ledger
<1>2. /\ \A b \in BatchId : /\ world.batch[b] = None /\ world.batchEvidence[b] = None
                           /\ world.pendingTransfer[b] = None
      /\ \A t \in TransferId : world.transfer[t] = None
  BY DEF Init, EmptyWorld, Table, Keys
<1>3. Custodied
  BY <1>2 DEF Custodied, CustodiedIn, Custody, Unoffered, Concerns
<1>4. events \in [BatchId -> Seq(EventRecord)]
  BY DEF Init
<1> QED BY <1>1, <1>2, <1>3, <1>4 DEF Good, IInv, TypeOK, Paired, PairedIn

\* It holds before the first proposal,
LEMMA TracedInitially == TracingInit => Traced
<1> SUFFICES ASSUME TracingInit PROVE Traced
  OBVIOUS
<1>1. Init /\ chain = <<>> /\ task = None
  BY DEF TracingInit, P!Init
<1>2. Good
  BY <1>1, GoodInitially
<1>3. Recounting
  <2>1. Numbered(chain)
    BY <1>1 DEF Numbered
  <2>2. ASSUME NEW b \in BatchId PROVE Recounted(chain, world, b)
    <3>1. world.batch[b] = None /\ world.batchEvidence[b] = None /\ world.evaluation[b] = None
      BY <1>1 DEF Init, EmptyWorld, Table, Keys
    <3>2. P!Of(chain, b) = {}
      BY <1>1 DEF P!Of
    <3>3. /\ HandoversIn(chain, {}) = {} /\ SourcesIn(chain, {}) = {}
          /\ IsFiniteSet({}) /\ Cardinality({}) = 0
      BY FS_EmptySet DEF HandoversIn, SourcesIn
    <3>4. /\ version(world, b) = 0 /\ FieldAt(world, b, "state", "ABSENT") = "ABSENT"
          /\ FieldAt(world, b, "lot", None) = None
      BY <3>1 DEF version, FieldAt
    <3>5. P!Latest(chain, b) \in LastEvents(world, b)
      BY <3>2, <3>4 DEF P!Latest, LastEvents, Tells
    <3>6. HandoversOf("ABSENT") = 0 /\ SourcesOf("ABSENT") = 0
      BY DEF HandoversOf, SourcesOf, AtProducer, AtRetailer
    <3>7. /\ Cardinality(HandoversIn(chain, P!Of(chain, b))) = 0
          /\ Cardinality(SourcesIn(chain, P!Of(chain, b))) = 0
      BY <3>2, <3>3
    <3> QED BY <3>2, <3>3, <3>4, <3>5, <3>6, <3>7 DEF Recounted
  <2> QED BY <2>1, <2>2 DEF Recounting, Recounts
<1> QED BY <1>1, <1>2, <1>3 DEF Traced, Staged

\* Nothing that leaves the ledger and the chain alone disturbs either.
LEMMA LedgerStays ==
  ASSUME Good, Recounting, UNCHANGED <<ledger, chain>>
  PROVE  Good' /\ Recounting'
BY DEF ledger, Good, Recounting, IInv, TypeOK, Paired, Custodied, Ledger

\* Every step keeps the invariant, and is a step of the projection's or none.
LEMMA TracedKept ==
  ASSUME Traced, [TracingNext]_allVars
  PROVE  Traced' /\ [P!Next]_(P!vars)
<1> USE DEF Traced
<1>1. ASSUME NEW c \in Proposal, Commit(c), UNCHANGED worker PROVE Traced' /\ [P!Next]_(P!vars)
  <2>0. c \in Command
    BY ProposalAssumption
  <2>1. Good' /\ Recounting' /\ (P!Publish \/ chain' = chain)
    BY <1>1, <2>0, CommitFeeds
  <2>2. Staged'
    BY <1>1 DEF Staged, worker
  <2> QED BY <1>1, <2>1, <2>2 DEF Commit, P!Next, P!vars
<1>2. CASE Project
  <2>1. UNCHANGED <<ledger, chain>> /\ task' = task
    BY <1>2 DEF Project, worker, P!Follow, P!Connect, P!Disconnect, P!Handle, P!Skip, P!Project
  <2> QED BY <1>2, <2>1, LedgerStays DEF Staged, Project, P!Next
<1>3. ASSUME NEW b \in BatchId, Pick(b) PROVE Traced' /\ [P!Next]_(P!vars)
  <2>1. UNCHANGED <<ledger, chain>> /\ UNCHANGED P!vars
    BY <1>3 DEF Pick, projection, P!vars
  <2>2. Staged'
    BY <1>3 DEF Staged, Pick
  <2> QED BY <2>1, <2>2, LedgerStays
<1>4. CASE Evaluate
  <2>1. task # None /\ Commit(request(task)) /\ task' = None
    BY <1>4 DEF Evaluate
  <2>2. request(task) \in Command
    <3>1. Accepts(world, request(task))
      BY <2>1 DEF Commit, Invoke
    <3> QED BY <2>1, <3>1, RequestTyped
  <2>3. Good' /\ Recounting' /\ (P!Publish \/ chain' = chain)
    BY <2>1, <2>2, CommitFeeds
  <2> QED BY <2>1, <2>3 DEF Staged, Commit, P!Next, P!vars
<1>5. CASE Refused
  <2>1. UNCHANGED <<ledger, chain>> /\ UNCHANGED P!vars /\ task' = None
    BY <1>5 DEF Refused, projection, P!vars
  <2> QED BY <2>1, LedgerStays DEF Staged
<1>6. CASE UNCHANGED allVars
  <2>1. UNCHANGED <<ledger, chain>> /\ UNCHANGED P!vars /\ task' = task
    BY <1>6 DEF allVars, projection, worker, P!vars
  <2> QED BY <2>1, LedgerStays DEF Staged
<1> QED BY <1>1, <1>2, <1>3, <1>4, <1>5, <1>6 DEF TracingNext, Client, Reconcile

\* and so ever after.
LEMMA TracedAlways == TracingSpec => []Traced
<1>1. Traced /\ [TracingNext]_allVars => Traced'
  BY TracedKept
<1> QED BY <1>1, TracedInitially, PTL DEF TracingSpec

\* The ledger feeds the projection what it relies on (FeedsProjection).
THEOREM ProjectionFed == TracingSpec => FeedsProjection
<1>1. TracingInit => P!Init
  BY DEF TracingInit
<1>2. Traced /\ [TracingNext]_allVars => [P!Next]_(P!vars)
  BY TracedKept
<1> QED BY <1>1, <1>2, TracedAlways, PTL DEF TracingSpec, FeedsProjection, P!Spec

-----------------------------------------------------------------------------
(* What the pages rest on                                                  *)

\* Every batch names its certificate of eligibility.
Eligible(L) == \A b \in BatchId : L.batch[b] # None => L.batchEvidence[b].cks # None

\* An accepted proposal keeps it so.
LEMMA EligibleKept ==
  ASSUME Good, Eligible(world), NEW c \in Command, Invoke(c)
  PROVE  Eligible(world')
<1>1. CASE c.fn = "Bootstrap"
  <2>1. world'.batch = world.batch /\ world'.batchEvidence = world.batchEvidence
    <3>1. world' = flush(world, Plan(world, c))
      BY DEF Invoke
    <3>2. \A t \in Table \ {"configuration", "policy", "sourceKey"} : world'[t] = world[t]
      BY <1>1, <3>1, BootstrapEffect
    <3> QED BY <3>2 DEF Table, Keys
  <2> QED BY <2>1 DEF Eligible
<1>2. CASE c.fn # "Bootstrap"
  <2>1. Effect(world, c, world')
    BY <1>2, Mutates DEF Good
  <2> SUFFICES ASSUME NEW b \in BatchId, world'.batch[b] # None
               PROVE  world'.batchEvidence[b].cks # None
    BY DEF Eligible
  <2>2. CASE b # c.batch
    BY <2>1, <2>2 DEF Effect, Eligible
  <2>3. CASE b = c.batch
    <3>1. world'.batchEvidence[c.batch].cks
            = IF c.fn = "CreateBatch" THEN Doc(c, "PRODUCER_ELIGIBILITY").id
              ELSE world.batchEvidence[c.batch].cks
      BY <2>1, RefsAfter
    <3>2. c.fn = "CreateBatch" => Doc(c, "PRODUCER_ELIGIBILITY").id # None
      <4> SUFFICES ASSUME c.fn = "CreateBatch" PROVE Doc(c, "PRODUCER_ELIGIBILITY").id # None
        OBVIOUS
      <4>1. "PRODUCER_ELIGIBILITY" \in required(c.fn)
        BY DEF required
      <4>2. Doc(c, "PRODUCER_ELIGIBILITY").id \in DocId
        BY <2>1, <4>1, DocOf
      <4> QED BY <4>2, NoneApart
    <3>3. c.fn # "CreateBatch" => world.batch[c.batch] # None
      BY <2>1, BatchAfter
    <3> QED BY <2>3, <3>1, <3>2, <3>3 DEF Eligible
  <2> QED BY <2>2, <2>3
<1> QED BY <1>1, <1>2

-----------------------------------------------------------------------------
(* The pages                                                               *)

\* The stored events of batch b.
StoredOf(b) == {i \in stored : chain[i].batch = b}

\* A page counts the handovers and sources among the stored events S of its
\* batch, and has the lot that they name.
Counted(p, C, S) ==
  /\ p \in P!Page
  /\ Len(p.history) = Cardinality(HandoversIn(C, S))
  /\ Len(p.sources) = Cardinality(SourcesIn(C, S))
  /\ p.lot # None => \E i \in S : C[i].lot = p.lot
  /\ p.lot = None => \A i \in S : C[i].lot = None

\* Every page counts what is stored of its batch, and there is none without it.
Paging ==
  /\ stored \subseteq DOMAIN chain
  /\ DOMAIN page = BatchId
  /\ \A b \in BatchId :
       /\ IsFiniteSet(StoredOf(b))
       /\ IF page[b] = None THEN StoredOf(b) = {} ELSE Counted(page[b], chain, StoredOf(b))

\* A longer chain changes nothing of what was stored.
LEMMA PagingStays ==
  ASSUME Paging, UNCHANGED <<stored, page>>,
         \A i \in DOMAIN chain : i \in DOMAIN chain' /\ chain'[i] = chain[i]
  PROVE  Paging'
<1>1. stored \subseteq DOMAIN chain /\ \A i \in stored : chain'[i] = chain[i]
  BY DEF Paging
<1>2. \A b : StoredOf(b)' = StoredOf(b) /\ StoredOf(b) \subseteq stored
  BY <1>1 DEF StoredOf
<1>3. ASSUME NEW S \in SUBSET stored PROVE HandoversIn(chain', S) = HandoversIn(chain, S)
                                           /\ SourcesIn(chain', S) = SourcesIn(chain, S)
  BY <1>1 DEF HandoversIn, SourcesIn
<1>4. ASSUME NEW b \in BatchId, page[b] # None, Counted(page[b], chain, StoredOf(b))
      PROVE  Counted(page[b], chain', StoredOf(b))
  BY <1>1, <1>2, <1>3, <1>4 DEF Counted
<1> QED BY <1>1, <1>2, <1>4 DEF Paging

\* Projecting an event counts it on its batch's page.
LEMMA PagingGrows ==
  ASSUME Paging, Numbered(chain), P!Project, NEW n, NEW b, n = stream, b = chain[n].batch
  PROVE  Paging'
<1> DEFINE e == chain[n]
           old == P!existing(b)
           new == P!Updated(b, n)
           S == StoredOf(b)
           T == S \cup {n}
<1>1. /\ n \in DOMAIN chain /\ n \notin stored /\ stored' = stored \cup {n} /\ chain' = chain
      /\ page' = [page EXCEPT ![b] = new]
  BY DEF P!Project, P!seen
<1>2. n \in Nat /\ e \in P!Event
  BY <1>1 DEF Numbered
<1>3. b = e.batch /\ b \in BatchId /\ e.lot \in LotId \cup {None}
  BY <1>2 DEF P!Event
<1>4. (e.lot # None) <=> (e.type = "RetailPriceReported")
  BY <1>1 DEF Numbered
<1>5. /\ S \subseteq stored /\ n \notin S /\ StoredOf(b)' = T
      /\ \A o \in BatchId \ {b} : StoredOf(o)' = StoredOf(o)
  <2>1. /\ S \subseteq stored /\ n \notin S /\ StoredOf(b)' = T
    BY <1>1 DEF StoredOf
  <2>2. ASSUME NEW o \in BatchId \ {b} PROVE StoredOf(o)' = StoredOf(o)
    BY <1>1, <2>2 DEF StoredOf
  <2> QED BY <2>1, <2>2
<1>6. IsFiniteSet(S) /\ IsFiniteSet(T)
  <2>1. IsFiniteSet(S)
    BY <1>3 DEF Paging
  <2> QED BY <2>1, FS_AddElement
<1>7. Counted(old, chain, S)
  <2>1. CASE page[b] # None
    BY <1>3, <2>1 DEF Paging, P!existing
  <2>2. CASE page[b] = None
    <3>1. S = {} /\ old = P!NewPage
      BY <1>3, <2>2 DEF Paging, P!existing
    <3>2. P!NewPage \in P!Page
      BY DEF P!NewPage, P!Page
    <3>3. Cardinality(HandoversIn(chain, {})) = 0 /\ Cardinality(SourcesIn(chain, {})) = 0
      <4>1. HandoversIn(chain, {}) = {} /\ SourcesIn(chain, {}) = {}
        BY DEF HandoversIn, SourcesIn
      <4> QED BY <4>1, FS_EmptySet
    <3>4. Len(P!NewPage.history) = 0 /\ Len(P!NewPage.sources) = 0 /\ P!NewPage.lot = None
      BY DEF P!NewPage
    <3> HIDE DEF S, old
    <3> QED BY <3>1, <3>2, <3>3, <3>4 DEF Counted
  <2> QED BY <2>1, <2>2
<1>8. /\ new.history = IF P!Handover(e) THEN Append(old.history, n) ELSE old.history
      /\ new.sources = IF P!Sourced(e) THEN Append(old.sources, n) ELSE old.sources
      /\ new.lot = IF e.type = "RetailPriceReported" THEN e.lot ELSE old.lot
      /\ new = [shows |-> n, lot |-> new.lot, history |-> new.history, sources |-> new.sources]
  BY DEF P!Updated, P!AddIf
<1> HIDE DEF old, new, S, e
<1>9. old \in P!Page /\ old.history \in Seq(Nat) /\ old.sources \in Seq(Nat)
      /\ old.lot \in LotId \cup {None}
  BY <1>7 DEF Counted, P!Page
<1>10. /\ new.history \in Seq(Nat) /\ new.sources \in Seq(Nat)
       /\ Len(new.history) = Len(old.history) + (IF P!Handover(e) THEN 1 ELSE 0)
       /\ Len(new.sources) = Len(old.sources) + (IF P!Sourced(e) THEN 1 ELSE 0)
  <2> DEFINE h == old.history
             s == old.sources
             g == new.history
             r == new.sources
  <2>1. h \in Seq(Nat) /\ s \in Seq(Nat) /\ n \in Nat
    BY <1>2, <1>9
  <2>2. g = IF P!Handover(e) THEN Append(h, n) ELSE h
    BY <1>8
  <2>3. r = IF P!Sourced(e) THEN Append(s, n) ELSE s
    BY <1>8
  <2> HIDE DEF h, s, g, r
  <2>4. /\ Append(h, n) \in Seq(Nat) /\ Len(Append(h, n)) = Len(h) + 1 /\ Len(h) \in Nat
        /\ Append(s, n) \in Seq(Nat) /\ Len(Append(s, n)) = Len(s) + 1 /\ Len(s) \in Nat
    BY <2>1
  <2>5. g \in Seq(Nat) /\ Len(g) = Len(h) + (IF P!Handover(e) THEN 1 ELSE 0)
    BY <2>1, <2>2, <2>4
  <2>6. r \in Seq(Nat) /\ Len(r) = Len(s) + (IF P!Sourced(e) THEN 1 ELSE 0)
    BY <2>1, <2>3, <2>4
  <2> QED BY <2>5, <2>6 DEF h, s, g, r
<1>11. new \in P!Page
  <2>1. new.lot \in LotId \cup {None}
    BY <1>3, <1>8, <1>9
  <2> DEFINE g == new.history
             r == new.sources
             l == new.lot
  <2>2. new = [shows |-> n, lot |-> l, history |-> g, sources |-> r]
    BY <1>8
  <2>3. n \in Nat /\ l \in LotId \cup {None} /\ g \in Seq(Nat) /\ r \in Seq(Nat)
    BY <1>2, <1>10, <2>1
  <2> HIDE DEF g, r, l
  <2> QED BY <2>2, <2>3 DEF P!Page
<1>12. Len(new.history) = Cardinality(HandoversIn(chain, T))
  <2> DEFINE A == HandoversIn(chain, S)
             B == HandoversIn(chain, T)
             p == P!Handover(e)
  <2>1. B = IF p THEN A \cup {n} ELSE A
    BY DEF HandoversIn, e
  <2>2. IsFiniteSet(A) /\ n \notin A /\ p \in BOOLEAN
    BY <1>5, <1>6, FS_Subset DEF HandoversIn, P!Handover
  <2>3. Cardinality(A) = Len(old.history) /\ Len(old.history) \in Nat
    BY <1>7, <1>9 DEF Counted
  <2>4. Len(new.history) = Len(old.history) + (IF p THEN 1 ELSE 0)
    BY <1>10
  <2> DEFINE k == Len(old.history)
  <2> HIDE DEF A, B, p, k
  <2>5. k \in Nat /\ Cardinality(A) = k
    BY <2>3 DEF k
  <2>6. Cardinality(B) = k + (IF p THEN 1 ELSE 0)
    BY <2>1, <2>2, <2>5, CountsOneMore
  <2> QED BY <2>4, <2>6 DEF B, k
<1>13. Len(new.sources) = Cardinality(SourcesIn(chain, T))
  <2> DEFINE A == SourcesIn(chain, S)
             B == SourcesIn(chain, T)
             p == P!Sourced(e)
  <2>1. B = IF p THEN A \cup {n} ELSE A
    BY DEF SourcesIn, e
  <2>2. IsFiniteSet(A) /\ n \notin A /\ p \in BOOLEAN
    BY <1>5, <1>6, FS_Subset DEF SourcesIn, P!Sourced
  <2>3. Cardinality(A) = Len(old.sources) /\ Len(old.sources) \in Nat
    BY <1>7, <1>9 DEF Counted
  <2>4. Len(new.sources) = Len(old.sources) + (IF p THEN 1 ELSE 0)
    BY <1>10
  <2> DEFINE k == Len(old.sources)
  <2> HIDE DEF A, B, p, k
  <2>5. k \in Nat /\ Cardinality(A) = k
    BY <2>3 DEF k
  <2>6. Cardinality(B) = k + (IF p THEN 1 ELSE 0)
    BY <2>1, <2>2, <2>5, CountsOneMore
  <2> QED BY <2>4, <2>6 DEF B, k
<1>14. /\ new.lot # None => \E i \in T : chain[i].lot = new.lot
       /\ new.lot = None => \A i \in T : chain[i].lot = None
  <2>1. /\ old.lot # None => \E i \in S : chain[i].lot = old.lot
        /\ old.lot = None => \A i \in S : chain[i].lot = None
    BY <1>7 DEF Counted
  <2> QED BY <1>4, <1>8, <2>1 DEF e
<1> HIDE DEF T
<1>15. Counted(new, chain, T) /\ new # None
  <2>1. new # None
    BY <1>11, TracingAssumption
  <2> QED BY <1>11, <1>12, <1>13, <1>14, <2>1 DEF Counted
<1>16. /\ DOMAIN page' = BatchId /\ page'[b] = new
       /\ \A o \in BatchId \ {b} : page'[o] = page[o]
  BY <1>1, <1>3 DEF Paging
<1>17. stored' \subseteq DOMAIN chain'
  BY <1>1 DEF Paging
<1>18. ASSUME NEW o \in BatchId
       PROVE  /\ IsFiniteSet(StoredOf(o)')
              /\ IF page'[o] = None THEN StoredOf(o)' = {}
                 ELSE Counted(page'[o], chain', StoredOf(o)')
  <2>1. CASE o = b
    <3>1. StoredOf(o)' = T /\ chain' = chain /\ page'[o] = new
      BY <1>1, <1>5, <1>16, <2>1
    <3> QED BY <1>6, <1>15, <3>1
  <2>2. CASE o # b
    BY <1>1, <1>5, <1>16, <2>2 DEF Paging
  <2> QED BY <2>1, <2>2
<1> QED BY <1>16, <1>17, <1>18 DEF Paging

-----------------------------------------------------------------------------
(* PagesAgree                                                              *)

\* A batch has one accepted transfer fewer than handovers.
LEMMA AcceptedCounted ==
  ASSUME IInv, Custodied, NEW b \in Present("batch")
  PROVE  HandoversOf(world.batch[b].state) = 1 + Cardinality(AcceptedTransfers(b))
<1> DEFINE st == world.batch[b].state
           T == world.transfer
           A == AcceptedTransfers(b)
<1>1. T \in Transferring /\ Holding(world.batch[b], T, b)
  BY OnLedger
<1>2. Transfers(b) = {t \in TransferId : Concerns(T, t, b)}
  BY OnLedger
<1>3. A = {t \in TransferId : Taken(T, t, b, "PICKUP") \/ Taken(T, t, b, "DELIVERY")}
  <2>1. \A t \in TransferId : Concerns(T, t, b) => T[t].kind \in {"PICKUP", "DELIVERY"}
    BY <1>1 DEF Concerns, Transferring, Opt, Transfer, Handoff
  <2>2. A = {t \in Transfers(b) : T[t].status = "ACCEPTED"}
    BY DEF AcceptedTransfers
  <2> HIDE DEF T, A
  <2> QED BY <1>2, <2>1, <2>2 DEF Taken
<1>4. st \in State
  <2>1. world.batch[b] \in Batch
    BY OnLedger
  <2> QED BY <2>1 DEF Batch
<1>5. /\ \A kind \in {"PICKUP", "DELIVERY"} : \A t, u \in TransferId :
           Taken(T, t, b, kind) /\ Taken(T, u, b, kind) => t = u
      /\ (\E t \in TransferId : Taken(T, t, b, "PICKUP")) <=> st \notin AtProducer
      /\ (\E t \in TransferId : Taken(T, t, b, "DELIVERY")) <=> st \in AtRetailer
  BY <1>1 DEF Holding, Handoff
<1> HIDE DEF st, T, A
<1>6. CASE st \in AtProducer
  <2>1. A = {}
    BY <1>3, <1>5, <1>6 DEF AtProducer, AtRetailer
  <2>2. Cardinality(A) = 0 /\ HandoversOf(st) = 1
    BY <1>6, <2>1, FS_EmptySet DEF HandoversOf, AtProducer, AtRetailer
  <2> QED BY <2>2 DEF st, A
<1>7. CASE st \in AtRetailer
  <2>1. PICK t \in TransferId, u \in TransferId :
          Taken(T, t, b, "PICKUP") /\ Taken(T, u, b, "DELIVERY")
    BY <1>5, <1>7 DEF AtProducer, AtRetailer
  <2>2. A = {t} \cup {u} /\ u \notin {t}
    BY <1>3, <1>5, <2>1 DEF Taken
  <2>3. IsFiniteSet({t}) /\ Cardinality({t}) = 1
    BY FS_Singleton
  <2>4. Cardinality({t} \cup {u}) = 1 + 1
    BY <2>2, <2>3, FS_AddElement, Zenon
  <2>5. HandoversOf(st) = 3
    BY <1>7 DEF HandoversOf, AtProducer, AtRetailer
  <2> QED BY <2>2, <2>4, <2>5 DEF st, A
<1>8. CASE st \notin AtProducer \cup AtRetailer
  <2>1. PICK t \in TransferId : Taken(T, t, b, "PICKUP")
    BY <1>5, <1>8
  <2>2. A = {t}
    BY <1>3, <1>5, <1>8, <2>1
  <2>3. Cardinality(A) = 1
    BY <2>2, FS_Singleton
  <2>4. HandoversOf(st) = 2
    BY <1>4, <1>8 DEF HandoversOf, AtProducer, AtRetailer, State
  <2> QED BY <2>3, <2>4 DEF st, A
<1> QED BY <1>6, <1>7, <1>8

\* It has as many signed sources as its state tells.
LEMMA SourcesCounted ==
  ASSUME Good, Eligible(world), NEW b \in BatchId, world.batch[b] # None
  PROVE  LET refs == world.batchEvidence[b]
         IN  SourcesOf(world.batch[b].state) = Cardinality({refs.cks, refs.purchase} \ {None})
<1> DEFINE st == world.batch[b].state
           x == world.batchEvidence[b].cks
           y == world.batchEvidence[b].purchase
<1>1. PurchasedIn(world) /\ PlacedIn(world) /\ IsWorld(world)
  BY DEF Good, Ledger, Sound, IInv, TypeOK
<1>2. x # None /\ (y # None <=> st # "CREATED")
  BY <1>1 DEF Eligible, PurchasedIn, Purchased
<1>3. y # None => x # y
  <2>1. Filling(world, b, "PRODUCER_ELIGIBILITY") /\ Filling(world, b, "PURCHASE_INVOICE")
    BY <1>1, DocTypes DEF PlacedIn
  <2> QED BY <1>2, <2>1 DEF Filling, PlaceOf
<1>4. st \in State
  <2>1. world.batch[b] \in Opt(Batch)
    BY <1>1, WorldTyped
  <2> QED BY <2>1 DEF Opt, Batch
<1> HIDE DEF st, x, y
<1>5. IsFiniteSet({x}) /\ Cardinality({x}) = 1
  BY FS_Singleton
<1>6. CASE y = None
  <2>1. {x, y} \ {None} = {x}
    BY <1>2, <1>6
  <2>2. SourcesOf(st) = 1
    BY <1>2, <1>6 DEF SourcesOf
  <2> QED BY <1>5, <2>1, <2>2 DEF st, x, y
<1>7. CASE y # None
  <2>1. {x, y} \ {None} = {x} \cup {y} /\ y \notin {x}
    BY <1>2, <1>3, <1>7
  <2>2. Cardinality({x} \cup {y}) = 1 + 1
    BY <1>5, <2>1, FS_AddElement, Zenon
  <2>3. SourcesOf(st) = 2
    BY <1>2, <1>4, <1>7 DEF SourcesOf, State
  <2> QED BY <2>1, <2>2, <2>3 DEF st, x, y
<1> QED BY <1>6, <1>7

\* A page that has all events of its batch therefore shows what the ledger has.
LEMMA PagesHold ==
  ASSUME Traced, Eligible(world), Paging
  PROVE  PagesAgree
<1> SUFFICES ASSUME NEW b \in BatchId
             PROVE  LET n    == Cardinality({i \in stored : chain[i].batch = b})
                        r    == world.batch[b]
                        refs == world.batchEvidence[b]
                    IN  /\ page[b] # None /\ page[b].lot # None => world.lot[page[b].lot].batch = b
                        /\ n = version(world, b) /\ n > 0 =>
                             /\ page[b].lot = r.lot
                             /\ Len(page[b].history) = 1 + Cardinality(AcceptedTransfers(b))
                             /\ Len(page[b].sources) = Cardinality({refs.cks, refs.purchase} \ {None})
  BY DEF PagesAgree
<1> DEFINE S == StoredOf(b)
           O == P!Of(chain, b)
           p == page[b]
           r == world.batch[b]
<1>1. /\ stored \subseteq DOMAIN chain /\ IsFiniteSet(S)
      /\ IF p = None THEN S = {} ELSE Counted(p, chain, S)
  BY DEF Paging
<1>2. Recounted(chain, world, b) /\ Good
  BY DEF Traced, Recounting, Recounts
<1>3. S \subseteq O
  BY <1>1 DEF StoredOf, P!Of
<1>4. SoldIn(world)
  BY <1>2 DEF Good, Ledger, Sound
<1>5. ASSUME p # None, p.lot # None PROVE world.lot[p.lot].batch = b
  <2>1. PICK i \in S : chain[i].lot = p.lot
    BY <1>1, <1>5 DEF Counted
  <2>2. p.lot = FieldAt(world, b, "lot", None)
    BY <1>2, <1>3, <1>5, <2>1 DEF Recounted
  <2>3. r # None /\ p.lot = r.lot
    BY <1>5, <2>2 DEF FieldAt
  <2>4. Sold(world, b)
    BY <1>4, <2>3 DEF SoldIn
  <2> QED BY <1>5, <2>3, <2>4 DEF Sold
<1>6. ASSUME Cardinality(S) = version(world, b), Cardinality(S) > 0
      PROVE  /\ p.lot = r.lot
             /\ Len(p.history) = 1 + Cardinality(AcceptedTransfers(b))
             /\ Len(p.sources)
                  = Cardinality({world.batchEvidence[b].cks, world.batchEvidence[b].purchase} \ {None})
  <2>1. IsFiniteSet(O) /\ Cardinality(O) = version(world, b)
    BY <1>2 DEF Recounted
  <2>2. S = O
    BY <1>3, <1>6, <2>1, FS_Subset
  <2>3. r # None
    BY <1>6 DEF version
  <2>4. S # {}
    BY <1>6, FS_EmptySet
  <2>5. p # None /\ Counted(p, chain, S)
    BY <1>1, <2>4
  <2>6. /\ FieldAt(world, b, "state", "ABSENT") = r.state
        /\ FieldAt(world, b, "lot", None) = r.lot
    BY <2>3 DEF FieldAt
  <2>7. /\ Cardinality(HandoversIn(chain, O)) = HandoversOf(r.state)
        /\ Cardinality(SourcesIn(chain, O)) = SourcesOf(r.state)
        /\ \A i \in O : chain[i].lot # None => chain[i].lot = r.lot
        /\ r.lot # None => \E i \in O : chain[i].lot = r.lot
    BY <1>2, <2>6 DEF Recounted
  <2> HIDE DEF S, O
  <2>8. Len(p.history) = HandoversOf(r.state) /\ Len(p.sources) = SourcesOf(r.state)
    BY <2>2, <2>5, <2>7 DEF Counted
  <2>9. p.lot = r.lot
    <3>1. CASE p.lot = None
      BY <2>2, <2>5, <2>7, <3>1 DEF Counted
    <3>2. CASE p.lot # None
      BY <2>2, <2>5, <2>7, <3>2 DEF Counted
    <3> QED BY <3>1, <3>2
  <2>10. HandoversOf(r.state) = 1 + Cardinality(AcceptedTransfers(b))
    <3>1. b \in Present("batch")
      BY <2>3 DEF Present, Keys
    <3>2. IInv /\ Custodied
      BY <1>2 DEF Good
    <3> QED BY <3>1, <3>2, AcceptedCounted
  <2>11. SourcesOf(r.state)
           = Cardinality({world.batchEvidence[b].cks, world.batchEvidence[b].purchase} \ {None})
    BY <1>2, <2>3, SourcesCounted
  <2> HIDE DEF p, r
  <2> QED BY <2>8, <2>9, <2>10, <2>11
<1> QED BY <1>5, <1>6 DEF StoredOf

\* Together with what the pages count, the invariant of PagesAgree.
Showing == Eligible(world) /\ Paging

\* Every step keeps it.
LEMMA ShowingKept ==
  ASSUME Traced, Showing, [TracingNext]_allVars
  PROVE  Showing'
<1> USE DEF Showing
<1>1. ASSUME NEW c \in Command, Commit(c) PROVE Showing'
  <2>1. Good /\ Recounting
    BY DEF Traced
  <2>2. Invoke(c) /\ UNCHANGED <<stored, page>>
    BY <1>1 DEF Commit
  <2>3. \A i \in DOMAIN chain : i \in DOMAIN chain' /\ chain'[i] = chain[i]
    BY <1>1, <2>1, CommitFeeds
  <2> QED BY <2>1, <2>2, <2>3, EligibleKept, PagingStays
<1>2. ASSUME UNCHANGED <<world, chain, stored, page>> PROVE Showing'
  <2>1. Paging'
    BY <1>2, PagingStays
  <2> QED BY <1>2, <2>1
<1>3. CASE Project
  <2>1. CASE P!Project
    <3>1. Numbered(chain) /\ world' = world
      BY <1>3 DEF Traced, Recounting, Recounts, Project, ledger
    <3>2. Paging'
      BY <2>1, <3>1, PagingGrows
    <3> QED BY <3>1, <3>2
  <2>2. CASE P!Connect \/ P!Disconnect \/ P!Skip
    BY <1>2, <1>3, <2>2 DEF Project, ledger, P!Connect, P!Disconnect, P!Skip
  <2> QED BY <1>3, <2>1, <2>2 DEF Project, P!Follow, P!Handle
<1>4. CASE Client
  <2>1. PICK c \in Proposal : Commit(c)
    BY <1>4 DEF Client
  <2> QED BY <1>1, <2>1, ProposalAssumption
<1>5. CASE Evaluate
  <2>1. task # None /\ Commit(request(task))
    BY <1>5 DEF Evaluate
  <2>2. Accepts(world, request(task))
    BY <2>1 DEF Commit, Invoke
  <2>3. request(task) \in Command
    BY <2>1, <2>2, RequestTyped DEF Traced
  <2> QED BY <1>1, <2>1, <2>3
<1>6. CASE Refused \/ (\E b \in BatchId : Pick(b)) \/ UNCHANGED allVars
  BY <1>2, <1>6 DEF Refused, Pick, ledger, projection, allVars
<1> QED BY <1>3, <1>4, <1>5, <1>6 DEF TracingNext, Reconcile

\* The pages count what they show, initially and after every step.
LEMMA ShowingAlways == TracingSpec => []Showing
<1>1. TracingInit => Showing
  <2> SUFFICES ASSUME TracingInit PROVE Showing
    OBVIOUS
  <2>1. Eligible(world)
    BY DEF TracingInit, Init, EmptyWorld, Table, Keys, Eligible
  <2>2. stored = {} /\ page = [b \in BatchId |-> None]
    BY DEF TracingInit, P!Init
  <2>3. \A b \in BatchId : StoredOf(b) = {} /\ page[b] = None
    BY <2>2 DEF StoredOf
  <2>4. IsFiniteSet({})
    BY FS_EmptySet
  <2>5. stored \subseteq DOMAIN chain /\ DOMAIN page = BatchId
    BY <2>2
  <2> QED BY <2>1, <2>3, <2>4, <2>5 DEF Showing, Paging
<1>2. Traced /\ Showing /\ [TracingNext]_allVars => Showing'
  BY ShowingKept
<1> QED BY <1>1, <1>2, TracedAlways, PTL DEF TracingSpec

\* Once the projection has caught up with a batch, its page agrees with the
\* ledger, and a lot leads to its own batch (Projection.lot).
THEOREM PagesFollowLedger == TracingSpec => []PagesAgree
<1>1. Traced /\ Showing => PagesAgree
  BY PagesHold DEF Showing
<1> QED BY <1>1, ShowingAlways, TracedAlways, PTL

-----------------------------------------------------------------------------
(* The versions of a batch, and what it is evaluated from                  *)

\* How many steps of its life a batch has behind it: those of its state, of its freight
\* cost and of its review.
Age(st, fr, rv) ==
  (CASE st = "ABSENT" -> 0 [] st = "CREATED" -> 1 [] st = "PICKUP_PENDING" -> 2
     [] st = "IN_TRANSPORT" -> 3 [] st = "DELIVERY_PENDING" -> 4 [] st = "RECEIVED" -> 5
     [] OTHER -> 6)
  + (IF fr THEN 1 ELSE 0)
  + (CASE rv = "NONE" -> 0 [] rv \in {"NOT_REQUIRED", "OPEN"} -> 1
       [] rv = "IN_REVIEW" -> 2 [] OTHER -> 3)

\* The version of a batch is the number of its steps.
AgedIn(L) ==
  \A b \in BatchId :
    version(L, b) = Age(FieldAt(L, b, "state", "ABSENT"), FreightAt(L, b), ReviewAt(L, b))

\* A function takes its batch one step on.
LEMMA OlderByOne ==
  ASSUME NEW fn \in Mutation, NEW st, NEW fr \in BOOLEAN, NEW rv,
         NEW sm, NEW fm \in BOOLEAN, NEW rm, Moving(fn, st, fr, rv, sm, fm, rm)
  PROVE  Age(sm, fm, rm) = Age(st, fr, rv) + 1
<1> USE DEF Moving, Age
<1>1. CASE fn = "CreateBatch" BY <1>1
<1>2. CASE fn = "OfferPickup" BY <1>2
<1>3. CASE fn = "AcceptPickup" BY <1>3
<1>4. CASE fn = "OfferDelivery" BY <1>4
<1>5. CASE fn = "AcceptDelivery" BY <1>5
<1>6. CASE fn = "RecordFreightCost" BY <1>6
<1>7. CASE fn = "ReportRetailPrice" BY <1>7
<1>8. CASE fn = "EvaluatePrice" BY <1>8
<1>9. CASE fn \in {"OpenReview", "ResolveReview"} BY <1>9
<1> HIDE DEF Moving, Age
<1> QED BY <1>1, <1>2, <1>3, <1>4, <1>5, <1>6, <1>7, <1>8, <1>9 DEF Mutation, authorize

\* The version of a batch counts the steps of its life.
LEMMA AgesKept ==
  ASSUME NEW L, NEW c, NEW M, Effect(L, c, M), Sound(L), CustodiedIn(L), AgedIn(L)
  PROVE  AgedIn(M)
<1>1. EvaluatedIn(L) /\ ReviewsIn(L) /\ c.batch \in BatchId
  BY DEF Sound, Effect
<1>2. /\ version(M, c.batch) = version(L, c.batch) + 1
      /\ \A b \in BatchId : b # c.batch => version(M, b) = version(L, b)
  BY VersionsAfter
<1>3. ASSUME NEW b \in BatchId, b # c.batch
      PROVE  version(M, b) = Age(FieldAt(M, b, "state", "ABSENT"), FreightAt(M, b), ReviewAt(M, b))
  <2>1. SameLife(L, M, b)
    BY <1>1, <1>3, OthersLive
  <2>2. FreightAt(M, b) \in BOOLEAN /\ FreightAt(L, b) \in BOOLEAN
    BY DEF FreightAt
  <2>3. FreightAt(M, b) = FreightAt(L, b)
    BY <2>1, <2>2 DEF SameLife
  <2> QED BY <1>2, <1>3, <2>1, <2>3 DEF SameLife, AgedIn
<1>4. version(M, c.batch)
        = Age(FieldAt(M, c.batch, "state", "ABSENT"), FreightAt(M, c.batch), ReviewAt(M, c.batch))
  <2>1. /\ Moving(c.fn, FieldAt(L, c.batch, "state", "ABSENT"), FreightAt(L, c.batch),
                  ReviewAt(L, c.batch), FieldAt(M, c.batch, "state", "ABSENT"),
                  FreightAt(M, c.batch), ReviewAt(M, c.batch))
        /\ c.fn \in Mutation
    BY <1>1, BatchMoves
  <2>2. FreightAt(M, c.batch) \in BOOLEAN /\ FreightAt(L, c.batch) \in BOOLEAN
    BY DEF FreightAt
  <2>3. Age(FieldAt(M, c.batch, "state", "ABSENT"), FreightAt(M, c.batch), ReviewAt(M, c.batch))
          = Age(FieldAt(L, c.batch, "state", "ABSENT"), FreightAt(L, c.batch),
                ReviewAt(L, c.batch)) + 1
    BY <2>1, <2>2, OlderByOne
  <2> QED BY <1>1, <1>2, <2>3 DEF AgedIn
<1> QED BY <1>3, <1>4 DEF AgedIn

\* Where there is a batch there is a configuration, and what a reported batch is to be
\* evaluated from names it, its purchase and its cost.
Offerable(L, b) ==
  LET e   == L.batchEvidence[b]
      rep == L.report[e.report]
  IN  /\ L.configuration["v1"] # None
      /\ L.batch[b].state = "RETAIL_REPORTED" =>
           /\ rep.quantity = L.batch[b].quantity
           /\ rep.purchase = e.purchase /\ rep.cost = e.freight
           /\ rep.policy = L.configuration["v1"].policy

\* So it is with every batch.
OfferableIn(L) == \A b \in BatchId : L.batch[b] # None => Offerable(L, b)

\* A mutation keeps it so.
LEMMA OfferableKept ==
  ASSUME NEW L, NEW c, NEW M, Effect(L, c, M), Sound(L), OfferableIn(L)
  PROVE  OfferableIn(M)
<1> SUFFICES ASSUME NEW b \in BatchId, M.batch[b] # None PROVE Offerable(M, b)
  BY DEF OfferableIn
<1>0. /\ Chained(L) /\ OpeningsIn(L) /\ FreightIn(L) /\ SoldIn(L) /\ EvaluatedIn(L) /\ ReviewsIn(L)
      /\ c.batch \in BatchId /\ c.fn \in Mutation /\ Accepts(L, c) /\ IsWorld(L)
      /\ M.configuration = L.configuration
  BY DEF Sound, Effect, Unconfigured
<1>1. L.configuration["v1"] # None
  BY <1>0 DEF Accepts, Mutation, Admitted
<1>2. Kept(L, M, "report") /\ Keys["report"] = ReportId
  <2>1. "report" \in Lasting /\ Keys["report"] = ReportId
    BY DEF Lasting, Table, Keys
  <2> QED BY <1>0, <2>1, RecordsKept
<1>3. ASSUME L.batch[b] # None, L.batch[b].state = "RETAIL_REPORTED",
             M.batch[b].quantity = L.batch[b].quantity,
             M.batchEvidence[b].report = L.batchEvidence[b].report,
             M.batchEvidence[b].purchase = L.batchEvidence[b].purchase,
             M.batchEvidence[b].freight = L.batchEvidence[b].freight
      PROVE  Offerable(M, b)
  <2> DEFINE k == L.batchEvidence[b].report
  <2>1. k \in ReportId /\ L.reportReference[k] = b
    BY <1>0, <1>3 DEF SoldIn, Sold
  <2>2. L.report[k] # None
    <3>1. L.reportReference[k] # None
      BY <2>1, NoneApart
    <3> QED BY <1>0, <2>1, <3>1 DEF SoldIn
  <2> HIDE DEF k
  <2>3. M.report[k] = L.report[k]
    BY <1>2, <2>1, <2>2 DEF Kept
  <2>4. Offerable(L, b)
    BY <1>3 DEF OfferableIn
  <2> QED BY <1>0, <1>3, <2>3, <2>4 DEF Offerable, k
<1>4. CASE b # c.batch
  <2>1. M.batch[b] = L.batch[b] /\ M.batchEvidence[b] = L.batchEvidence[b]
    BY <1>4 DEF Effect
  <2>2. CASE L.batch[b].state = "RETAIL_REPORTED"
    BY <1>3, <2>1, <2>2
  <2>3. CASE L.batch[b].state # "RETAIL_REPORTED"
    BY <1>0, <1>1, <2>1, <2>3 DEF Offerable
  <2> QED BY <2>2, <2>3
<1>5. CASE b = c.batch
  <2> DEFINE r == L.batch[b]
             e == L.batchEvidence[b]
             f == M.batchEvidence[b]
  <2>1. /\ M.batch[b].state = After(c.fn, r.state)
        /\ c.fn = "CreateBatch" <=> r = None
        /\ r # None => r.state \in Before(c.fn) /\ M.batch[b].quantity = r.quantity
    BY <1>5, BatchAfter
  <2>2. /\ c.fn \notin {"CreateBatch", "OfferPickup"} => f.purchase = e.purchase
        /\ c.fn \notin {"CreateBatch", "RecordFreightCost"} => f.freight = e.freight
        /\ c.fn \notin {"CreateBatch", "ReportRetailPrice"} => f.report = e.report
        /\ c.fn = "ReportRetailPrice" => f.report = c.report
    BY <1>5, RefsAfter
  <2>3. CASE c.fn = "ReportRetailPrice"
    <3>1. /\ c.report \in ReportId /\ L.lot[c.lot] = None /\ L.reportReference[c.report] = None
          /\ M.lot = [L.lot EXCEPT ![c.lot] = newLot(L, c)]
          /\ M.reportReference = [L.reportReference EXCEPT ![c.report] = c.batch]
          /\ M.report = [L.report EXCEPT ![c.report] = newReport(L, c)]
      BY <2>3, ReportGuard
    <3>2. L.report \in [ReportId -> Opt(Report)]
      BY <1>0, WorldTyped
    <3>3. M.report[c.report] = newReport(L, c)
      BY <3>1, <3>2
    <3>4. c.policy = L.configuration["v1"].policy
      BY <1>0, <2>3 DEF Accepts, CanReportRetailPrice
    <3>5. /\ newReport(L, c).quantity = r.quantity /\ newReport(L, c).policy = c.policy
          /\ newReport(L, c).purchase = e.purchase /\ newReport(L, c).cost = e.freight
      BY <1>5 DEF newReport
    <3> HIDE DEF r, e, f
    <3>6. f.report = c.report /\ f.purchase = e.purchase /\ f.freight = e.freight
          /\ M.batch[b].quantity = r.quantity
      BY <2>1, <2>2, <2>3
    <3> QED BY <1>0, <1>1, <3>3, <3>4, <3>5, <3>6 DEF Offerable, f
  <2>4. CASE c.fn \in {"EvaluatePrice", "OpenReview", "ResolveReview"}
    <3>1. r # None /\ r.state = "RETAIL_REPORTED" /\ M.batch[b].quantity = r.quantity
      BY <2>1, <2>4 DEF Before
    <3>2. f.report = e.report /\ f.purchase = e.purchase /\ f.freight = e.freight
      BY <2>2, <2>4
    <3> QED BY <1>3, <3>1, <3>2
  <2>5. CASE c.fn \notin {"ReportRetailPrice", "EvaluatePrice", "OpenReview", "ResolveReview"}
    <3>1. M.batch[b].state # "RETAIL_REPORTED"
      BY <1>0, <2>1, <2>5 DEF Before, After, Mutation, authorize
    <3> QED BY <1>0, <1>1, <3>1 DEF Offerable
  <2> QED BY <2>3, <2>4, <2>5
<1> QED BY <1>4, <1>5

-----------------------------------------------------------------------------
(* The worker's identifiers, and its request                               *)

\* What an identifier of the worker's names has been used for its own batch only.
UntakenIn(L) ==
  \A k \in DOMAIN Digest : L.evaluation[k[1]] = None =>
    L.operation[<<Regulator, Digest[k]>>] = None /\ L.anomalyReference[Digest[k]] = None

\* A client's proposal does not use one, and the worker's own evaluates its batch.
LEMMA UntakenKept ==
  ASSUME NEW L, NEW c, NEW M, Effect(L, c, M), UntakenIn(L),
         \A k \in DOMAIN Digest :
           \/ /\ c.actor = Regulator => c.op # Digest[k]
              /\ c.fn = "EvaluatePrice" => c.anomaly # Digest[k]
           \/ c.fn = "EvaluatePrice" /\ c.batch = k[1]
  PROVE  UntakenIn(M)
<1> SUFFICES ASSUME NEW k \in DOMAIN Digest, M.evaluation[k[1]] = None
             PROVE  /\ M.operation[<<Regulator, Digest[k]>>] = None
                    /\ M.anomalyReference[Digest[k]] = None
  BY DEF UntakenIn
<1> DEFINE b == k[1]
           d == Digest[k]
<1>1. /\ IsWorld(L) /\ c \in Command /\ c.batch \in BatchId
      /\ Scored(L, c, M) /\ M.operation = [L.operation EXCEPT ![<<c.actor, c.op>>] = receipt(L, c)]
  BY DEF Effect, Receipted
<1>2. b \in BatchId /\ d \in OpId \cap AnomalyId
  BY TracingAssumption
<1>3. /\ L.evaluation \in [BatchId -> Opt(Evaluation)]
      /\ L.anomalyReference \in [AnomalyId -> Opt(Evaluation)]
      /\ L.operation \in [OpKey -> Opt(Receipt)]
  BY <1>1, RecordsTyped
<1> HIDE DEF b, d
<1>4. c.fn = "EvaluatePrice" => b # c.batch
  <2> SUFFICES ASSUME c.fn = "EvaluatePrice", b = c.batch PROVE FALSE
    OBVIOUS
  <2>1. M.evaluation[b] = newEvaluation(c)
    BY <1>1, <1>3 DEF Scored, newEvaluation
  <2>2. newEvaluation(c) \in Evaluation
    BY EvaluationGuard
  <2> QED BY <2>1, <2>2, NoneApart DEF b
<1>5. L.evaluation[b] = None
  <2>1. M.evaluation[b] = L.evaluation[b]
    BY <1>1, <1>2, <1>3, <1>4 DEF Scored
  <2> QED BY <2>1 DEF b
<1>6. L.operation[<<Regulator, d>>] = None /\ L.anomalyReference[d] = None
  BY <1>5 DEF UntakenIn, b, d
<1>7. /\ c.actor = Regulator => c.op # d
      /\ c.fn = "EvaluatePrice" => c.anomaly # d
  BY <1>4 DEF b, d
<1>8. M.operation[<<Regulator, d>>] = None
  <2>1. <<c.actor, c.op>> # <<Regulator, d>>
    BY <1>7
  <2>2. <<Regulator, d>> \in OpKey
    BY <1>2 DEF OpKey, Member
  <2> QED BY <1>1, <1>3, <1>6, <2>1, <2>2
<1>9. M.anomalyReference[d] = None
  BY <1>1, <1>2, <1>3, <1>6, <1>7 DEF Scored
<1> QED BY <1>8, <1>9 DEF d

\* What the ledger holds that the worker relies on.
Relied(L) == AgedIn(L) /\ OfferableIn(L) /\ UntakenIn(L)

\* The prices of an evaluation are those of its records, so that the worker and the
\* engine score the same; one request for what the ledger has is let in.
LEMMA RequestStands ==
  ASSUME Good, Relied(world), Staged, task # None, NEW b, b = task.batch,
         task.version = version(world, b), world.evaluation[b] = None,
         world.batch[b] # None, world.batch[b].state = "RETAIL_REPORTED",
         task.report = world.batchEvidence[b].report
  PROVE  Accepts(world, request(task))
<1> DEFINE c    == request(task)
           k    == <<b, task.version>>
           r    == world.batch[b]
           e    == world.batchEvidence[b]
           buy  == world.tradeOpening[e.purchase]
           rep  == world.report[e.report]
           cost == world.cost[e.freight]
           cfg  == world.configuration["v1"]
<1>1. /\ IsWorld(world) /\ PairedIn(world) /\ b \in BatchId /\ k \in DOMAIN Digest
      /\ PurchasedIn(world) /\ FreightIn(world) /\ SoldIn(world)
  BY DEF Good, IInv, TypeOK, Paired, Ledger, Sound, Staged
<1>2. Offerable(world, b)
  BY <1>1 DEF Relied, OfferableIn
<1>3. /\ c.fn = "EvaluatePrice" /\ c.actor = Regulator /\ c.role = "oracle"
      /\ c.op = Digest[k] /\ c.anomaly = Digest[k]
      /\ c.batch = b /\ c.expected = task.version /\ c.report = task.report
      /\ c.proposed = proposal(b) /\ c.docs = {}
  BY RequestFields DEF operation
<1> HIDE DEF c
<1>4. e.purchase \in DocId /\ e.purchase # None /\ buy # None /\ buy.quantity = r.quantity
  BY <1>1 DEF PurchasedIn, Purchased
<1>5. /\ e.freight \in CostId /\ e.freight # None /\ cost # None /\ cost.quantity = r.quantity
      /\ cost.batch = b
  <2>1. /\ e.freight \in CostId /\ e.freight # None /\ cost # None /\ cost.quantity = r.quantity
        /\ world.costReference[e.freight] = b
    BY <1>1 DEF FreightIn, Freighted, AtRetailer
  <2>2. world.costReference[e.freight] # None
    BY <1>1, <2>1, NoneApart
  <2> QED BY <1>1, <2>1, <2>2 DEF FreightIn
<1>6. e.report \in ReportId /\ e.report # None /\ rep # None /\ rep.batch = b
  <2>1. e.report \in ReportId /\ e.report # None /\ world.reportReference[e.report] = b
    BY <1>1 DEF SoldIn, Sold
  <2>2. world.reportReference[e.report] # None
    BY <1>1, <2>1, NoneApart
  <2> QED BY <1>1, <2>1, <2>2 DEF SoldIn
<1>7. /\ cfg # None /\ rep.quantity = r.quantity /\ rep.purchase = e.purchase
      /\ rep.cost = e.freight /\ rep.policy = cfg.policy
  BY <1>2 DEF Offerable
<1>8. buy \in Purchase /\ rep \in Report /\ cost \in Cost /\ cfg \in Configuration
  <2>1. buy \in Opt(Purchase) /\ rep \in Opt(Report) /\ cost \in Opt(Cost) /\ cfg \in Opt(Configuration)
    BY <1>1, <1>4, <1>5, <1>6, WorldTyped
  <2> QED BY <1>4, <1>5, <1>6, <1>7, <2>1 DEF Opt
<1> HIDE DEF buy, rep, cost, cfg, r, e, k
<1>9. /\ Accepted(buy.price, rep.price, cfg.threshold)
      /\ buy.price \in Int /\ rep.price \in Int /\ cfg.threshold \in Int
  BY <1>8, PriceAssumption DEF Purchase, Report, Configuration, Accepted
<1>10. c.proposed = Rederived(world, c)
  <2>1. proposal(b) = score(buy.price, rep.price, cfg.threshold)
    BY DEF proposal, buy, rep, cfg, e
  <2>2. Rederived(world, c) = priceScore(buy.price, rep.price, cfg.threshold)
    BY <1>3 DEF Rederived, buy, rep, cfg, e
  <2> QED BY <1>3, <1>9, <2>1, <2>2, ScoresAgree
<1>11. world.operation[<<Regulator, Digest[k]>>] = None /\ world.anomalyReference[Digest[k]] = None
  <2>1. k[1] = b
    BY DEF k
  <2> QED BY <1>1, <2>1 DEF Relied, UntakenIn
<1>12. version(world, b) # MaxVersion
  <2>1. /\ FieldAt(world, b, "state", "ABSENT") = "RETAIL_REPORTED"
        /\ ReviewAt(world, b) = "NONE" /\ FreightAt(world, b) \in BOOLEAN
    BY DEF FieldAt, ReviewAt, FreightAt
  <2>2. version(world, b) = Age("RETAIL_REPORTED", FreightAt(world, b), "NONE")
    BY <1>1, <2>1 DEF Relied, AgedIn
  <2>3. MaxVersion > 7 /\ MaxVersion \in Nat
    BY WorkerAssumption, EngineAssumption
  <2> QED BY <2>2, <2>3 DEF Age
<1>13. Evidenced(world, c, quantity(world, c))
  <2>1. /\ {d.type : d \in c.docs} = {} /\ required(c.fn) = {} /\ Cardinality({}) = 0
    BY <1>3, FS_EmptySet DEF required
  <2>2. Uses(c) = {} /\ Nonces(c) = {}
    BY <1>3 DEF Uses, Nonces
  <2> QED BY <1>3, <2>1, <2>2 DEF Evidenced, Unused, UnusedDocuments, DistinctInBundle
<1>14. Admitted(world, c)
  <2>1. authorize[c.fn] = <<c.actor, c.role>>
    BY <1>3 DEF authorize
  <2>2. ExpectedVersion(world, c)
    BY <1>3, <1>12 DEF ExpectedVersion, UpToDate
  <2>3. FreshOperation(world, c)
    BY <1>3, <1>11 DEF FreshOperation
  <2> QED BY <1>3, <1>7, <1>13, <2>1, <2>2, <2>3 DEF Admitted, cfg
<1>15. CanEvaluatePrice(world, c)
  <2>1. NotEvaluated(world, c)
    BY <1>3, <1>11 DEF NotEvaluated, NoEvaluation, FreshAnomaly
  <2>2. 0 <= cost.total /\ cost.total <= MaxTotal
    BY <1>8, EngineAssumption DEF Cost, Total
  <2>3. {buy.quantity, rep.quantity, cost.quantity} = {r.quantity}
    BY <1>4, <1>5, <1>7
  <2>4. world.batch[c.batch] = r /\ world.batchEvidence[c.batch] = e /\ c.report = e.report
        /\ r.state = "RETAIL_REPORTED"
    BY <1>3 DEF r, e
  <2> QED BY <1>3, <1>4, <1>5, <1>6, <1>7, <1>9, <1>10, <2>1, <2>2, <2>3, <2>4
          DEF CanEvaluatePrice, buy, rep, cost, cfg
<1> QED BY <1>3, <1>14, <1>15 DEF Accepts, c

-----------------------------------------------------------------------------
(* FreshRequestsStand                                                      *)

\* A staged evaluation is of a reported batch, and names its report.
Tasked ==
  task # None =>
    /\ world.batch[task.batch] # None /\ world.batch[task.batch].state = "RETAIL_REPORTED"
    /\ task.report = world.batchEvidence[task.batch].report

\* Together with what is traced and shown, the invariant of FreshRequestsStand.
Standing == Relied(world) /\ Tasked

\* A proposal of a client or of the worker.
Proposing(c) ==
  /\ c \in Command
  /\ \/ c \in Proposal
     \/ task # None /\ c = request(task)

\* The ledger stays what the worker relies on, and so does what it has staged.
LEMMA ReliedKept ==
  ASSUME Traced, Standing, NEW c, Proposing(c), Invoke(c)
  PROVE  /\ Relied(world')
         /\ \A b \in BatchId : world.batch[b] # None /\ world.batch[b].state = "RETAIL_REPORTED" =>
              /\ world'.batch[b] # None /\ world'.batch[b].state = "RETAIL_REPORTED"
              /\ world'.batchEvidence[b].report = world.batchEvidence[b].report
<1>0. /\ c \in Command /\ IInv /\ Sound(world) /\ CustodiedIn(world)
      /\ AgedIn(world) /\ OfferableIn(world) /\ UntakenIn(world)
  BY DEF Proposing, Traced, Good, Ledger, Custodied, Standing, Relied
<1>1. CASE c.fn = "Bootstrap"
  <2>1. Accepts(world, c) /\ IsWorld(world) /\ world' = flush(world, Plan(world, c))
    BY <1>0 DEF Invoke, IInv, TypeOK
  <2>2. \A t \in Table \ {"configuration", "policy", "sourceKey"} : world'[t] = world[t]
    BY <1>1, <2>1, BootstrapEffect
  <2>3. /\ world'.batch = world.batch /\ world'.batchEvidence = world.batchEvidence
        /\ world'.evaluation = world.evaluation /\ world'.anomaly = world.anomaly
        /\ world'.operation = world.operation /\ world'.anomalyReference = world.anomalyReference
    BY <2>2 DEF Table, Keys
  <2>4. AgedIn(world')
    <3> SUFFICES ASSUME NEW b \in BatchId
                 PROVE  version(world', b) = Age(FieldAt(world', b, "state", "ABSENT"),
                                                 FreightAt(world', b), ReviewAt(world', b))
      BY DEF AgedIn
    <3>1. /\ version(world', b) = version(world, b)
          /\ FieldAt(world', b, "state", "ABSENT") = FieldAt(world, b, "state", "ABSENT")
          /\ FreightAt(world', b) = FreightAt(world, b)
          /\ ReviewAt(world', b) = ReviewAt(world, b)
      BY <2>3 DEF version, FieldAt, FreightAt, ReviewAt
    <3> QED BY <1>0, <3>1 DEF AgedIn
  <2>5. OfferableIn(world')
    <3>1. world.configuration["v1"] = None
      BY <1>1, <2>1 DEF Accepts, CanBootstrap
    <3>2. \A b \in BatchId : world.batch[b] = None
      BY <1>0, <3>1 DEF OfferableIn, Offerable
    <3> QED BY <2>3, <3>2 DEF OfferableIn
  <2>6. UntakenIn(world')
    BY <1>0, <2>3 DEF UntakenIn
  <2> QED BY <2>3, <2>4, <2>5, <2>6 DEF Relied
<1>2. CASE c.fn # "Bootstrap"
  <2>1. Effect(world, c, world')
    BY <1>0, <1>2, Mutates
  <2>2. ASSUME NEW k \in DOMAIN Digest
        PROVE  \/ /\ c.actor = Regulator => c.op # Digest[k]
                  /\ c.fn = "EvaluatePrice" => c.anomaly # Digest[k]
               \/ c.fn = "EvaluatePrice" /\ c.batch = k[1]
    <3>1. CASE c \in Proposal
      BY <3>1, WorkerAssumption
    <3>2. CASE task # None /\ c = request(task)
      <4> DEFINE j == <<task.batch, task.version>>
      <4>1. /\ c.fn = "EvaluatePrice" /\ c.op = Digest[j] /\ c.anomaly = Digest[j]
            /\ c.batch = task.batch
        BY <3>2, RequestFields DEF operation
      <4>2. j \in DOMAIN Digest /\ j[1] = task.batch
        BY <3>2 DEF Traced, Staged
      <4> HIDE DEF j
      <4>3. CASE j = k
        BY <4>1, <4>2, <4>3
      <4>4. CASE j # k
        <5>1. Digest[j] # Digest[k]
          BY <4>2, <4>4, TracingAssumption
        <5> QED BY <4>1, <5>1
      <4> QED BY <4>3, <4>4
    <3> QED BY <3>1, <3>2 DEF Proposing
  <2>3. Relied(world')
    <3>1. AgedIn(world')
      BY <1>0, <2>1, AgesKept
    <3>2. OfferableIn(world')
      BY <1>0, <2>1, OfferableKept
    <3>3. UntakenIn(world')
      BY <1>0, <2>1, <2>2, UntakenKept
    <3> QED BY <3>1, <3>2, <3>3 DEF Relied
  <2>4. ASSUME NEW b \in BatchId, world.batch[b] # None, world.batch[b].state = "RETAIL_REPORTED"
        PROVE  /\ world'.batch[b] # None /\ world'.batch[b].state = "RETAIL_REPORTED"
               /\ world'.batchEvidence[b].report = world.batchEvidence[b].report
    <3>1. CASE b # c.batch
      <4>1. world'.batch[b] = world.batch[b] /\ world'.batchEvidence[b] = world.batchEvidence[b]
        BY <2>1, <3>1 DEF Effect
      <4> QED BY <2>4, <4>1
    <3>2. CASE b = c.batch
      <4>1. /\ world'.batch[b] # None /\ world'.batch[b].state = After(c.fn, world.batch[b].state)
            /\ c.fn # "CreateBatch" /\ world.batch[b].state \in Before(c.fn)
        BY <2>1, <2>4, <3>2, BatchAfter
      <4>2. /\ c.fn \notin {"CreateBatch", "ReportRetailPrice"} =>
                 world'.batchEvidence[b].report = world.batchEvidence[b].report
        BY <2>1, <3>2, RefsAfter
      <4>3. c.fn \in Mutation
        BY <2>1 DEF Effect
      <4>4. c.fn \in {"EvaluatePrice", "OpenReview", "ResolveReview"}
        BY <2>4, <4>1, <4>3 DEF Before, Mutation, authorize
      <4> QED BY <2>4, <4>1, <4>2, <4>4 DEF After
    <3> QED BY <3>1, <3>2
  <2> QED BY <2>3, <2>4
<1> QED BY <1>1, <1>2

\* A lot on a page is that of a reported batch.
LEMMA PageReported ==
  ASSUME Traced, Showing, NEW b \in BatchId, page[b] # None, page[b].lot # None
  PROVE  world.batch[b] # None /\ world.batch[b].state = "RETAIL_REPORTED"
<1> DEFINE S == StoredOf(b)
           p == page[b]
<1>1. Counted(p, chain, S) /\ S \subseteq P!Of(chain, b)
  BY DEF Showing, Paging, StoredOf, P!Of
<1>2. Recounted(chain, world, b) /\ SoldIn(world)
  BY DEF Traced, Recounting, Recounts, Good, Ledger, Sound
<1> HIDE DEF S, p
<1>3. PICK i \in S : chain[i].lot = p.lot
  BY <1>1 DEF Counted, p
<1>4. p.lot = FieldAt(world, b, "lot", None)
  BY <1>1, <1>2, <1>3 DEF Recounted, p
<1>5. world.batch[b] # None /\ world.batch[b].lot # None
  BY <1>4 DEF FieldAt, p
<1> QED BY <1>2, <1>5 DEF SoldIn, Sold

\* Every step keeps it.
LEMMA StandingKept ==
  ASSUME Traced, Showing, Standing, [TracingNext]_allVars
  PROVE  Standing'
<1>1. ASSUME NEW c, Proposing(c), Commit(c), task' = task \/ task' = None PROVE Standing'
  <2>1. Invoke(c)
    BY <1>1 DEF Commit
  <2>2. Relied(world')
    BY <1>1, <2>1, ReliedKept
  <2>3. Tasked'
    <3> SUFFICES ASSUME task # None, task' = task
                 PROVE  /\ world'.batch[task.batch] # None
                        /\ world'.batch[task.batch].state = "RETAIL_REPORTED"
                        /\ task.report = world'.batchEvidence[task.batch].report
      BY <1>1 DEF Tasked
    <3>1. task.batch \in BatchId
      BY DEF Traced, Staged
    <3>2. /\ world.batch[task.batch] # None /\ world.batch[task.batch].state = "RETAIL_REPORTED"
          /\ task.report = world.batchEvidence[task.batch].report
      BY DEF Standing, Tasked
    <3> QED BY <1>1, <2>1, <3>1, <3>2, ReliedKept
  <2> QED BY <2>2, <2>3 DEF Standing
<1>2. ASSUME world' = world, task' = task \/ task' = None PROVE Standing'
  BY <1>2 DEF Standing, Tasked
<1>3. CASE Client
  <2>1. PICK c \in Proposal : Commit(c)
    BY <1>3 DEF Client
  <2>2. Proposing(c)
    BY ProposalAssumption DEF Proposing
  <2> QED BY <1>1, <1>3, <2>1, <2>2 DEF Client, worker
<1>4. CASE Evaluate
  <2>1. task # None /\ Commit(request(task)) /\ task' = None
    BY <1>4 DEF Evaluate
  <2>2. Accepts(world, request(task))
    BY <2>1 DEF Commit, Invoke
  <2>3. Proposing(request(task))
    BY <2>1, <2>2, RequestTyped DEF Traced, Proposing
  <2> QED BY <1>1, <2>1, <2>3
<1>5. CASE \E b \in BatchId : Pick(b)
  <2>1. PICK b \in BatchId : Pick(b)
    BY <1>5
  <2>2. /\ page[b] # None /\ page[b].lot # None /\ world' = world
        /\ task'.batch = b /\ task'.report = world.batchEvidence[b].report
    BY <2>1 DEF Pick, ledger
  <2>3. world.batch[b] # None /\ world.batch[b].state = "RETAIL_REPORTED"
    BY <2>2, PageReported
  <2> QED BY <2>2, <2>3 DEF Standing, Tasked
<1>6. CASE Project \/ Refused \/ UNCHANGED allVars
  BY <1>2, <1>6 DEF Project, Refused, allVars, ledger, worker
<1> QED BY <1>3, <1>4, <1>5, <1>6 DEF TracingNext, Reconcile

\* A request of the worker that is up to date and not too late is accepted, whatever
\* the prices are and whoever else evaluates (Analysis.proposal, analysis.go).
THEOREM FreshRequestsAccepted == TracingSpec => []FreshRequestsStand
<1>1. TracingInit => Standing
  <2> SUFFICES ASSUME TracingInit PROVE Standing
    OBVIOUS
  <2>1. Init /\ task = None
    BY DEF TracingInit
  <2>2. ASSUME NEW b \in BatchId
        PROVE  world.batch[b] = None /\ world.batchEvidence[b] = None /\ world.evaluation[b] = None
    BY <2>1 DEF Init, EmptyWorld, Table, Keys
  <2>3. AgedIn(world)
    <3> SUFFICES ASSUME NEW b \in BatchId
                 PROVE  version(world, b) = Age(FieldAt(world, b, "state", "ABSENT"),
                                                FreightAt(world, b), ReviewAt(world, b))
      BY DEF AgedIn
    <3> QED BY <2>2 DEF version, FieldAt, FreightAt, ReviewAt, Age
  <2>4. OfferableIn(world)
    BY <2>2 DEF OfferableIn
  <2>5. UntakenIn(world)
    <3> SUFFICES ASSUME NEW k \in DOMAIN Digest
                 PROVE  /\ world.operation[<<Regulator, Digest[k]>>] = None
                        /\ world.anomalyReference[Digest[k]] = None
      BY DEF UntakenIn
    <3>1. Digest[k] \in AnomalyId /\ <<Regulator, Digest[k]>> \in OpKey
      BY TracingAssumption DEF OpKey, Member
    <3>2. /\ world.operation = [i \in OpKey |-> None]
          /\ world.anomalyReference = [i \in AnomalyId |-> None]
      BY <2>1 DEF Init, EmptyWorld, Table, Keys
    <3> QED BY <3>1, <3>2
  <2> QED BY <2>1, <2>3, <2>4, <2>5 DEF Standing, Relied, Tasked
<1>2. Traced /\ Showing /\ Standing /\ [TracingNext]_allVars => Standing'
  BY StandingKept
<1>3. Traced /\ Standing => FreshRequestsStand
  <2> SUFFICES ASSUME Traced, Standing, task # None,
                      task.version = version(world, task.batch), world.evaluation[task.batch] = None
               PROVE  Accepts(world, request(task))
    BY DEF FreshRequestsStand
  <2>1. Good /\ Staged /\ Relied(world)
    BY DEF Traced, Standing
  <2>2. /\ world.batch[task.batch] # None /\ world.batch[task.batch].state = "RETAIL_REPORTED"
        /\ task.report = world.batchEvidence[task.batch].report
    BY DEF Standing, Tasked
  <2> QED BY <2>1, <2>2, RequestStands
<1> QED BY <1>1, <1>2, <1>3, TracedAlways, ShowingAlways, PTL DEF TracingSpec

-----------------------------------------------------------------------------
(* Queries: what a history tells                                           *)

\* The receipts of batch b, in its history, of the functions fns.
ReceiptsIn(L, b, fns) == {n \in 1..version(L, b) : L.history[<<b, n>>].fn \in fns}

\* How many reviews a state of review tells of.
ReviewsAt(rv) == CASE rv = "IN_REVIEW" -> 1 [] rv = "RESOLVED" -> 2 [] OTHER -> 0

\* What the history of batch b says was recorded is there, and nothing else.
Storied(L, b) ==
  LET refs == L.batchEvidence[b]
      told(fn) == ReceiptsIn(L, b, {fn}) # {}
      S == ReceiptsIn(L, b, Reviews)
  IN  /\ L.batch[b] # None =>
           /\ told("OfferPickup") <=> (refs.purchase # None)
           /\ told("RecordFreightCost") <=> (refs.freight # None)
           /\ told("ReportRetailPrice") <=> (refs.report # None)
      /\ told("EvaluatePrice") <=> (L.evaluation[b] # None)
      /\ IsFiniteSet(S) /\ Cardinality(S) = ReviewsAt(ReviewAt(L, b))

\* So it is with every batch.
StoriedIn(L) == \A b \in BatchId : Storied(L, b)

\* A mutation adds its own receipt to the history of its batch.
LEMMA ReceiptsAfter ==
  ASSUME NEW L, NEW c, NEW M, Effect(L, c, M), NEW fns
  PROVE  LET n == version(L, c.batch) + 1
             S == ReceiptsIn(L, c.batch, fns)
         IN  /\ n \notin S
             /\ ReceiptsIn(M, c.batch, fns) = IF c.fn \in fns THEN S \cup {n} ELSE S
<1> DEFINE v == version(L, c.batch)
           n == v + 1
           S == ReceiptsIn(L, c.batch, fns)
           h == receipt(L, c)
<1>1. /\ v \in Nat /\ n \in 1..MaxVersion /\ version(M, c.batch) = n
  BY VersionsAfter
<1>2. M.history = [L.history EXCEPT ![<<c.batch, n>>] = h] /\ h.fn = c.fn
  BY DEF Effect, Receipted, receipt
<1>3. DOMAIN L.history = BatchId \X (1..MaxVersion) /\ c.batch \in BatchId
  <2>1. L.history \in [BatchId \X (1..MaxVersion) -> Opt(Receipt)]
    BY RecordsTyped DEF Effect
  <2> QED BY <2>1 DEF Effect
<1> HIDE DEF v, h
<1>4. M.history[<<c.batch, n>>].fn = c.fn
  BY <1>1, <1>2, <1>3
<1>5. \A i \in 1..v : M.history[<<c.batch, i>>] = L.history[<<c.batch, i>>]
  BY <1>1, <1>2, <1>3
<1>7. n \notin S
  BY <1>1 DEF ReceiptsIn, v
<1>8. 1..n = (1..v) \cup {n}
  BY <1>1
<1> HIDE DEF n
<1>9. S = {i \in 1..v : L.history[<<c.batch, i>>].fn \in fns}
  BY DEF ReceiptsIn, v
<1>10. ReceiptsIn(M, c.batch, fns) = {i \in (1..v) \cup {n} : M.history[<<c.batch, i>>].fn \in fns}
  BY <1>1, <1>8 DEF ReceiptsIn
<1> HIDE DEF S
<1>11. ReceiptsIn(M, c.batch, fns) = IF c.fn \in fns THEN S \cup {n} ELSE S
  BY <1>4, <1>5, <1>9, <1>10
<1> QED BY <1>7, <1>11 DEF S, n, v

\* It leaves the other batches' histories.
LEMMA HistoriesStay ==
  ASSUME NEW L, NEW c, NEW M, Effect(L, c, M), NEW b \in BatchId, b # c.batch, NEW fns
  PROVE  ReceiptsIn(M, b, fns) = ReceiptsIn(L, b, fns)
<1>1. version(M, b) = version(L, b)
  BY VersionsAfter
<1>2. L.history \in [BatchId \X (1..MaxVersion) -> Opt(Receipt)]
  BY RecordsTyped DEF Effect
<1>3. \E i : M.history = [L.history EXCEPT ![<<c.batch, i>>] = receipt(L, c)]
  BY DEF Effect, Receipted
<1>4. \A i : M.history[<<b, i>>] = L.history[<<b, i>>]
  BY <1>2, <1>3
<1> QED BY <1>1, <1>4 DEF ReceiptsIn

\* A mutation is told of by its receipt, and by what it records.
LEMMA StoriedKept ==
  ASSUME NEW L, NEW c, NEW M, Effect(L, c, M), CustodiedIn(L), Sound(L), StoriedIn(L)
  PROVE  StoriedIn(M)
<1>1. /\ c.fn \in Mutation /\ c.batch \in BatchId /\ IsWorld(L) /\ c \in Command
      /\ EvaluatedIn(L) /\ ReviewsIn(L)
      /\ \A b \in BatchId \ {c.batch} : /\ M.batch[b] = L.batch[b]
                                       /\ M.batchEvidence[b] = L.batchEvidence[b]
  BY DEF Effect, Sound
<1>2. L.evaluation \in [BatchId -> Opt(Evaluation)]
  BY <1>1, RecordsTyped
<1>3. ASSUME NEW b \in BatchId, b # c.batch PROVE Storied(M, b)
  <2>1. Storied(L, b)
    BY DEF StoriedIn
  <2>2. ASSUME NEW fns PROVE ReceiptsIn(M, b, fns) = ReceiptsIn(L, b, fns)
    BY <1>3, HistoriesStay
  <2>3. M.batch[b] = L.batch[b] /\ M.batchEvidence[b] = L.batchEvidence[b]
    BY <1>1, <1>3
  <2>4. M.evaluation[b] = L.evaluation[b]
    BY <1>2, <1>3 DEF Effect, Scored
  <2>5. ReviewAt(M, b) = ReviewAt(L, b)
    BY <1>1, <1>3, OthersLive DEF SameLife
  <2> QED BY <2>1, <2>2, <2>3, <2>4, <2>5 DEF Storied
<1>4. Storied(M, c.batch)
  <2> DEFINE b == c.batch
             e == L.batchEvidence[b]
             f == M.batchEvidence[b]
             n == version(L, b) + 1
             S == ReceiptsIn(L, b, Reviews)
             T == ReceiptsIn(M, b, Reviews)
             rv == ReviewAt(L, b)
             rm == ReviewAt(M, b)
  <2>1. Storied(L, b)
    BY <1>1 DEF StoriedIn
  <2>2. ASSUME NEW fn
        PROVE  ReceiptsIn(M, b, {fn}) # {} <=> ReceiptsIn(L, b, {fn}) # {} \/ c.fn = fn
    <3>1. ReceiptsIn(M, b, {fn}) = IF c.fn \in {fn} THEN ReceiptsIn(L, b, {fn}) \cup {n}
                                   ELSE ReceiptsIn(L, b, {fn})
      BY ReceiptsAfter
    <3> HIDE DEF n, b
    <3> QED BY <3>1
  <2>3. (L.batch[b] = None) <=> (c.fn = "CreateBatch")
    BY BatchAfter
  <2>4. L.batch[b] = None => \A fns : ReceiptsIn(L, b, fns) = {}
    BY DEF ReceiptsIn, version
  <2>5. /\ f.purchase = IF c.fn = "CreateBatch" THEN None
                        ELSE IF c.fn = "OfferPickup" THEN Doc(c, "PURCHASE_INVOICE").id
                        ELSE e.purchase
        /\ f.freight = IF c.fn = "CreateBatch" THEN None
                       ELSE IF c.fn = "RecordFreightCost" THEN c.cost ELSE e.freight
        /\ f.report = IF c.fn = "CreateBatch" THEN None
                      ELSE IF c.fn = "ReportRetailPrice" THEN c.report ELSE e.report
    BY RefsAfter
  <2>6. /\ c.fn = "OfferPickup" => Doc(c, "PURCHASE_INVOICE").id # None
        /\ c.cost # None /\ c.report # None
    <3>1. c.cost \in CostId /\ c.report \in ReportId
      BY <1>1, CommandTyped
    <3>2. c.fn = "OfferPickup" => Doc(c, "PURCHASE_INVOICE").id \in DocId
      BY PurchaseGuard
    <3> QED BY <3>1, <3>2, NoneApart
  <2>7. (M.evaluation[b] # None) <=> (L.evaluation[b] # None \/ c.fn = "EvaluatePrice")
    <3>1. CASE c.fn = "EvaluatePrice"
      <4>1. M.evaluation = [L.evaluation EXCEPT ![c.batch] = newEvaluation(c)]
        BY <3>1 DEF Effect, Scored, newEvaluation
      <4>2. newEvaluation(c) # None
        BY <3>1, EvaluationGuard, NoneApart
      <4> QED BY <1>1, <1>2, <3>1, <4>1, <4>2
    <3>2. CASE c.fn # "EvaluatePrice"
      BY <3>2 DEF Effect, Scored
    <3> QED BY <3>1, <3>2
  <2>8. /\ n \notin S /\ T = IF c.fn \in Reviews THEN S \cup {n} ELSE S
    BY ReceiptsAfter
  <2>9. /\ c.fn = "OpenReview" => rv = "OPEN" /\ rm = "IN_REVIEW"
        /\ c.fn = "ResolveReview" => rv = "IN_REVIEW" /\ rm = "RESOLVED"
        /\ c.fn = "EvaluatePrice" => rv = "NONE" /\ rm \in {"NOT_REQUIRED", "OPEN"}
        /\ c.fn \notin {"OpenReview", "ResolveReview", "EvaluatePrice"} => rm = rv
    BY <1>1, BatchMoves DEF Moving
  <2>10. IsFiniteSet(S) /\ Cardinality(S) = ReviewsAt(rv) /\ ReviewsAt(rv) \in Nat
    BY <2>1 DEF Storied, ReviewsAt
  <2>11. IsFiniteSet(T) /\ Cardinality(T) = ReviewsAt(rm)
    <3> DEFINE k == ReviewsAt(rv)
               p == c.fn \in Reviews
    <3>1. ReviewsAt(rm) = k + (IF p THEN 1 ELSE 0)
      BY <2>9 DEF ReviewsAt, Reviews
    <3>2. p \in BOOLEAN /\ k \in Nat /\ Cardinality(S) = k
      BY <2>10
    <3> HIDE DEF S, T, n, k, p
    <3>3. T = IF p THEN S \cup {n} ELSE S
      BY <2>8 DEF p
    <3>4. IsFiniteSet(T) /\ Cardinality(T) = k + (IF p THEN 1 ELSE 0)
      BY <2>8, <2>10, <3>2, <3>3, CountsOneMore
    <3> QED BY <3>1, <3>4
  <2>12. ASSUME M.batch[b] # None
         PROVE  /\ ReceiptsIn(M, b, {"OfferPickup"}) # {} <=> (f.purchase # None)
                /\ ReceiptsIn(M, b, {"RecordFreightCost"}) # {} <=> (f.freight # None)
                /\ ReceiptsIn(M, b, {"ReportRetailPrice"}) # {} <=> (f.report # None)
    <3>1. CASE L.batch[b] = None
      <4>1. c.fn = "CreateBatch" /\ \A fns : ReceiptsIn(L, b, fns) = {}
        BY <2>3, <2>4, <3>1
      <4> HIDE DEF b, f, e
      <4> QED BY <2>2, <2>5, <4>1
    <3>2. CASE L.batch[b] # None
      <4>1. /\ ReceiptsIn(L, b, {"OfferPickup"}) # {} <=> (e.purchase # None)
            /\ ReceiptsIn(L, b, {"RecordFreightCost"}) # {} <=> (e.freight # None)
            /\ ReceiptsIn(L, b, {"ReportRetailPrice"}) # {} <=> (e.report # None)
        BY <2>1, <3>2 DEF Storied
      <4>2. c.fn # "CreateBatch"
        BY <2>3, <3>2
      <4> HIDE DEF b, f, e
      <4> QED BY <2>2, <2>5, <2>6, <4>1, <4>2
    <3> QED BY <3>1, <3>2
  <2>13. ReceiptsIn(M, b, {"EvaluatePrice"}) # {} <=> (M.evaluation[b] # None)
    <3>1. ReceiptsIn(L, b, {"EvaluatePrice"}) # {} <=> (L.evaluation[b] # None)
      BY <2>1 DEF Storied
    <3> HIDE DEF b
    <3> QED BY <2>2, <2>7, <3>1
  <2> QED BY <2>11, <2>12, <2>13 DEF Storied
<1> QED BY <1>3, <1>4 DEF StoriedIn

-----------------------------------------------------------------------------
(* The access rules and the private records                                *)

\* For whoever may call queries at all, the three tables of access rules agree.
LEMMA AccessAgrees ==
  ASSUME NEW m \in Member, NEW r \in queryRole[m], NEW fn \in DOMAIN PrivateQuery
  PROVE  LET may == mayRead(m, r, PrivateQuery[fn])
         IN  /\ fn \in DOMAIN kindOf => (commercial(m, r, kindOf[fn]) <=> may)
             /\ may => m \in CollectionMember[PrivateQuery[fn]]
<1> USE DEF mayRead, commercial, Producer, Logistics, Retailer, Regulator, Trade, Freight, Audit
<1>1. /\ m = Producer => r = "producer"
      /\ m = Logistics => r = "carrier"
      /\ m = Retailer => r = "retailer"
      /\ m = Regulator => r \in {"reviewer", "auditor", "oracle", "public-reader"}
      /\ m \in {Producer, Logistics, Retailer, Regulator}
  BY DEF queryRole, Member
<1>2. CASE fn = "GetPurchase"
  <2>1. PrivateQuery[fn] = Trade /\ kindOf[fn] = "purchase"
    BY <1>2 DEF PrivateQuery, kindOf
  <2>2. CollectionMember[Trade] = {Producer, Retailer, Regulator}
    BY DEF CollectionMember
  <2> QED BY <1>1, <2>1, <2>2
<1>3. CASE fn = "GetFreightCost"
  <2>1. PrivateQuery[fn] = Freight /\ kindOf[fn] = "freight"
    BY <1>3 DEF PrivateQuery, kindOf
  <2>2. CollectionMember[Freight] = {Logistics, Retailer, Regulator}
    BY DEF CollectionMember
  <2> QED BY <1>1, <2>1, <2>2
<1>4. CASE fn \in {"GetRetailReport", "GetAnomaly", "GetReviewHistory"}
  <2>1. PrivateQuery[fn] = Audit
    BY <1>4 DEF PrivateQuery
  <2>2. CollectionMember[Audit] = {Retailer, Regulator}
    BY DEF CollectionMember
  <2>3. fn \in DOMAIN kindOf => kindOf[fn] = "retail"
    BY <1>4 DEF kindOf
  <2> QED BY <1>1, <2>1, <2>2, <2>3
<1> QED BY <1>2, <1>3, <1>4 DEF PrivateQuery

\* And so they do for the documents of the archive.
LEMMA DocumentsAgree ==
  ASSUME NEW m \in Member, NEW r \in queryRole[m], NEW type \in DocType
  PROVE  commercial(m, r, documentKind(type)) <=> mayRead(m, r, openingCollection(type))
<1>1. /\ m = Producer => r = "producer"
      /\ m = Logistics => r = "carrier"
      /\ m = Retailer => r = "retailer"
      /\ m = Regulator => r \in {"reviewer", "auditor", "oracle", "public-reader"}
      /\ m \in {Producer, Logistics, Retailer, Regulator}
  BY DEF queryRole, Member, Producer, Logistics, Retailer, Regulator
<1> QED BY <1>1 DEF documentKind, openingCollection, mayRead, commercial, Producer, Logistics,
                    Retailer, Regulator, Trade, Freight, Audit

\* What the answer a to query fn shows of batch b.
Shown(a, fn, b) ==
  CASE fn = "GetPurchase" -> a.value.quantity = world.batch[b].quantity
    [] fn = "GetReviewHistory" ->
         Cardinality(a.value) = Cardinality(Receipts(b, {"OpenReview", "ResolveReview"}))
    [] OTHER -> a.value.batch = b

\* An answer to query fn, as the history of the batch has it.
Serves(a, fn, b) ==
  /\ a.code # "PRIVATE_DATA_ACCESS_DENIED"
  /\ (a.code = "OK") <=> (Receipts(b, {Source[fn]}) # {})
  /\ a.code = "OK" => Shown(a, fn, b)

\* A private record is served or is not there; the collection is no obstacle.
LEMMA LoadedOrNot ==
  ASSUME NEW table, NEW key
  PROVE  LET a == privateLoad(table, key)
         IN  /\ a.code # "PRIVATE_DATA_ACCESS_DENIED"
             /\ (a.code = "OK") <=> (key # None /\ world[table][key] # None)
             /\ a.code = "OK" => a.value = world[table][key]
BY DEF privateLoad, answer, refusal

\* The three private records are served as the history has them,
LEMMA RecordsServed ==
  ASSUME Good, NEW b \in BatchId, Storied(world, b), world.batch[b] # None
  PROVE  /\ Serves(privateRecord("GetPurchase", b), "GetPurchase", b)
         /\ Serves(privateRecord("GetFreightCost", b), "GetFreightCost", b)
         /\ Serves(privateRecord("GetRetailReport", b), "GetRetailReport", b)
<1> DEFINE refs == world.batchEvidence[b]
<1>1. /\ IsWorld(world) /\ OpeningsIn(world) /\ PurchasedIn(world) /\ FreightIn(world)
      /\ SoldIn(world)
  BY DEF Good, Ledger, Sound, IInv, TypeOK
<1>2. \A fns : Receipts(b, fns) = ReceiptsIn(world, b, fns)
  BY DEF Receipts, ReceiptsIn
<1>3. /\ Receipts(b, {"OfferPickup"}) # {} <=> (refs.purchase # None)
      /\ Receipts(b, {"RecordFreightCost"}) # {} <=> (refs.freight # None)
      /\ Receipts(b, {"ReportRetailPrice"}) # {} <=> (refs.report # None)
  BY <1>2 DEF Storied
<1>4. Serves(privateRecord("GetPurchase", b), "GetPurchase", b)
  <2> DEFINE a == privateLoad("tradeOpening", refs.purchase)
  <2>1. privateRecord("GetPurchase", b) = a
    BY DEF privateRecord
  <2>2. Purchased(world, b)
    BY <1>1 DEF PurchasedIn
  <2>3. /\ a.code # "PRIVATE_DATA_ACCESS_DENIED"
        /\ (a.code = "OK") <=> (refs.purchase # None /\ world.tradeOpening[refs.purchase] # None)
        /\ a.code = "OK" => a.value = world.tradeOpening[refs.purchase]
    BY LoadedOrNot
  <2> HIDE DEF a
  <2>4. (a.code = "OK") <=> (Receipts(b, {Source["GetPurchase"]}) # {})
    BY <1>3, <2>2, <2>3 DEF Purchased, Source
  <2>5. a.code = "OK" => Shown(a, "GetPurchase", b)
    BY <2>2, <2>3 DEF Purchased, Shown
  <2> QED BY <2>1, <2>3, <2>4, <2>5 DEF Serves
<1>5. Serves(privateRecord("GetFreightCost", b), "GetFreightCost", b)
  <2> DEFINE a == privateLoad("cost", refs.freight)
  <2>1. privateRecord("GetFreightCost", b) = a
    BY DEF privateRecord
  <2>2. Freighted(world, b)
    BY <1>1 DEF FreightIn
  <2>3. /\ a.code # "PRIVATE_DATA_ACCESS_DENIED"
        /\ (a.code = "OK") <=> (refs.freight # None /\ world.cost[refs.freight] # None)
        /\ a.code = "OK" => a.value = world.cost[refs.freight]
    BY LoadedOrNot
  <2>4. refs.freight # None =>
          world.cost[refs.freight] # None /\ world.cost[refs.freight].batch = b
    BY <1>1, <2>2, NoneApart DEF Freighted, FreightIn
  <2> HIDE DEF a
  <2>5. (a.code = "OK") <=> (Receipts(b, {Source["GetFreightCost"]}) # {})
    BY <1>3, <2>3, <2>4 DEF Source
  <2>6. a.code = "OK" => Shown(a, "GetFreightCost", b)
    BY <2>3, <2>4 DEF Shown
  <2> QED BY <2>1, <2>3, <2>5, <2>6 DEF Serves
<1>6. Serves(privateRecord("GetRetailReport", b), "GetRetailReport", b)
  <2> DEFINE a == privateLoad("report", refs.report)
  <2>1. privateRecord("GetRetailReport", b) = a
    BY DEF privateRecord
  <2>2. Sold(world, b)
    BY <1>1 DEF SoldIn
  <2>3. /\ a.code # "PRIVATE_DATA_ACCESS_DENIED"
        /\ (a.code = "OK") <=> (refs.report # None /\ world.report[refs.report] # None)
        /\ a.code = "OK" => a.value = world.report[refs.report]
    BY LoadedOrNot
  <2>4. refs.report # None =>
          world.report[refs.report] # None /\ world.report[refs.report].batch = b
    BY <1>1, <2>2, NoneApart DEF Sold, SoldIn
  <2> HIDE DEF a
  <2>5. (a.code = "OK") <=> (Receipts(b, {Source["GetRetailReport"]}) # {})
    BY <1>3, <2>3, <2>4 DEF Source
  <2>6. a.code = "OK" => Shown(a, "GetRetailReport", b)
    BY <2>3, <2>4 DEF Shown
  <2> QED BY <2>1, <2>3, <2>5, <2>6 DEF Serves
<1> QED BY <1>4, <1>5, <1>6

\* The actions of an anomaly, as many as its state of review tells of.
LEMMA ActionsCounted ==
  ASSUME Good, NEW a \in AnomalyId, world.anomaly[a] # None
  PROVE  LET keys == {k \in Present("reviewActionReference") : k[1] = a}
         IN  /\ \A k \in keys : world.reviewAction[k] # None
             /\ Cardinality({world.reviewAction[k] : k \in keys})
                  = ReviewsAt(world.anomaly[a].review)
<1> DEFINE keys == {k \in Present("reviewActionReference") : k[1] = a}
           T == {world.reviewAction[k] : k \in keys}
           x == world.anomaly[a]
<1>1. x.review \in ReviewState
  <2>1. x \in Opt(Anomaly)
    BY WorldTyped DEF Good, IInv, TypeOK
  <2> QED BY <2>1 DEF Opt, Anomaly
<1>2. /\ \A o \in OpId :
           (world.reviewActionReference[<<a, o>>] # None) <=> (world.reviewAction[<<a, o>>] # None)
      /\ Progress(world, a)
  BY DEF Good, Ledger, Sound, ReviewsIn
<1>3. \A k : k \in keys <=> \E o \in OpId : k = <<a, o>> /\ world.reviewAction[<<a, o>>] # None
  <2>1. keys = {k \in {a} \X OpId : world.reviewActionReference[k] # None}
    BY Presence
  <2>2. \A k : k \in {a} \X OpId <=> \E o \in OpId : k = <<a, o>>
    OBVIOUS
  <2> HIDE DEF keys
  <2> QED BY <1>2, <2>1, <2>2
<1>4. \A k \in keys : world.reviewAction[k] # None
  BY <1>3
<1> HIDE DEF keys
<1>5. ASSUME x.review \in {"NOT_REQUIRED", "OPEN"} PROVE Cardinality(T) = ReviewsAt(x.review)
  <2>1. \A o \in OpId : world.reviewAction[<<a, o>>] = None
    BY <1>2, <1>5 DEF Progress
  <2>2. T = {}
    BY <1>3, <2>1
  <2> HIDE DEF T
  <2> QED BY <1>5, <2>2, FS_EmptySet DEF ReviewsAt
<1>6. ASSUME x.review = "IN_REVIEW" PROVE Cardinality(T) = ReviewsAt(x.review)
  <2>1. PICK o \in OpId : /\ Taking(world, a, o, "OPEN_REVIEW")
                          /\ \A p \in OpId : world.reviewAction[<<a, p>>] # None => p = o
    BY <1>2, <1>6 DEF Progress
  <2>2. T = {world.reviewAction[<<a, o>>]}
    BY <1>3, <2>1 DEF Taking
  <2> HIDE DEF T
  <2> QED BY <1>6, <2>2, FS_Singleton DEF ReviewsAt
<1>7. ASSUME x.review = "RESOLVED" PROVE Cardinality(T) = ReviewsAt(x.review)
  <2>1. PICK o \in OpId, q \in OpId :
          /\ Taking(world, a, o, "OPEN_REVIEW")
          /\ Taking(world, a, q, "RESOLVE_REVIEW")
          /\ \A p \in OpId : world.reviewAction[<<a, p>>] # None => p \in {o, q}
    BY <1>2, <1>7 DEF Progress
  <2> DEFINE y == world.reviewAction[<<a, o>>]
             z == world.reviewAction[<<a, q>>]
  <2>2. T = {y} \cup {z}
    BY <1>3, <2>1 DEF Taking
  <2>3. z \notin {y}
    BY <2>1 DEF Taking
  <2> HIDE DEF T, y, z
  <2>4. IsFiniteSet({y}) /\ Cardinality({y}) = 1
    BY FS_Singleton
  <2>5. Cardinality({y} \cup {z}) = 1 + 1
    BY <2>3, <2>4, FS_AddElement, Zenon
  <2> QED BY <1>7, <2>2, <2>5 DEF ReviewsAt
<1> HIDE DEF T, x
<1>8. Cardinality(T) = ReviewsAt(x.review)
  BY <1>1, <1>5, <1>6, <1>7 DEF ReviewState
<1> QED BY <1>4, <1>8 DEF T, x, keys

-----------------------------------------------------------------------------
(* ReadersServed                                                           *)

\* and so are the anomaly and its reviews.
LEMMA AnalysisServed ==
  ASSUME Good, NEW b \in BatchId, Storied(world, b), world.batch[b] # None
  PROVE  /\ Serves(privateRecord("GetAnomaly", b), "GetAnomaly", b)
         /\ Serves(privateRecord("GetReviewHistory", b), "GetReviewHistory", b)
<1> DEFINE e == world.evaluation[b]
           x == world.anomaly[e.anomaly]
<1>1. EvaluatedIn(world) /\ ReviewsIn(world)
  BY DEF Good, Ledger, Sound
<1>2. \A fns : Receipts(b, fns) = ReceiptsIn(world, b, fns)
  BY DEF Receipts, ReceiptsIn
<1>3. /\ Receipts(b, {"EvaluatePrice"}) # {} <=> (e # None)
      /\ Cardinality(Receipts(b, {"OpenReview", "ResolveReview"})) = ReviewsAt(ReviewAt(world, b))
  BY <1>2 DEF Storied, Reviews
<1>4. e # None => /\ e.anomaly \in AnomalyId /\ x # None /\ x.batch = b
                  /\ ReviewAt(world, b) = x.review
  <2> SUFFICES ASSUME e # None PROVE /\ e.anomaly \in AnomalyId /\ x # None /\ x.batch = b
                                     /\ ReviewAt(world, b) = x.review
    OBVIOUS
  <2>1. Evaluated(world, b)
    BY <1>1 DEF EvaluatedIn
  <2>2. Attached(world, e.anomaly)
    BY <1>1, <2>1 DEF EvaluatedIn, Evaluated
  <2> QED BY <2>1, <2>2 DEF Evaluated, Attached, ReviewAt
<1>5. Source["GetAnomaly"] = "EvaluatePrice" /\ Source["GetReviewHistory"] = "EvaluatePrice"
  BY DEF Source
<1>6. Serves(privateRecord("GetAnomaly", b), "GetAnomaly", b)
  <2> DEFINE a == privateRecord("GetAnomaly", b)
             l == privateLoad("anomaly", e.anomaly)
  <2>1. a = IF e = None THEN refusal("EVALUATION_PENDING") ELSE l
    BY DEF privateRecord, analysisQuery
  <2>2. /\ l.code # "PRIVATE_DATA_ACCESS_DENIED"
        /\ (l.code = "OK") <=> (e.anomaly # None /\ x # None)
        /\ l.code = "OK" => l.value = x
    BY LoadedOrNot
  <2>3. None \notin AnomalyId
    BY QueriesAssumption
  <2> HIDE DEF l
  <2>4. CASE e = None
    <3>1. a.code = "EVALUATION_PENDING"
      BY <2>1, <2>4 DEF refusal
    <3> HIDE DEF a, e
    <3> QED BY <1>3, <1>5, <2>4, <3>1 DEF Serves, a
  <2>5. CASE e # None
    <3>1. a = l /\ l.code = "OK" /\ l.value.batch = b
      BY <1>4, <2>1, <2>2, <2>3, <2>5
    <3>2. Shown(l, "GetAnomaly", b)
      BY <3>1 DEF Shown
    <3> HIDE DEF a, e
    <3> QED BY <1>3, <1>5, <2>5, <3>1, <3>2 DEF Serves, a
  <2> QED BY <2>4, <2>5
<1>7. Serves(privateRecord("GetReviewHistory", b), "GetReviewHistory", b)
  <2> DEFINE a == privateRecord("GetReviewHistory", b)
             keys == {k \in Present("reviewActionReference") : k[1] = e.anomaly}
             T == {world.reviewAction[k] : k \in keys}
  <2>1. a = IF e = None THEN refusal("EVALUATION_PENDING") ELSE reviewActions(e.anomaly)
    BY DEF privateRecord, analysisQuery
  <2>2. CASE e = None
    <3>1. a.code = "EVALUATION_PENDING"
      BY <2>1, <2>2 DEF refusal
    <3> HIDE DEF a, e
    <3> QED BY <1>3, <1>5, <2>2, <3>1 DEF Serves, a
  <2>3. CASE e # None
    <3>1. /\ \A k \in keys : world.reviewAction[k] # None
          /\ Cardinality(T) = ReviewsAt(x.review)
      BY <1>4, <2>3, ActionsCounted
    <3>2. reviewActions(e.anomaly) = answer(T)
      BY <3>1 DEF reviewActions
    <3> HIDE DEF T
    <3>3. a.code = "OK" /\ a.value = T
      BY <2>1, <2>3, <3>2 DEF answer
    <3>4. Shown(a, "GetReviewHistory", b)
      <4>1. Cardinality(a.value) = Cardinality(Receipts(b, {"OpenReview", "ResolveReview"}))
        BY <1>3, <1>4, <2>3, <3>1, <3>3
      <4> QED BY <4>1 DEF Shown
    <3> HIDE DEF a, e
    <3> QED BY <1>3, <1>5, <2>3, <3>3, <3>4 DEF Serves, a
  <2> QED BY <2>2, <2>3
<1> QED BY <1>6, <1>7

\* An accepted proposal keeps the histories true.
LEMMA StoriesKept ==
  ASSUME Good, StoriedIn(world), NEW c \in Command, Invoke(c)
  PROVE  StoriedIn(world')
<1>1. CASE c.fn # "Bootstrap"
  <2>1. Effect(world, c, world') /\ CustodiedIn(world) /\ Sound(world)
    BY <1>1, Mutates DEF Good, Custodied, Ledger
  <2> QED BY <2>1, StoriedKept
<1>2. CASE c.fn = "Bootstrap"
  <2>1. world' = flush(world, Plan(world, c))
    BY DEF Invoke
  <2>2. \A t \in Table \ {"configuration", "policy", "sourceKey"} : world'[t] = world[t]
    BY <1>2, <2>1, BootstrapEffect
  <2>3. /\ world'.batch = world.batch /\ world'.batchEvidence = world.batchEvidence
        /\ world'.evaluation = world.evaluation /\ world'.anomaly = world.anomaly
        /\ world'.history = world.history
    BY <2>2 DEF Table, Keys
  <2>4. ASSUME NEW b \in BatchId PROVE Storied(world', b)
    <3>1. \A fns : ReceiptsIn(world', b, fns) = ReceiptsIn(world, b, fns)
      BY <2>3 DEF ReceiptsIn, version
    <3>2. ReviewAt(world', b) = ReviewAt(world, b)
      BY <2>3 DEF ReviewAt
    <3>3. Storied(world, b)
      BY DEF StoriedIn
    <3> QED BY <2>3, <3>1, <3>2, <3>3 DEF Storied
  <2> QED BY <2>4 DEF StoriedIn
<1> QED BY <1>1, <1>2

\* Readers of a true history are served what it tells.
LEMMA ReadersHold ==
  ASSUME Good, StoriedIn(world)
  PROVE  ReadersServed
<1>1. ASSUME NEW m \in Member, NEW r \in queryRole[m], NEW fn \in DOMAIN PrivateQuery,
             NEW b \in Present("batch")
      PROVE  LET granted == IF fn \in DOMAIN kindOf
                            THEN commercial(m, r, kindOf[fn])
                            ELSE mayRead(m, r, PrivateQuery[fn])
                 a == privateQuery(m, r, fn, b)
             IN  /\ (a.code = "PRIVATE_DATA_ACCESS_DENIED") <=> ~granted
                 /\ (a.code = "OK") <=> granted /\ Receipts(b, {Source[fn]}) # {}
                 /\ a.code = "OK" => Shown(a, fn, b)
  <2> DEFINE may == mayRead(m, r, PrivateQuery[fn])
             granted == IF fn \in DOMAIN kindOf THEN commercial(m, r, kindOf[fn]) ELSE may
             a == privateQuery(m, r, fn, b)
             p == privateRecord(fn, b)
  <2>1. b \in BatchId /\ world.batch[b] # None
    BY Presence
  <2>2. /\ fn \in DOMAIN kindOf => (commercial(m, r, kindOf[fn]) <=> may)
        /\ may => m \in CollectionMember[PrivateQuery[fn]]
    BY AccessAgrees
  <2>3. may \in BOOLEAN /\ (fn \in DOMAIN kindOf => commercial(m, r, kindOf[fn]) \in BOOLEAN)
    BY DEF mayRead, commercial
  <2>4. granted = may
    <3> HIDE DEF may
    <3> QED BY <2>2, <2>3
  <2>5. a = IF ~may THEN refusal("PRIVATE_DATA_ACCESS_DENIED") ELSE p
    BY <2>1, <2>2 DEF privateQuery
  <2>6. Serves(p, fn, b)
    <3>1. Storied(world, b)
      BY <2>1 DEF StoriedIn
    <3>2. fn \in {"GetPurchase", "GetFreightCost", "GetRetailReport", "GetAnomaly",
                  "GetReviewHistory"}
      BY DEF PrivateQuery
    <3> QED BY <2>1, <3>1, <3>2, RecordsServed, AnalysisServed
  <2> HIDE DEF may, granted, a, p
  <2>7. /\ (a.code = "PRIVATE_DATA_ACCESS_DENIED") <=> ~granted
        /\ (a.code = "OK") <=> granted /\ Receipts(b, {Source[fn]}) # {}
        /\ a.code = "OK" => Shown(a, fn, b)
    <3>1. CASE may
      BY <2>4, <2>5, <2>6, <3>1 DEF Serves
    <3>2. CASE ~may
      <4>1. a.code = "PRIVATE_DATA_ACCESS_DENIED"
        BY <2>5, <3>2 DEF refusal
      <4> QED BY <2>4, <3>2, <4>1
    <3> QED BY <3>1, <3>2
  <2> QED BY <2>7 DEF may, granted, a
<1>2. ASSUME NEW m \in Member, NEW r \in queryRole[m], NEW type \in DocType
      PROVE  commercial(m, r, documentKind(type)) <=> mayRead(m, r, openingCollection(type))
  BY DocumentsAgree
<1>3. ASSUME NEW s \in Signer PROVE s[1] \in Member /\ s[2] \in queryRole[s[1]]
  BY DEF Signer
<1> QED BY <1>1, <1>2, <1>3 DEF ReadersServed, Shown

\* Whoever is granted a private record is served it from the moment the public
\* history tells of it, whatever is committed between the queries, and the tables
\* of access rules agree for every signer (Actor.commercial, mayRead).
THEOREM ReadersAreServed == QueriesSpec => []ReadersServed
<1> DEFINE I == Good /\ StoriedIn(world)
<1>1. QueriesInit => I
  <2> SUFFICES ASSUME QueriesInit PROVE I
    OBVIOUS
  <2>1. Init
    BY DEF QueriesInit
  <2>2. Good
    BY <2>1, GoodInitially
  <2>3. ASSUME NEW b \in BatchId PROVE Storied(world, b)
    <3>1. world.batch[b] = None /\ world.evaluation[b] = None
      BY <2>1 DEF Init, EmptyWorld, Table, Keys
    <3>2. \A fns : ReceiptsIn(world, b, fns) = {}
      BY <3>1 DEF ReceiptsIn, version
    <3>3. ReviewsAt(ReviewAt(world, b)) = 0
      BY <3>1 DEF ReviewsAt, ReviewAt
    <3> QED BY <3>1, <3>2, <3>3, FS_EmptySet DEF Storied
  <2> QED BY <2>2, <2>3 DEF StoriedIn
<1>2. I /\ [QueriesNext]_<<vars, reading>> => I'
  <2>1. ASSUME I, NEW c \in Proposal, Invoke(c) PROVE I'
    <3>1. c \in Command
      BY ProposalAssumption
    <3> QED BY <2>1, <3>1, GoodKept, StoriesKept
  <2>2. ASSUME I, UNCHANGED vars PROVE I'
    BY <2>2 DEF vars, Good, IInv, TypeOK, Paired, Custodied, Ledger
  <2> QED BY <2>1, <2>2 DEF QueriesNext, Ask, Page, Done, Mutate
<1>3. I => ReadersServed
  BY ReadersHold
<1> QED BY <1>1, <1>2, <1>3, PTL DEF QueriesSpec

-----------------------------------------------------------------------------
(* The i-th of a finite set of positions                                   *)

\* A set of natural numbers has a least one.
LEMMA LeastOf ==
  ASSUME NEW S, \A n \in S : n \in Nat, S # {}
  PROVE  \E m \in S : \A n \in S : m <= n
<1> DEFINE R == OpToRel(<, Nat)
<1>1. IsWellFoundedOn(R, Nat)
  BY NatLessThanWellFounded
<1>2. \A m, n \in Nat : n < m => <<n, m>> \in R
  BY DEF OpToRel
<1> HIDE DEF R
<1>3. PICK m \in S : \A n \in S : ~ (<<n, m>> \in R)
  <2>1. S \subseteq Nat
    OBVIOUS
  <2> QED BY <1>1, <2>1, WFMin
<1>4. ASSUME NEW n \in S PROVE m <= n
  <2>1. m \in Nat /\ n \in Nat /\ ~(n < m)
    BY <1>2, <1>3
  <2> QED BY <2>1
<1> QED BY <1>4

\* A set of positions is finite.
LEMMA Bounded ==
  ASSUME NEW k \in Nat, NEW S, \A n \in S : n \in 1..k
  PROVE  (\A n \in S : n \in Nat) /\ IsFiniteSet(S) /\ Cardinality(S) \in Nat
<1>1. S \in SUBSET Nat /\ \A n \in S : n <= k
  OBVIOUS
<1>2. IsFiniteSet(S)
  BY <1>1, FS_BoundedSetOfNaturals
<1> QED BY <1>1, <1>2, FS_CardinalityType

\* The elements of S that are not after n.
Upto(S, n) == {m \in S : m <= n}

\* A finite set of positions has an i-th, for every i up to its size.
LEMMA NthOf ==
  ASSUME NEW k \in Nat, NEW S, \A n \in S : n \in 1..k, NEW i \in 1..Cardinality(S)
  PROVE  nth(S, i) \in S /\ Cardinality(Upto(S, nth(S, i))) = i
<1>0. /\ IsFiniteSet(S) /\ (\A n \in S : n \in Nat) /\ Cardinality(S) \in Nat
      /\ i \in Nat /\ i >= 1 /\ i <= Cardinality(S)
  <2>1. IsFiniteSet(S) /\ (\A n \in S : n \in Nat) /\ Cardinality(S) \in Nat
    BY Bounded
  <2> QED BY <2>1
<1>1. \A n : IsFiniteSet(Upto(S, n)) /\ Upto(S, n) \subseteq S /\ Cardinality(Upto(S, n)) \in Nat
  BY <1>0, FS_Subset, FS_CardinalityType DEF Upto
<1> DEFINE T == {n \in Nat : Cardinality(Upto(S, n)) >= i}
<1>2. T # {}
  <2>1. S # {}
    BY <1>0, FS_EmptySet
  <2>2. Upto(S, k) = S
    BY <1>0 DEF Upto
  <2> QED BY <1>0, <2>2
<1>3. PICK t \in T : \A n \in T : t <= n
  BY <1>2, LeastOf
<1>4. t \in Nat /\ Cardinality(Upto(S, t)) >= i
  BY <1>3
<1>5. \A n \in Nat : n < t => Cardinality(Upto(S, n)) < i
  <2> SUFFICES ASSUME NEW n \in Nat, n < t, Cardinality(Upto(S, n)) >= i PROVE FALSE
    BY <1>0, <1>1
  <2> QED BY <1>3, <1>4
<1> HIDE DEF T
<1> DEFINE B == {m \in S : m < t}
<1>6. IsFiniteSet(B) /\ Cardinality(B) \in Nat /\ Cardinality(B) < i
  <2>1. CASE t = 0
    <3>1. B = {}
      BY <1>0, <2>1
    <3> QED BY <1>0, <3>1, FS_EmptySet
  <2>2. CASE t # 0
    <3>1. t - 1 \in Nat /\ t - 1 < t
      BY <1>4, <2>2
    <3>2. B = Upto(S, t - 1)
      BY <1>0, <1>4, <3>1 DEF Upto
    <3> QED BY <1>1, <1>5, <3>1, <3>2
  <2> QED BY <2>1, <2>2
<1>7. t \in S
  <2> SUFFICES ASSUME t \notin S PROVE FALSE
    OBVIOUS
  <2>0. \A m \in S : m # t
    OBVIOUS
  <2>1. Upto(S, t) = B
    BY <1>0, <1>4, <2>0 DEF Upto
  <2> QED BY <1>0, <1>4, <1>6, <2>1
<1>8. Cardinality(Upto(S, t)) = i
  <2>1. Upto(S, t) = B \cup {t} /\ t \notin B
    <3>1. \A m \in S : (m <= t) <=> (m < t \/ m = t)
      BY <1>0, <1>4
    <3>2. \A m : m \in Upto(S, t) <=> m \in B \cup {t}
      BY <1>7, <3>1 DEF Upto
    <3>3. t \notin B
      BY <1>4
    <3> HIDE DEF B
    <3> QED BY <3>2, <3>3
  <2> HIDE DEF B
  <2>2. Cardinality(B \cup {t}) = Cardinality(B) + 1
    BY <1>6, <2>1, FS_AddElement, Zenon
  <2> QED BY <1>0, <1>4, <1>6, <2>1, <2>2
<1> QED BY <1>7, <1>8 DEF nth, Upto

\* A later one is greater.
LEMMA NthGrows ==
  ASSUME NEW k \in Nat, NEW S, \A n \in S : n \in 1..k, NEW i \in 1..Cardinality(S),
         NEW j \in 1..Cardinality(S), i < j
  PROVE  nth(S, i) < nth(S, j)
<1>0. (\A n \in S : n \in Nat) /\ IsFiniteSet(S)
  BY Bounded
<1> DEFINE p == nth(S, i)
           q == nth(S, j)
<1>1. /\ p \in S /\ Cardinality(Upto(S, p)) = i
      /\ q \in S /\ Cardinality(Upto(S, q)) = j
  BY NthOf
<1> HIDE DEF p, q
<1> SUFFICES ASSUME q <= p PROVE FALSE
  BY <1>0, <1>1 DEF p, q
<1>2. Upto(S, q) \subseteq Upto(S, p)
  BY <1>0, <1>1 DEF Upto
<1>3. IsFiniteSet(Upto(S, p))
  BY <1>0, FS_Subset DEF Upto
<1>4. Cardinality(Upto(S, q)) <= Cardinality(Upto(S, p))
  BY <1>2, <1>3, FS_Subset
<1> QED BY <1>1, <1>4

\* Every position of the set is one of them.
LEMMA NthAll ==
  ASSUME NEW k \in Nat, NEW S, \A z \in S : z \in 1..k, NEW n \in S
  PROVE  \E i \in 1..Cardinality(S) : nth(S, i) = n
<1>0. (\A z \in S : z \in Nat) /\ IsFiniteSet(S) /\ Cardinality(S) \in Nat
  BY Bounded
<1> DEFINE i == Cardinality(Upto(S, n))
<1>1. IsFiniteSet(Upto(S, n)) /\ Upto(S, n) \subseteq S /\ n \in Upto(S, n)
  BY <1>0, FS_Subset DEF Upto
<1>2. i \in Nat /\ i <= Cardinality(S) /\ Cardinality(S) \in Nat
  BY <1>0, <1>1, FS_Subset, FS_CardinalityType
<1>3. i # 0
  BY <1>1, FS_EmptySet
<1>4. i \in 1..Cardinality(S)
  BY <1>2, <1>3
<1> DEFINE p == nth(S, i)
<1>5. p \in S /\ Cardinality(Upto(S, p)) = i
  BY <1>4, NthOf
<1>6. IsFiniteSet(Upto(S, p))
  BY <1>0, FS_Subset DEF Upto
<1>7. p = n
  <2> HIDE DEF p
  <2>1. CASE p < n
    <3>1. Upto(S, p) \subseteq Upto(S, n) /\ n \notin Upto(S, p)
      BY <1>0, <1>5, <2>1 DEF Upto
    <3>2. Upto(S, p) = Upto(S, n)
      BY <1>1, <1>5, <3>1, FS_Subset
    <3> QED BY <1>1, <3>1, <3>2
  <2>2. CASE n < p
    <3>1. Upto(S, n) \subseteq Upto(S, p) /\ p \notin Upto(S, n) /\ p \in Upto(S, p)
      BY <1>0, <1>5, <2>2 DEF Upto
    <3>2. Upto(S, n) = Upto(S, p)
      BY <1>5, <1>6, <3>1, FS_Subset
    <3> QED BY <3>1, <3>2
  <2> QED BY <1>0, <1>5, <2>1, <2>2
<1> QED BY <1>4, <1>7

-----------------------------------------------------------------------------
(* Pages                                                                   *)

\* In a range without gaps, they follow each other.
LEMMA NthInRange ==
  ASSUME NEW m \in Nat \ {0}, NEW v \in Nat, NEW i \in 1..Cardinality(m..v)
  PROVE  nth(m..v, i) = m + i - 1
<1> DEFINE S == m..v
           n == nth(S, i)
<1>1. \A j \in S : j \in 1..v
  OBVIOUS
<1>2. n \in S /\ Cardinality(Upto(S, n)) = i
  BY <1>1, NthOf
<1>3. Upto(S, n) = m..n
  <2> HIDE DEF n
  <2> QED BY <1>2 DEF Upto
<1>4. m \in Int /\ n \in Int /\ n >= m
  BY <1>2
<1> HIDE DEF n, S
<1>5. Cardinality(m..n) = n - m + 1
  BY <1>4, FS_Interval
<1> QED BY <1>2, <1>3, <1>4, <1>5 DEF n, S

\* How many positions a range has.
Places(table) == IF table = "history" THEN MaxVersion ELSE Len(Order)

\* The entries of a listing are positions of its range.
LEMMA EntriesBounded ==
  ASSUME NEW table, NEW filter, NEW m \in Nat \ {0}
  PROVE  /\ Places(table) \in Nat
         /\ \A n \in Entries(world, table, filter, m) : n \in 1..Places(table) /\ m <= n
<1>1. Places(table) \in Nat
  BY EngineAssumption, QueriesAssumption DEF Places
<1>2. DOMAIN Span(table, filter) = 1..Places(table)
  BY DEF Span, Places
<1> QED BY <1>1, <1>2 DEF Entries

\* A page goes on where the last one ended: it has the entries from there, in their
\* order and without a gap, up to its own bookmark.
PageGoesOn(S, p, k) ==
  /\ k \in 0..Cardinality(S) /\ p.items = [i \in 1..k |-> nth(S, i)]
  /\ \A i \in 1..k : p.items[i] \in S
  /\ \A i, j \in 1..k : i < j => p.items[i] < p.items[j]
  /\ p.next = Finished => \A n \in S : \E i \in 1..k : p.items[i] = n
  /\ p.next # Finished =>
       /\ p.next \in S /\ p.next = nth(S, k + 1) /\ k + 1 \in 1..Cardinality(S)
       /\ \A i \in 1..k : p.items[i] < p.next
       /\ \A n \in S : n < p.next => \E i \in 1..k : p.items[i] = n

\* Every page does.
LEMMA PagesGoOn ==
  ASSUME NEW table, NEW filter, NEW m \in Nat \ {0}
  PROVE  \E k \in Nat : PageGoesOn(Entries(world, table, filter, m),
                                   pageFrom(table, filter, m), k)
<1> DEFINE S == Entries(world, table, filter, m)
           p == pageFrom(table, filter, m)
           c == Cardinality(S)
           K == Places(table)
<1>1. K \in Nat /\ (\A n \in S : n \in 1..K) /\ c \in Nat
  <2>1. K \in Nat /\ (\A n \in S : n \in 1..K)
    BY EntriesBounded
  <2> HIDE DEF K, S
  <2> QED BY <2>1, Bounded
<1>2. p = IF c <= PageSize
          THEN [items |-> [i \in 1..c |-> nth(S, i)], next |-> Finished]
          ELSE [items |-> [i \in 1..PageSize |-> nth(S, i)], next |-> nth(S, PageSize + 1)]
  BY DEF pageFrom, AtBookmark
<1> HIDE DEF S, p, K
<1>3. ASSUME NEW i \in 1..c PROVE nth(S, i) \in S
  BY <1>1, NthOf
<1>4. ASSUME NEW i \in 1..c, NEW j \in 1..c, i < j PROVE nth(S, i) < nth(S, j)
  BY <1>1, <1>4, NthGrows
<1>5. ASSUME NEW n \in S PROVE \E i \in 1..c : nth(S, i) = n
  BY <1>1, NthAll
<1>6. \A n \in S : n \in Nat /\ n # Finished
  BY <1>1 DEF Finished
<1>7. PageSize \in Nat /\ PageSize # 0
  BY QueriesAssumption
<1> HIDE DEF c
<1>8. CASE c <= PageSize
  <2>1. p.items = [i \in 1..c |-> nth(S, i)] /\ p.next = Finished
    BY <1>2, <1>8
  <2>2. c \in 0..c /\ \A i \in 1..c : p.items[i] = nth(S, i)
    BY <1>1, <2>1
  <2>3. PageGoesOn(S, p, c)
    BY <1>3, <1>4, <1>5, <2>1, <2>2 DEF PageGoesOn, c
  <2> QED BY <1>1, <2>3 DEF S, p
<1>9. CASE c > PageSize
  <2> DEFINE k == PageSize
             z == nth(S, k + 1)
  <2>1. p.items = [i \in 1..k |-> nth(S, i)] /\ p.next = z
    BY <1>1, <1>2, <1>7, <1>9
  <2>2. k \in 0..c /\ k + 1 \in 1..c /\ \A i \in 1..k : i \in 1..c /\ i < k + 1
    BY <1>1, <1>7, <1>9
  <2>3. \A i \in 1..k : p.items[i] = nth(S, i)
    BY <2>1
  <2>4. z \in S /\ z # Finished
    BY <1>3, <1>6, <2>2
  <2>5. \A i \in 1..k : p.items[i] \in S /\ p.items[i] < z
    BY <1>3, <1>4, <2>2, <2>3
  <2>6. \A i, j \in 1..k : i < j => p.items[i] < p.items[j]
    BY <1>4, <2>2, <2>3
  <2>7. ASSUME NEW n \in S, n < z PROVE \E i \in 1..k : p.items[i] = n
    <3>1. PICK i \in 1..c : nth(S, i) = n
      BY <1>5
    <3>2. ~(k + 1 < i) /\ i # k + 1
      <4>1. ASSUME k + 1 < i PROVE FALSE
        <5>1. z < n
          BY <1>4, <2>2, <3>1, <4>1
        <5> QED BY <1>6, <2>4, <2>7, <5>1
      <4>2. i # k + 1
        <5>1. n \in Nat
          BY <1>6
        <5> QED BY <2>7, <3>1, <5>1
      <4> QED BY <4>1, <4>2
    <3>3. i \in 1..k
      BY <1>7, <3>2
    <3> QED BY <2>3, <3>1, <3>3
  <2> HIDE DEF z, k
  <2>8. PageGoesOn(S, p, k)
    BY <2>1, <2>2, <2>4, <2>5, <2>6, <2>7 DEF PageGoesOn, c, z
  <2> QED BY <1>7, <2>8 DEF S, p, k
<1> QED BY <1>1, <1>7, <1>8, <1>9

\* What is shown of an entry fits the filter of its range.
LEMMA EntriesFit ==
  ASSUME Good, NEW t \in DOMAIN Paged, NEW f \in Paged[t], NEW m \in Nat \ {0},
         NEW n \in Entries(world, t, f, m)
  PROVE  LET v == record(t, Span(t, f)[n])
         IN  /\ v \in Opt(Receipt) \cup Opt(Batch)
             /\ t = "history" => v.version = n
             /\ t = "owner" => v.owner = f
             /\ t = "state" => v.state = f
<1>1. IsWorld(world) /\ Chained(world) /\ IndexedIn(world)
  BY DEF Good, IInv, TypeOK, Ledger, Sound
<1>2. n \in 1..Places(t)
  BY EntriesBounded
<1>3. world[t][Span(t, f)[n]] # None
  BY DEF Entries
<1>4. /\ world.history \in [BatchId \X (1..MaxVersion) -> Opt(Receipt)]
      /\ world.batch \in [BatchId -> Opt(Batch)]
  BY <1>1, WorldTyped, RecordsTyped
<1>5. CASE t = "history"
  <2>1. f \in BatchId /\ n \in 1..MaxVersion /\ Span(t, f)[n] = <<f, n>>
    BY <1>2, <1>5 DEF Paged, Places, Span
  <2>2. world.history[<<f, n>>].version = n
    <3>1. world.history[<<f, n>>] # None
      BY <1>3, <1>5, <2>1
    <3> QED BY <1>1, <2>1, <3>1 DEF Chained
  <2>3. record(t, Span(t, f)[n]) = world.history[<<f, n>>]
    BY <1>5, <2>1 DEF record
  <2> QED BY <1>4, <1>5, <2>1, <2>2, <2>3
<1>6. CASE t \in {"owner", "state"}
  <2> DEFINE o == Order[n]
  <2>1. o \in BatchId /\ Span(t, f)[n] = <<f, o>>
    BY <1>2, <1>6, QueriesAssumption DEF Places, Span
  <2>2. record(t, Span(t, f)[n]) = world.batch[world[t][<<f, o>>]]
    BY <1>6, <2>1 DEF record
  <2> HIDE DEF o
  <2>3. CASE t = "owner"
    <3>1. f \in Member
      BY <2>3 DEF Paged
    <3>2. world.owner[<<f, o>>] = o /\ world.batch[o].owner = f
      BY <1>1, <1>3, <2>1, <2>3, <3>1 DEF IndexedIn
    <3> QED BY <1>4, <2>1, <2>2, <2>3, <3>2
  <2>4. CASE t = "state"
    <3>1. f \in State
      BY <2>4 DEF Paged
    <3>2. world.state[<<f, o>>] = o /\ world.batch[o].state = f
      BY <1>1, <1>3, <2>1, <2>4, <3>1 DEF IndexedIn
    <3> QED BY <1>4, <2>1, <2>2, <2>4, <3>2
  <2> QED BY <1>6, <2>3, <2>4
<1> QED BY <1>5, <1>6 DEF Paged

\* A history has every version up to its batch's.
LEMMA HistoryHasAll ==
  ASSUME Good, NEW b \in BatchId, NEW m \in Nat \ {0}
  PROVE  version(world, b) \in Nat /\ Entries(world, "history", b, m) = m..version(world, b)
<1> DEFINE v == version(world, b)
<1>1. IsWorld(world) /\ Chained(world)
  BY DEF Good, IInv, TypeOK, Ledger, Sound
<1>2. v \in 0..MaxVersion /\ MaxVersion \in Nat
  <2>1. world.batch[b] \in Opt(Batch)
    BY <1>1, WorldTyped
  <2> QED BY <2>1, EngineAssumption DEF version, Opt, Batch
<1>3. \A n \in 1..MaxVersion : (world.history[<<b, n>>] # None) <=> (n <= v)
  BY <1>1 DEF Chained
<1>4. Entries(world, "history", b, m)
        = {n \in 1..MaxVersion : n >= m /\ world.history[<<b, n>>] # None}
  <2>1. /\ DOMAIN Span("history", b) = 1..MaxVersion
        /\ \A n \in 1..MaxVersion : Span("history", b)[n] = <<b, n>>
    BY DEF Span
  <2> QED BY <2>1 DEF Entries
<1> HIDE DEF v
<1>5. m..v = {n \in 1..MaxVersion : n >= m /\ n <= v}
  BY <1>2
<1>6. Entries(world, "history", b, m) = m..v
  BY <1>3, <1>4, <1>5
<1> QED BY <1>2, <1>6 DEF v

-----------------------------------------------------------------------------
(* Listed                                                                  *)

\* What a listing may show.
Shownable == [at : Nat, value : Opt(Receipt) \cup Opt(Batch)]

\* What the i-th record of a listing shows fits its range.
Belongs(t, f, i, v) ==
  /\ t = "history" => v.version = i
  /\ t = "owner" => v.owner = f
  /\ t = "state" => v.state = f

\* A reader who is about to read on from m has the records r of the listing (t, f): each
\* is before m, and each entry before m that was there all along is one of them.
Going(t, f, m, r) ==
  /\ t \in DOMAIN Paged /\ f \in Paged[t] /\ m \in Nat
  /\ r \in Seq(Shownable)
  /\ \A n \in steady : n \in Entries(world, t, f, 1)
  /\ \A i, j \in 1..Len(r) : i < j => r[i].at < r[j].at
  /\ m # Finished => \A i \in 1..Len(r) : r[i].at < m
  /\ \A n \in steady : m = Finished \/ n < m => \E i \in 1..Len(r) : r[i].at = n
  /\ \A i \in 1..Len(r) : Belongs(t, f, i, r[i].value)
  /\ t = "history" /\ m # Finished => m = Len(r) + 1

\* The invariant of a listing.
Listing ==
  cursor # None =>
    /\ cursor = [table |-> cursor.table, filter |-> cursor.filter,
                 bookmark |-> cursor.bookmark, records |-> cursor.records]
    /\ Going(cursor.table, cursor.filter, cursor.bookmark, cursor.records)

\* It says what Listed asks for.
LEMMA ListingSuffices == Listing => Listed
<1> SUFFICES ASSUME cursor # None, Listing PROVE Listed
  BY DEF Listed
<1> DEFINE t == cursor.table
           f == cursor.filter
           m == cursor.bookmark
           r == cursor.records
<1>1. Going(t, f, m, r)
  BY DEF Listing
<1>2. DOMAIN r = 1..Len(r)
  BY <1>1 DEF Going
<1>3. t \in {"owner", "state", "history"}
  BY <1>1 DEF Going, Paged
<1>4. ASSUME NEW i \in DOMAIN r
      PROVE  CASE t = "history" -> r[i].value.version = i
               [] t = "owner"   -> r[i].value.owner = f
               [] t = "state"   -> r[i].value.state = f
  <2>1. Belongs(t, f, i, r[i].value)
    BY <1>1, <1>2 DEF Going
  <2> HIDE DEF t, f, r
  <2> QED BY <1>3, <2>1 DEF Belongs
<1>5. /\ \A i, j \in DOMAIN r : i < j => r[i].at < r[j].at
      /\ \A n \in steady : m = Finished \/ n < m => \E i \in DOMAIN r : r[i].at = n
  BY <1>1, <1>2 DEF Going
<1> QED BY <1>4, <1>5 DEF Listed

\* The next page carries the listing on.
LEMMA GoesOn ==
  ASSUME Good, NEW t, NEW f, NEW m, NEW r, Going(t, f, m, r), m # Finished
  PROVE  LET p == pageFrom(t, f, m)
             shown == [i \in DOMAIN p.items |->
                         [at |-> p.items[i], value |-> record(t, Span(t, f)[p.items[i]])]]
         IN  Going(t, f, p.next, r \o shown)
<1> DEFINE p == pageFrom(t, f, m)
           S == Entries(world, t, f, m)
           shown == [i \in DOMAIN p.items |->
                       [at |-> p.items[i], value |-> record(t, Span(t, f)[p.items[i]])]]
           q == r \o shown
           l == Len(r)
<1>1. /\ t \in DOMAIN Paged /\ f \in Paged[t] /\ m \in Nat \ {0}
      /\ r \in Seq(Shownable) /\ l \in Nat
  BY DEF Going, Finished
<1>2. ASSUME NEW i \in 1..l PROVE r[i].at \in Nat /\ r[i].at < m
  <2>1. r[i] \in Shownable
    BY <1>1
  <2> QED BY <2>1 DEF Going, Shownable
<1>3. PICK k \in Nat : PageGoesOn(S, p, k)
  BY <1>1, PagesGoOn
<1>4. DOMAIN p.items = 1..k /\ \A i \in 1..k : p.items[i] \in S
  BY <1>3 DEF PageGoesOn
<1>5. \A n \in S : n \in Nat /\ m <= n /\ n # Finished
  BY <1>1, EntriesBounded DEF Finished
<1>6. ASSUME NEW i \in 1..k
      PROVE  /\ shown[i] \in Shownable /\ shown[i].at = p.items[i]
             /\ t = "history" => shown[i].value.version = p.items[i]
             /\ t = "owner" => shown[i].value.owner = f
             /\ t = "state" => shown[i].value.state = f
  <2> DEFINE n == p.items[i]
             v == record(t, Span(t, f)[n])
  <2>1. shown[i] = [at |-> n, value |-> v] /\ n \in S
    BY <1>4
  <2>2. /\ v \in Opt(Receipt) \cup Opt(Batch)
        /\ t = "history" => v.version = n
        /\ t = "owner" => v.owner = f
        /\ t = "state" => v.state = f
    <3> HIDE DEF p, v, n
    <3> QED BY <1>1, <2>1, EntriesFit DEF v, n
  <2> HIDE DEF v, n, p
  <2> QED BY <1>5, <2>1, <2>2 DEF Shownable, n
<1>7. shown = [i \in 1..k |-> shown[i]]
  BY <1>4
<1> HIDE DEF p, shown
<1>8. shown \in Seq(Shownable) /\ Len(shown) = k
  BY <1>6, <1>7
<1>9. /\ q \in Seq(Shownable) /\ Len(q) = l + k
      /\ \A i \in 1..l : q[i] = r[i]
      /\ \A i \in 1..k : q[l + i] = shown[i]
      /\ \A i \in 1..(l + k) : i > l => i - l \in 1..k /\ q[i] = shown[i - l]
  BY <1>1, <1>8
<1>10. \A i \in 1..(l + k) : i \in 1..l \/ (i - l \in 1..k /\ q[i] = shown[i - l])
  BY <1>1, <1>9
<1> HIDE DEF q
<1>11. p.next = Finished \/ (p.next \in S /\ p.next \in Nat /\ m <= p.next)
  BY <1>3, <1>5 DEF PageGoesOn
<1>12. /\ p.next \in Nat
       /\ \A n \in steady : n \in Entries(world, t, f, 1) /\ n \in Nat
  <2>1. \A n \in steady : n \in Entries(world, t, f, 1)
    BY DEF Going
  <2>2. \A n \in Entries(world, t, f, 1) : n \in Nat
    BY EntriesBounded
  <2> QED BY <1>11, <2>1, <2>2 DEF Finished
<1>13. ASSUME NEW i \in 1..Len(q), NEW j \in 1..Len(q), i < j PROVE q[i].at < q[j].at
  <2>1. CASE j \in 1..l
    <3>1. i \in 1..l
      BY <1>1, <1>9, <1>13, <2>1
    <3> QED BY <1>9, <1>13, <2>1, <3>1 DEF Going
  <2>2. CASE i \in 1..l /\ j \notin 1..l
    <3>1. q[i].at < m /\ q[i].at \in Nat
      BY <1>9, <1>2, <2>2
    <3>2. j - l \in 1..k /\ q[j].at = p.items[j - l]
      BY <1>6, <1>9, <1>10, <2>2
    <3>3. q[j].at \in Nat /\ m <= q[j].at
      BY <1>4, <1>5, <3>2
    <3> QED BY <1>1, <3>1, <3>3
  <2>3. CASE i \notin 1..l /\ j \notin 1..l
    <3>1. /\ i - l \in 1..k /\ q[i].at = p.items[i - l]
          /\ j - l \in 1..k /\ q[j].at = p.items[j - l]
      BY <1>6, <1>9, <1>10, <2>3
    <3>2. i - l < j - l
      BY <1>1, <1>9, <1>13
    <3> QED BY <1>3, <3>1, <3>2 DEF PageGoesOn
  <2> QED BY <1>1, <1>9, <1>13, <2>1, <2>2, <2>3
<1>14. ASSUME p.next # Finished, NEW i \in 1..Len(q) PROVE q[i].at < p.next
  <2>1. CASE i \in 1..l
    <3>1. q[i].at < m /\ q[i].at \in Nat
      BY <1>9, <1>2, <2>1
    <3> QED BY <1>1, <1>11, <1>14, <3>1
  <2>2. CASE i \notin 1..l
    <3>1. i - l \in 1..k /\ q[i].at = p.items[i - l]
      BY <1>6, <1>9, <1>10, <2>2
    <3> QED BY <1>3, <1>14, <3>1 DEF PageGoesOn
  <2> QED BY <2>1, <2>2
<1>15. ASSUME NEW n \in steady, p.next = Finished \/ n < p.next
       PROVE  \E i \in 1..Len(q) : q[i].at = n
  <2>1. n \in Nat /\ n \in Entries(world, t, f, 1)
    BY <1>12
  <2>2. CASE n < m
    <3>1. PICK i \in 1..l : r[i].at = n
      BY <2>2 DEF Going
    <3>2. i \in 1..Len(q) /\ q[i].at = n
      BY <1>1, <1>9, <3>1
    <3> QED BY <3>2
  <2>3. CASE n >= m
    <3>1. n \in S
      BY <2>1, <2>3 DEF Entries
    <3>2. PICK i \in 1..k : p.items[i] = n
      BY <1>3, <1>15, <3>1 DEF PageGoesOn
    <3>3. l + i \in 1..Len(q) /\ q[l + i].at = n
      BY <1>1, <1>6, <1>9, <3>2
    <3> QED BY <3>3
  <2> QED BY <1>1, <2>1, <2>2, <2>3
<1>16. CASE t = "history"
  <2> DEFINE v == version(world, f)
  <2>1. m = l + 1
    BY <1>16 DEF Going
  <2>2. v \in Nat /\ S = m..v
    BY <1>1, <1>16, HistoryHasAll DEF Paged
  <2> HIDE DEF v, S
  <2>3. k \in 0..Cardinality(S) /\ \A i \in 1..k : p.items[i] = nth(S, i)
    BY <1>3 DEF PageGoesOn
  <2>4. Cardinality(S) \in Nat
    <3>1. m \in Int /\ v \in Int /\ v - m + 1 \in Int
      BY <1>1, <2>2
    <3> QED BY <2>2, <3>1, FS_Interval, FS_CardinalityType
  <2>5. ASSUME NEW i \in 1..k PROVE p.items[i] = l + i
    <3>1. i \in 1..Cardinality(S)
      BY <2>3, <2>4
    <3>2. nth(S, i) = m + i - 1
      BY <1>1, <2>2, <3>1, NthInRange
    <3> QED BY <1>1, <2>1, <2>3, <3>2
  <2>6. ASSUME NEW i \in 1..Len(q) PROVE Belongs(t, f, i, q[i].value)
    <3>1. CASE i \in 1..l
      BY <1>9, <3>1 DEF Going
    <3>2. CASE i \notin 1..l
      <4>1. i - l \in 1..k /\ q[i] = shown[i - l]
        BY <1>9, <1>10, <3>2
      <4>2. q[i].value.version = p.items[i - l]
        BY <1>6, <1>16, <4>1
      <4>3. p.items[i - l] = i
        <5>1. p.items[i - l] = l + (i - l)
          BY <2>5, <4>1
        <5>2. l + (i - l) = i
          BY <1>1
        <5> QED BY <5>1, <5>2
      <4> QED BY <1>16, <4>2, <4>3 DEF Belongs
    <3> QED BY <3>1, <3>2
  <2>7. p.next # Finished => p.next = Len(q) + 1
    <3> SUFFICES ASSUME p.next # Finished PROVE p.next = Len(q) + 1
      OBVIOUS
    <3>1. p.next = nth(S, k + 1) /\ k + 1 \in 1..Cardinality(S)
      BY <1>3 DEF PageGoesOn
    <3>2. nth(S, k + 1) = m + (k + 1) - 1
      BY <1>1, <2>2, <3>1, NthInRange
    <3> QED BY <1>1, <1>9, <2>1, <3>1, <3>2
  <2>8. Going(t, f, p.next, q)
    BY <1>1, <1>9, <1>12, <1>13, <1>14, <1>15, <2>6, <2>7 DEF Going
  <2> QED BY <2>8 DEF p, q, shown
<1>17. CASE t # "history"
  <2>1. ASSUME NEW i \in 1..Len(q) PROVE Belongs(t, f, i, q[i].value)
    <3>1. CASE i \in 1..l
      BY <1>9, <3>1 DEF Going
    <3>2. CASE i \notin 1..l
      <4>1. i - l \in 1..k /\ q[i] = shown[i - l]
        BY <1>9, <1>10, <3>2
      <4> QED BY <1>6, <1>17, <4>1 DEF Belongs
    <3> QED BY <3>1, <3>2
  <2>2. Going(t, f, p.next, q)
    BY <1>1, <1>9, <1>12, <1>13, <1>14, <1>15, <1>17, <2>1 DEF Going
  <2> QED BY <2>2 DEF p, q, shown
<1> QED BY <1>16, <1>17

\* What a reader is shown was there to be shown, whatever is committed between the
\* pages, and of what was there all along nothing is left out (fabricLedger.page).
THEOREM ListingsComplete == QueriesSpec => []Listed
<1> DEFINE I == Good /\ Listing
<1>1. QueriesInit => I
  BY GoodInitially DEF QueriesInit, Listing
<1>2. I /\ [QueriesNext]_<<vars, reading>> => I'
  <2> SUFFICES ASSUME I, [QueriesNext]_<<vars, reading>> PROVE I'
    OBVIOUS
  <2>1. ASSUME UNCHANGED vars PROVE Good'
    BY <2>1 DEF vars, Good, IInv, TypeOK, Paired, Custodied, Ledger
  <2>2. CASE Ask
    <3>1. PICK t \in DOMAIN Paged : \E f \in Paged[t] :
            /\ cursor' = [table |-> t, filter |-> f, bookmark |-> 1, records |-> <<>>]
            /\ steady' = Entries(world, t, f, 1)
      BY <2>2 DEF Ask
    <3>2. PICK f \in Paged[t] :
            /\ cursor' = [table |-> t, filter |-> f, bookmark |-> 1, records |-> <<>>]
            /\ steady' = Entries(world, t, f, 1)
      BY <3>1
    <3>3. world' = world /\ Good'
      BY <2>1, <2>2 DEF Ask, vars
    <3>4. \A n \in steady' : n \in Nat /\ 1 <= n
      BY <3>2, EntriesBounded
    <3>5. Going(t, f, 1, <<>>)'
      <4>1. \A n \in steady' : n \in Entries(world', t, f, 1)
        BY <3>2, <3>3
      <4>2. ~(1 = Finished) /\ \A n \in steady' : ~(n < 1)
        BY <3>4 DEF Finished
      <4>3. <<>> \in Seq(Shownable) /\ Len(<<>>) = 0 /\ 1..0 = {}
        OBVIOUS
      <4> QED BY <4>1, <4>2, <4>3 DEF Going
    <3> QED BY <3>2, <3>3, <3>5 DEF Listing
  <2>3. CASE Page
    <3> DEFINE t == cursor.table
               f == cursor.filter
               m == cursor.bookmark
               r == cursor.records
               p == pageFrom(t, f, m)
               shown == [i \in DOMAIN p.items |->
                           [at |-> p.items[i], value |-> record(t, Span(t, f)[p.items[i]])]]
    <3>1. /\ cursor # None /\ m # Finished
          /\ cursor' = [cursor EXCEPT !.records = @ \o shown, !.bookmark = p.next]
          /\ UNCHANGED vars /\ steady' = steady
      BY <2>3 DEF Page
    <3>2. /\ cursor = [table |-> t, filter |-> f, bookmark |-> m, records |-> r]
          /\ Going(t, f, m, r)
      BY <3>1 DEF Listing
    <3>3. Going(t, f, p.next, r \o shown)
      BY <3>1, <3>2, GoesOn
    <3>4. world' = world /\ Good'
      BY <2>1, <3>1 DEF vars
    <3> DEFINE n == p.next
               q == r \o shown
    <3>5. Going(t, f, n, q)
      BY <3>3
    <3>6. cursor' = [table |-> t, filter |-> f, bookmark |-> n, records |-> q]
      <4> HIDE DEF t, f, m, r, p, shown
      <4> QED BY <3>1, <3>2
    <3> HIDE DEF t, f, m, r, p, shown, n, q
    <3>7. Listing'
      <4>1. /\ cursor'.table = t /\ cursor'.filter = f /\ cursor'.bookmark = n
            /\ cursor'.records = q
        BY <3>6
      <4> QED BY <3>1, <3>4, <3>5, <3>6, <4>1 DEF Listing, Going
    <3> QED BY <3>4, <3>7
  <2>4. CASE Done
    <3>1. cursor' = None /\ Good'
      BY <2>1, <2>4 DEF Done
    <3> QED BY <3>1 DEF Listing
  <2>5. CASE Mutate
    <3>1. Good'
      <4>1. PICK c \in Proposal : Invoke(c)
        BY <2>5 DEF Mutate
      <4> QED BY <4>1, ProposalAssumption, GoodKept
    <3>2. CASE cursor = None
      BY <2>5, <3>1, <3>2 DEF Mutate, Listing
    <3>3. CASE cursor # None
      <4>1. /\ cursor' = cursor
            /\ steady' = steady \cap Entries(world', cursor.table, cursor.filter, 1)
        BY <2>5, <3>3 DEF Mutate
      <4>2. Listing'
        BY <3>3, <4>1 DEF Listing, Going
      <4> QED BY <3>1, <4>2
    <3> QED BY <3>2, <3>3
  <2>6. CASE UNCHANGED <<vars, reading>>
    <3>1. Good' /\ world' = world /\ cursor' = cursor /\ steady' = steady
      BY <2>1, <2>6 DEF vars, reading
    <3> QED BY <3>1 DEF Listing, Going
  <2> QED BY <2>2, <2>3, <2>4, <2>5, <2>6 DEF QueriesNext
<1>3. I => Listed
  BY ListingSuffices
<1> QED BY <1>1, <1>2, <1>3, PTL DEF QueriesSpec
=============================================================================
