------------------------------ MODULE Clients ------------------------------
(***************************************************************************)
(* Proposals for the model checker: two batches whose clients now and then *)
(* reuse each other's identifiers, an oracle that proposes wrong scores,   *)
(* and sources whose documents do not hold.                                *)
(***************************************************************************)
EXTENDS Engine, Sequences, TLC

\* Identifiers of batch number n.
id(prefix, n) == prefix \o ToString(n)

sources ==
  [s \in System |-> <<"i1", CASE s = "CKS" -> "kc" [] s = "EFATURA" -> "ke"
                              [] s = "HKS" -> "kh" [] s = "UETDS" -> "ku">>]

config == [policy |-> "p1", threshold |-> 66, sources |-> sources]

\* A document of the given type for operation op of batch n; documents are
\* numbered so that those of different batches and types differ.
Slot == [PRODUCER_ELIGIBILITY |-> 1, PURCHASE_INVOICE |-> 2,
         TRADE_NOTIFICATION |-> 3, TRANSPORT_MANIFEST |-> 4,
         FREIGHT_INVOICE |-> 5]

weight(n) == 1000 * n

document(type, n, op) ==
  LET k == Slot[type] + 5 * (n - 1)
  IN  [id |-> id("d", k), type |-> type, issuer |-> "i1",
       key |-> sources[SystemOf[type]][2], src |-> id("d", k),
       nonce |-> id("n", k), batch |-> id("b", n), op |-> op,
       quantity |-> weight(n), price |-> 3, total |-> 3 * n, sound |-> TRUE]

bundle(fn, n, op) == {document(type, n, op) : type \in required(fn)}

\* Operation identifiers are numbered per organisation.
Step == [CreateBatch |-> 1, OfferPickup |-> 2, AcceptPickup |-> 1,
         RecordFreightCost |-> 2, OfferDelivery |-> 3, AcceptDelivery |-> 1,
         ReportRetailPrice |-> 2, EvaluatePrice |-> 1, OpenReview |-> 2,
         ResolveReview |-> 3, Bootstrap |-> 1]

opOf(fn, n) == id("o", Step[fn] + 3 * (n - 1))

transferOf(fn, n) ==
  id("t", 2 * n - (IF fn \in {"OfferPickup", "AcceptPickup"} THEN 1 ELSE 0))

\* What a careful client of batch n sends.
honest(fn, n) ==
  [fn |-> fn, actor |-> authorize[fn][1], role |-> authorize[fn][2],
   op |-> opOf(fn, n), batch |-> id("b", n), expected |-> 0,
   quantity |-> weight(n), transfer |-> transferOf(fn, n),
   cost |-> id("c", n), report |-> id("r", n), lot |-> id("l", n),
   policy |-> "p1", price |-> 5, anomaly |-> id("a", n),
   proposed |-> Score(66, TRUE),
   outcome |-> IF fn = "ResolveReview" THEN "EXPLAINED" ELSE None,
   docs |-> bundle(fn, n, opOf(fn, n)), config |-> config]

Careful(n) == {honest(fn, n) : fn \in DOMAIN authorize}

\* Batch 1 may also be offered below its purchase price; an oracle may propose
\* a wrong score, name an old report, or evaluate again under another anomaly;
\* a source may sign an empty batch, the wrong key may sign, a claim be false.
Alternative ==
  LET create   == honest("CreateBatch", 1)
      evaluate == honest("EvaluatePrice", 1)
  IN  {[honest("ReportRetailPrice", 1) EXCEPT !.price = 2],
       [evaluate EXCEPT !.proposed = Score(-34, FALSE)],
       [evaluate EXCEPT !.proposed = Score(-33, FALSE)],
       [evaluate EXCEPT !.proposed = Score(66, FALSE)],
       [evaluate EXCEPT !.report = "r2"],
       [evaluate EXCEPT !.anomaly = "a2", !.op = "o6"],
       [create EXCEPT !.quantity = 0,
                      !.docs = {[d EXCEPT !.quantity = 0] : d \in @}],
       [create EXCEPT !.docs = {[d EXCEPT !.sound = FALSE] : d \in @}],
       [create EXCEPT !.docs = {[d EXCEPT !.key = "ke"] : d \in @}]}

\* Batch 2 with an identifier of batch 1 that batch 1 may be using meanwhile.
Contended ==
  LET create == honest("CreateBatch", 2)
  IN  {[create EXCEPT !.docs = {[d EXCEPT !.nonce = "n1"] : d \in @}],
       [honest("OfferPickup", 2) EXCEPT !.transfer = "t1"],
       [honest("RecordFreightCost", 2) EXCEPT !.cost = "c1"],
       [honest("ReportRetailPrice", 2) EXCEPT !.lot = "l1"],
       [honest("EvaluatePrice", 2) EXCEPT !.anomaly = "a1"]}

\* More of the kind: documents, transfers and reports of the other batch, one
\* nonce for two documents of a bundle, a total that the price does not give.
Reuse ==
  LET create == honest("CreateBatch", 2)
      pickup == honest("OfferPickup", 2)
      bought == document("PURCHASE_INVOICE", 2, pickup.op)
      instead(d) == {e \in pickup.docs : e.type # d.type} \cup {d}
  IN  {[create EXCEPT !.docs = {[d EXCEPT !.id = "d1"] : d \in @}],
       [create EXCEPT !.docs = {[d EXCEPT !.src = "d1"] : d \in @}],
       [create EXCEPT !.op = "o1"],
       [pickup EXCEPT !.docs = instead([bought EXCEPT !.id = "d2"])],
       [pickup EXCEPT !.docs = instead([bought EXCEPT !.nonce = "n8"])],
       [pickup EXCEPT !.docs = instead([bought EXCEPT !.total = 5])],
       [honest("AcceptPickup", 2) EXCEPT !.transfer = "t1"],
       [honest("OfferDelivery", 2) EXCEPT !.transfer = "t2"],
       [honest("OfferDelivery", 2) EXCEPT !.transfer = "t3"],
       [honest("AcceptDelivery", 2) EXCEPT !.transfer = "t2"],
       [honest("ReportRetailPrice", 2) EXCEPT !.report = "r1"],
       [honest("EvaluatePrice", 2) EXCEPT !.report = "r1"],
       [honest("OpenReview", 2) EXCEPT !.anomaly = "a1"]}

\* Batch 2 under an operation identifier of batch 1.
SameOperation ==
  {[honest(fn, 2) EXCEPT !.op = opOf(fn, 1),
                         !.docs = bundle(fn, 2, opOf(fn, 1))] : fn \in {"CreateBatch",
                         "RecordFreightCost", "ReportRetailPrice", "OpenReview"}}

\* Each of the proposals C against every version its client may have seen.
AtVersions(C) == {[c EXCEPT !.expected = v] : c \in C, v \in 0..MaxVersion}

\* The versions at which a batch can be ready for a command.
Due == [fn \in Mutation |->
          CASE fn = "CreateBatch" -> {0} [] fn = "OfferPickup" -> {1}
            [] fn = "AcceptPickup" -> {2}
            [] fn \in {"RecordFreightCost", "OfferDelivery"} -> {3, 4}
            [] fn = "AcceptDelivery" -> {5} [] fn = "ReportRetailPrice" -> {6}
            [] fn = "EvaluatePrice" -> {7} [] fn = "OpenReview" -> {8}
            [] fn = "ResolveReview" -> {9}]

Timely(C) ==
  UNION {{[c EXCEPT !.expected = v] : v \in Due[c.fn]} :
           c \in {d \in C : d.fn \in Mutation}}
  \cup {c \in C : c.fn = "Bootstrap"}

Everyone ==
  Careful(1) \cup Careful(2) \cup Alternative \cup Contended \cup Reuse
  \cup SameOperation
=============================================================================
