----------------------------- MODULE MCTracing ------------------------------
(* The life of batch 1 up to its review, with an oracle besides the worker, *)
(* and the creation of batch 2.  The freight cost is recorded before the    *)
(* delivery is offered; the run chaincode has both orders.                  *)
EXTENDS Tracing, Clients

MCDigest == [k \in {<<"b1", v>> : v \in 6..8} |-> id("w", k[2])]

\* The reviewer names the anomaly of the worker or of the other oracle.
Reviewed ==
  {[honest("OpenReview", 1) EXCEPT !.anomaly = a] : a \in {"a1", "w7"}}

Unreviewed ==
  {honest(fn, 1) : fn \in DOMAIN authorize \ {"OpenReview", "ResolveReview"}}

\* The batch may be offered below its purchase price, too.
Cheap == {[honest("ReportRetailPrice", 1) EXCEPT !.price = 2]}

Late(c) ==
  \/ c.fn = "RecordFreightCost" /\ c.expected = 4
  \/ c.fn = "OfferDelivery" /\ c.expected = 3

MCProposal ==
  {c \in Timely(Unreviewed \cup Reviewed \cup Cheap \cup {honest("CreateBatch", 2)}) :
     ~Late(c)}
=============================================================================
