----------------------------- MODULE MCQueries ------------------------------
(* The life of batch 1 up to the ceiling of its version, batch 2 up to the  *)
(* offer of its delivery, the creation of batch 3.                          *)
EXTENDS Queries, Clients

MCOrder == <<"b1", "b2", "b3">>

Handed ==
  {honest(fn, 2) : fn \in {"CreateBatch", "OfferPickup", "AcceptPickup",
                           "OfferDelivery", "RecordFreightCost"}}

MCProposal == Timely(Careful(1) \cup Handed \cup {honest("CreateBatch", 3)})
=============================================================================
