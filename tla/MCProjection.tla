---------------------------- MODULE MCProjection ----------------------------
(* Two batches and two lots.  Lives are cut down to three events of the    *)
(* kinds that the projection tells apart: signed sources, a handover, both,*)
(* a lot; the run tracing has whole lives.                                 *)
EXTENDS Projection

MCFollows ==
  {<<None, "BatchCreated">>,
   <<"BatchCreated", "PickupOffered">>, <<"BatchCreated", "PickupAccepted">>,
   <<"PickupOffered", "RetailPriceReported">>,
   <<"PickupAccepted", "RetailPriceReported">>}
=============================================================================
