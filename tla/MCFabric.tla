------------------------------ MODULE MCFabric ------------------------------
(* Concurrent endorsements for two batches.                                *)
EXTENDS Fabric, Clients

MCProposal == 
  Timely(Careful(1) \cup Careful(2) \cup Contended
         \cup {c \in SameOperation : c.fn = "CreateBatch"})
=============================================================================
