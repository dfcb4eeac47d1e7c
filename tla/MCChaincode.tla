---------------------------- MODULE MCChaincode ----------------------------
(* Two batches and all of Clients, one invocation after another.           *)
EXTENDS Chaincode, Clients

MCProposal == AtVersions(Everyone)
=============================================================================
