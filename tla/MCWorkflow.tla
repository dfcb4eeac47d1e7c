----------------------------- MODULE MCWorkflow -----------------------------
(* Two roles of the regulator that chose the same operation identifier, or *)
(* one evaluation that nobody rivals.                                      *)
EXTENDS Workflow

MCSharedKey == [r \in Row |-> "k"]
=============================================================================
