------------------------- MODULE MCProposalPipeline -------------------------
(* Model-checking instance of ProposalPipeline: two DAO operations of the  *)
(* same wallet (a two-instruction registerDevice and a one-instruction     *)
(* createSpec) and one direct scheduleDeployment.                          *)
EXTENDS ProposalPipeline

CONSTANTS o1, o2, o3

MCOperation == [o \in Ops |-> CASE o = o1 -> "registerDevice"
                                [] o = o2 -> "createSpec"
                                [] o = o3 -> "scheduleDeployment"]
=============================================================================
