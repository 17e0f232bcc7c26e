------------------------------ MODULE MCBreaker ------------------------------
(* Two callers that share every circuit.                                     *)
EXTENDS AgentBreaker

MCShared == [c \in Callers |-> Names]
=============================================================================
