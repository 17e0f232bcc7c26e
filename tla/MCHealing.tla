------------------------------ MODULE MCHealing ------------------------------
(***************************************************************************)
(* The step "fetch" fails in two runs at a time.                           *)
(***************************************************************************)
EXTENDS Healing

MCMayCall == [c \in Callers |-> Names]
MCStepOf == [s \in Callers |-> "fetch"]
=============================================================================
