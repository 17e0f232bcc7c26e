------------------------------ MODULE MCBilling ------------------------------
(* Two purchases of a user, one of them for an organization, and the end of a
   subscription.                                                             *)
EXTENDS Billing

MCKind == [e \in Events |-> IF e = "cancel" THEN "deleted" ELSE "completed"]
MCBought == [e \in Events |-> CASE e = "buyPro" -> "pro" [] e = "buyTeam" -> "team" [] OTHER -> "free"]
=============================================================================
