------------------------------ MODULE MCRecovery ------------------------------
(***************************************************************************)
(* What the system does when something has failed, on small instances: a   *)
(* step that is healed, a run that is called again after its process died, *)
(* a fix that is rolled back, a socket that has broken.  Each property is  *)
(* of one of them; only the one that "which" names moves.                  *)
(***************************************************************************)
EXTENDS MCHealing, MCResume, Remediation, Rooms

VARIABLE which

MCBatches == <<{"a.py", "b.sql"}, {"a.py"}>>

(* The files of the pipeline parse and are UTF-8; one of them may not be.    *)
MCPlain == [by |-> Owner, parses |-> TRUE, utf8 |-> TRUE]

RecoveryInit ==
  /\ which \in {"healing", "resume", "remediation", "rooms"}
  /\ HealingInit /\ (which = "healing" \/ ~redisConfigured)
  /\ RemediationInit /\ (which = "remediation" \/ ~dryRun)
  /\ \A f \in Files : before[f] = MCPlain \/ (which = "remediation" /\ f = "a.py")
  /\ Init /\ RoomsInit

RecoveryNext ==
  /\ UNCHANGED which
  /\ \/ which = "healing" /\ HealingNext /\ UNCHANGED <<vars, remediationVars, roomVars>>
     \/ which = "resume" /\ ResumeNext /\ UNCHANGED <<healingVars, remediationVars, roomVars>>
     \/ which = "remediation" /\ RemediationNext /\ UNCHANGED <<healingVars, vars, roomVars>>
     \/ which = "rooms" /\ RoomsNext /\ UNCHANGED <<healingVars, vars, remediationVars>>

RecoverySpec == RecoveryInit /\ [][RecoveryNext]_<<which, healingVars, vars, remediationVars, roomVars>>
=============================================================================
