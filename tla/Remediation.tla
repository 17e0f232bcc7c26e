---------------------------- MODULE Remediation ----------------------------
(***************************************************************************)
(* BatchRemediationPipeline of backend/app/refactor/batch_pipeline.py: the *)
(* batches of a triage report one after another, the files of a batch in   *)
(* parallel, as many at a time as there are workers.  A unit reads its     *)
(* file, has it fixed, writes it, validates what is on the disk and writes *)
(* the original back if it does not parse; each of these is an await.  A   *)
(* file may be in several batches.                                         *)
(*                                                                         *)
(* A content is known by who wrote it, by whether it parses and by whether *)
(* it is UTF-8: read_text(errors="ignore") drops the bytes that are not.   *)
(* It also normalises line ends, which a rollback does not bring back      *)
(* either; they are left out, no parser here tells them apart.  How a file *)
(* is fixed (deterministically, by Ollama or by Claude, each falling back  *)
(* to the one before) is the environment's choice.  Counters, tokens and   *)
(* costs are left out.                                                     *)
(*                                                                         *)
(* The model is one call of execute().  routes/refactor.py lets two of     *)
(* them run on one project; what follows does not hold across the two.     *)
(***************************************************************************)
EXTENDS Naturals, Sequences, FiniteSets

CONSTANTS
  Files,
  Batches,      \* the files of each batch, in the order of the report
  MaxWorkers,   \* max_workers
  Validated     \* the files whose type has a validator (.py and .cs)

ASSUME RemediationAssumption ==
  /\ Batches \in Seq(SUBSET Files)
  /\ MaxWorkers \in Nat \ {0}
  /\ Validated \subseteq Files

Units == {<<b, f>> : b \in 1 .. Len(Batches), f \in Files}
BatchOf(u) == u[1]
FileOf(u) == u[2]
Owner == <<0, "owner">>
Content == [by : Units \cup {Owner}, parses : BOOLEAN, utf8 : BOOLEAN]
WrittenBy(u) == {c \in Content : c.by = u}

(* What read_text makes of a content.                                        *)
AsRead(c) == {d \in WrittenBy(c.by) : d.utf8 /\ (c.utf8 => d = c)}

VARIABLES
  dryRun,     \* dry_run
  before,     \* history: what was in each file
  disk,       \* the content of each file
  batch,      \* the batch that runs, Len(Batches) + 1 when all are done
  unitPc,     \* where each unit is
  original,   \* what it read
  fixed,      \* what it is about to write
  status,     \* its status in the report
  unchecked   \* history: the units whose fix was accepted without validation

unitVars == <<unitPc, original, fixed, status, unchecked>>
givenVars == <<dryRun, before>>
remediationVars == <<givenVars, disk, batch, unitVars>>

Running == {u \in Units : unitPc[u] \notin {"waiting", "done"}}

RemediationTypeOK ==
  /\ dryRun \in BOOLEAN
  /\ before \in [Files -> Content]
  /\ disk \in [Files -> Content]
  /\ batch \in 1 .. Len(Batches) + 1
  /\ unitPc \in [Units -> {"waiting", "read", "fix", "write", "validate", "rollback", "done"}]
  /\ original \in [Units -> Content]
  /\ fixed \in [Units -> Content]
  /\ status \in [Units -> {"pending", "fixed", "failed", "skipped", "rolled_back"}]
  /\ unchecked \subseteq Units

RemediationInit ==
  /\ dryRun \in BOOLEAN
  /\ before \in [Files -> WrittenBy(Owner)]
  /\ disk = before
  /\ batch = 1
  /\ unitPc = [u \in Units |-> "waiting"]
  /\ original = [u \in Units |-> before[FileOf(u)]]
  /\ fixed = original
  /\ status = [u \in Units |-> "pending"]
  /\ unchecked = {}

End(u, result) ==
  /\ unitPc' = [unitPc EXCEPT ![u] = "done"]
  /\ status' = [status EXCEPT ![u] = result]

-----------------------------------------------------------------------------

(* Mutant: the batches are not awaited one by one.                           *)
AcquireAnyBatch(u) ==
  /\ FileOf(u) \in Batches[BatchOf(u)]
  /\ unitPc[u] = "waiting"
  /\ Cardinality(Running) < MaxWorkers
  /\ \/ unitPc' = [unitPc EXCEPT ![u] = "read"] /\ UNCHANGED status
     \/ End(u, "skipped")
     \/ End(u, "pending")
  /\ UNCHANGED <<givenVars, disk, batch, original, fixed, unchecked>>

(* A unit of the running batch gets hold of the semaphore.  A file that is not
   there is skipped; when the look at it raises, the unit ends as it is.     *)
Acquire(u) ==
  /\ BatchOf(u) = batch /\ FileOf(u) \in Batches[batch]
  /\ unitPc[u] = "waiting"
  /\ Cardinality(Running) < MaxWorkers
  /\ \/ unitPc' = [unitPc EXCEPT ![u] = "read"] /\ UNCHANGED status
     \/ End(u, "skipped")
     \/ End(u, "pending")
  /\ UNCHANGED <<givenVars, disk, batch, original, fixed, unchecked>>

Read(u) ==
  /\ unitPc[u] = "read"
  /\ \E text \in AsRead(disk[FileOf(u)]) : original' = [original EXCEPT ![u] = text]
  /\ unitPc' = [unitPc EXCEPT ![u] = "fix"]
  /\ UNCHANGED <<givenVars, disk, batch, fixed, status, unchecked>>

(* Nothing to fix, or a fixed text, which is written as UTF-8 and may or may not
   parse; a dry run reports it as fixed.                                     *)
Fix(u) ==
  /\ unitPc[u] = "fix"
  /\ \/ End(u, "skipped") /\ UNCHANGED fixed
     \/ dryRun /\ End(u, "fixed") /\ UNCHANGED fixed
     \/ /\ ~dryRun
        /\ \E text \in WrittenBy(u) : text.utf8 /\ fixed' = [fixed EXCEPT ![u] = text]
        /\ unitPc' = [unitPc EXCEPT ![u] = "write"]
        /\ UNCHANGED status
  /\ UNCHANGED <<givenVars, disk, batch, original, unchecked>>

Write(u) ==
  /\ unitPc[u] = "write"
  /\ disk' = [disk EXCEPT ![FileOf(u)] = fixed[u]]
  /\ unitPc' = [unitPc EXCEPT ![u] = "validate"]
  /\ UNCHANGED <<givenVars, batch, original, fixed, status, unchecked>>

(* Reading, fixing or writing raises; a write may leave a file behind that is cut
   off anywhere.                                                             *)
Raise(u) ==
  /\ \/ unitPc[u] \in {"read", "fix", "write", "rollback"} /\ UNCHANGED disk
     \/ /\ unitPc[u] \in {"write", "rollback"}
        /\ \E torn \in WrittenBy(u) : disk' = [disk EXCEPT ![FileOf(u)] = torn]
  /\ End(u, "failed")
  /\ UNCHANGED <<givenVars, batch, original, fixed, unchecked>>

(* Mutant: a validator's verdict is not looked at.                           *)
ValidateNothing(u) ==
  /\ unitPc[u] = "validate"
  /\ End(u, "fixed")
  /\ unchecked' = IF FileOf(u) \in Validated THEN unchecked ELSE unchecked \cup {u}
  /\ UNCHANGED <<givenVars, disk, batch, original, fixed>>

(* _validate_fix: the file parses or does not.  One that has no validator, and
   one whose validator raises or times out, is taken for valid.              *)
Validate(u) ==
  /\ unitPc[u] = "validate"
  /\ \/ FileOf(u) \in Validated /\ disk[FileOf(u)].parses /\ End(u, "fixed") /\ UNCHANGED unchecked
     \/ /\ FileOf(u) \in Validated /\ ~disk[FileOf(u)].parses
        /\ unitPc' = [unitPc EXCEPT ![u] = "rollback"]
        /\ UNCHANGED <<status, unchecked>>
     \/ End(u, "fixed") /\ unchecked' = unchecked \cup {u}
  /\ UNCHANGED <<givenVars, disk, batch, original, fixed>>

(* The original is written back, as it was read.                             *)
Rollback(u) ==
  /\ unitPc[u] = "rollback"
  /\ disk' = [disk EXCEPT ![FileOf(u)] = original[u]]
  /\ End(u, "rolled_back")
  /\ UNCHANGED <<givenVars, batch, original, fixed, unchecked>>

(* The gather returns, whatever its units raised.                            *)
NextBatch ==
  /\ batch <= Len(Batches)
  /\ \A f \in Batches[batch] : unitPc[<<batch, f>>] = "done"
  /\ batch' = batch + 1
  /\ UNCHANGED <<givenVars, disk, unitVars>>

RemediationNext ==
  \/ \E u \in Units :
       Acquire(u) \/ Read(u) \/ Fix(u) \/ Write(u) \/ Raise(u) \/ Validate(u) \/ Rollback(u)
  \/ NextBatch

RemediationSpec == RemediationInit /\ [][RemediationNext]_remediationVars

-----------------------------------------------------------------------------

Touching(f) == {u \in Running : FileOf(u) = f}

(* Whom a content that does not parse is put down to: the unit that wrote it is
   reported as failed, or its fix was one nobody could validate; the owner's file
   did not parse, or was not UTF-8, so that reading it lost what a rollback would
   have to write back.                                                       *)
Reported(f, c) ==
  IF c.by = Owner THEN ~before[f].parses \/ ~before[f].utf8
                  ELSE c.by \in unchecked \/ status[c.by] = "failed"

(* A file that no unit is working on and that does not parse is reported: no fix
   that was found broken stays, and no file that parsed comes back broken.   *)
BrokenFilesAreReported ==
  \A f \in Files : (Touching(f) = {} /\ ~disk[f].parses) => Reported(f, disk[f])

(* Between a unit's read and its write nobody else in the call writes its file, and
   between its write and its end neither: a rollback takes back no fix but its own,
   and writes back what reading made of the file it found.                   *)
RollbackTakesBackItsOwn ==
  \A u \in Units :
    /\ unitPc[u] \in {"fix", "write"} => original[u] \in AsRead(disk[FileOf(u)])
    /\ unitPc[u] \in {"validate", "rollback"} => disk[FileOf(u)] = fixed[u]
=============================================================================
