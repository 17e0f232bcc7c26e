------------------------------ MODULE Migrator ------------------------------
(***************************************************************************)
(* run_migrations of backend/app/db/migrator.py, which every process of    *)
(* the backend calls when it starts: the SQL files not yet in _migrations, *)
(* in their order, each with its row in one transaction; a file that fails *)
(* is logged and the next one tried.  Processes start together, are killed *)
(* and start again; PostgreSQL may fail any statement, and the answer to a *)
(* COMMIT may be lost.                                                     *)
(*                                                                         *)
(* The files are known by their place in the order.  What a file does is   *)
(* counted, not modelled; optional files only differ in how they are       *)
(* logged.                                                                 *)
(***************************************************************************)
EXTENDS Naturals

CONSTANTS
  Processes,
  LastFile      \* the files are 1 .. LastFile

ASSUME MigratorAssumption == LastFile \in Nat

MigrationFiles == 1 .. LastFile

VARIABLES
  migrations,   \* the committed rows of _migrations
  timesApplied, \* how often the effects of each file are in the schema
  bootPc,       \* where each process is
  alreadyApplied, \* the rows each process read
  file,         \* the file it is at
  touched       \* the files whose effects its open transaction holds

schemaVars == <<migrations, timesApplied>>
bootVars == <<bootPc, alreadyApplied, file, touched>>
migratorVars == <<schemaVars, bootVars>>

MigratorTypeOK ==
  /\ migrations \subseteq MigrationFiles
  /\ timesApplied \in [MigrationFiles -> Nat]
  /\ bootPc \in [Processes -> {"down", "file", "insert", "commit", "up"}]
  /\ alreadyApplied \in [Processes -> SUBSET MigrationFiles]
  /\ file \in [Processes -> 1 .. LastFile + 1]
  /\ touched \in [Processes -> SUBSET MigrationFiles]

MigratorInit ==
  /\ migrations = {}
  /\ timesApplied = [f \in MigrationFiles |-> 0]
  /\ bootPc = [p \in Processes |-> "down"]
  /\ alreadyApplied = [p \in Processes |-> {}]
  /\ file = [p \in Processes |-> 1]
  /\ touched = [p \in Processes |-> {}]

-----------------------------------------------------------------------------

(* The table is made if need be, and its rows are read.                      *)
ListApplied(p) ==
  /\ bootPc[p] = "down"
  /\ alreadyApplied' = [alreadyApplied EXCEPT ![p] = migrations]
  /\ file' = [file EXCEPT ![p] = 1]
  /\ bootPc' = [bootPc EXCEPT ![p] = "file"]
  /\ UNCHANGED <<schemaVars, touched>>

(* The next round of the loop, with no transaction open.                     *)
NextFile(p) ==
  /\ bootPc' = [bootPc EXCEPT ![p] = "file"]
  /\ file' = [file EXCEPT ![p] = @ + 1]
  /\ touched' = [touched EXCEPT ![p] = {}]

SkipApplied(p) ==
  /\ bootPc[p] = "file"
  /\ file[p] \in alreadyApplied[p]
  /\ NextFile(p)
  /\ UNCHANGED <<schemaVars, alreadyApplied>>

(* The transaction begins and the file is executed in it.                    *)
Execute(p) ==
  /\ bootPc[p] = "file"
  /\ file[p] \in MigrationFiles \ alreadyApplied[p]
  /\ touched' = [touched EXCEPT ![p] = {file[p]}]
  /\ bootPc' = [bootPc EXCEPT ![p] = "insert"]
  /\ UNCHANGED <<schemaVars, alreadyApplied, file>>

(* Mutant: ON CONFLICT DO NOTHING.                                           *)
InsertRowIfNew(p) ==
  /\ bootPc[p] = "insert"
  /\ \A q \in Processes : bootPc[q] = "commit" => file[q] # file[p]
  /\ bootPc' = [bootPc EXCEPT ![p] = "commit"]
  /\ UNCHANGED <<schemaVars, alreadyApplied, file, touched>>

(* INSERT of the file's name.  The primary key makes it wait for a transaction
   that has inserted the same name, and fail once that is committed.         *)
InsertRow(p) ==
  /\ bootPc[p] = "insert"
  /\ \A q \in Processes : bootPc[q] = "commit" => file[q] # file[p]
  /\ IF file[p] \in migrations
       THEN NextFile(p)
       ELSE /\ bootPc' = [bootPc EXCEPT ![p] = "commit"]
            /\ UNCHANGED <<file, touched>>
  /\ UNCHANGED <<schemaVars, alreadyApplied>>

Committed(p) ==
  /\ migrations' = migrations \cup {file[p]}
  /\ timesApplied' = [f \in MigrationFiles |->
                        IF f \in touched[p] THEN timesApplied[f] + 1 ELSE timesApplied[f]]

(* The loop goes on whether or not the answer arrives.                       *)
Commit(p) ==
  /\ bootPc[p] = "commit"
  /\ Committed(p)
  /\ NextFile(p)
  /\ UNCHANGED alreadyApplied

(* A statement or the COMMIT fails: rolled back and logged, and the loop goes on. *)
FileFails(p) ==
  /\ bootPc[p] \in {"file", "insert", "commit"}
  /\ file[p] \in MigrationFiles \ alreadyApplied[p]
  /\ NextFile(p)
  /\ UNCHANGED <<schemaVars, alreadyApplied>>

Started(p) ==
  /\ bootPc[p] = "file"
  /\ file[p] = LastFile + 1
  /\ bootPc' = [bootPc EXCEPT ![p] = "up"]
  /\ UNCHANGED <<schemaVars, alreadyApplied, file, touched>>

(* The process is killed, its COMMIT perhaps on the way.                     *)
Kill(p) ==
  /\ bootPc[p] # "down"
  /\ \/ UNCHANGED schemaVars
     \/ bootPc[p] = "commit" /\ Committed(p)
  /\ bootPc' = [bootPc EXCEPT ![p] = "down"]
  /\ touched' = [touched EXCEPT ![p] = {}]
  /\ UNCHANGED <<alreadyApplied, file>>

MigratorNext ==
  \E p \in Processes :
    \/ ListApplied(p) \/ SkipApplied(p) \/ Execute(p) \/ InsertRow(p)
    \/ Commit(p) \/ FileFails(p) \/ Started(p) \/ Kill(p)

MigratorSpec == MigratorInit /\ [][MigratorNext]_migratorVars

-----------------------------------------------------------------------------

(* The effects of a file are in the schema exactly when its row is in _migrations,
   and once: whatever fails, is killed, or starts at the same time.          *)
AppliedExactlyWhenRecorded ==
  \A f \in MigrationFiles : timesApplied[f] = IF f \in migrations THEN 1 ELSE 0
=============================================================================
