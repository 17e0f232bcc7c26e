--------------------------- MODULE PlatformProofs ----------------------------
(***************************************************************************)
(* Proofs about the services around the engine: Remediation for every set  *)
(* of files, every sequence of batches and every number of workers;        *)
(* Migrator for every set of processes and number of files; StreamQueue    *)
(* for every set of workers, batch size and number of messages; Rooms for  *)
(* every finite set of sockets.  The four share no state.                  *)
(***************************************************************************)
EXTENDS Remediation, Migrator, StreamQueue, Rooms, SequenceFacts

-----------------------------------------------------------------------------
(* Remediation                                                             *)

(* Units run in the running batch only, and only on its files.               *)
OneBatchRuns ==
  \A u \in Running : BatchOf(u) = batch /\ FileOf(u) \in Batches[batch]

(* A content that the report accounts for, or that is sound: it parses, and still
   does when it has been read and written back.                              *)
Accounted(f, c) == Reported(f, c) \/ (c.parses /\ c.utf8)

EndedWhenFailed == \A u \in Units : status[u] = "failed" => unitPc[u] = "done"

ContentsAccounted ==
  /\ \A f \in Files : Touching(f) = {} => Accounted(f, disk[f])
  /\ \A u \in Units :
       unitPc[u] \in {"read", "fix", "write"} => Accounted(FileOf(u), disk[FileOf(u)])
  /\ \A u \in Units :
       unitPc[u] \in {"fix", "write", "validate", "rollback"} => Accounted(FileOf(u), original[u])

FixedByItself(u) == fixed[u].by = u /\ fixed[u].utf8

RemediationInv ==
  /\ RemediationTypeOK
  /\ OneBatchRuns
  /\ EndedWhenFailed
  /\ \A u \in Units : unitPc[u] \in {"write", "validate", "rollback"} => FixedByItself(u)
  /\ ContentsAccounted
  /\ RollbackTakesBackItsOwn

LEMMA UnitsAndContents ==
  /\ \A u \in Units : FileOf(u) \in Files /\ BatchOf(u) \in 1 .. Len(Batches)
  /\ \A u, v \in Units : (FileOf(u) = FileOf(v) /\ BatchOf(u) = BatchOf(v)) => u = v
  /\ Owner \notin Units
<1>1. \A u \in Units : u[1] # 0
  BY DEF Units
<1> QED
  BY <1>1 DEF Units, FileOf, BatchOf, Owner

(* A text that is read is a content, written by whom the file was, and accounted
   for like the file.                                                        *)
LEMMA ReadingAccounts ==
  ASSUME NEW f \in Files, NEW c, Accounted(f, c), NEW text \in AsRead(c)
  PROVE  text \in Content /\ Accounted(f, text)
  BY DEF AsRead, WrittenBy, Accounted, Reported

(* Two units that run do not share a file.                                   *)
LEMMA FilesAreNotShared ==
  ASSUME OneBatchRuns, NEW u \in Running, NEW v \in Running, FileOf(u) = FileOf(v)
  PROVE  u = v
  BY UnitsAndContents DEF OneBatchRuns, Running

LEMMA RemediationInitInv == RemediationInit => RemediationInv
<1> SUFFICES ASSUME RemediationInit PROVE RemediationInv
  OBVIOUS
<1>1. RemediationTypeOK
  BY UnitsAndContents, RemediationAssumption DEF RemediationInit, RemediationTypeOK, WrittenBy
<1>2. \A f \in Files : Accounted(f, disk[f])
  BY DEF RemediationInit, Accounted, Reported, WrittenBy
<1> QED
  BY <1>1, <1>2 DEF RemediationInit, RemediationInv, OneBatchRuns, Running, EndedWhenFailed,
                    ContentsAccounted, RollbackTakesBackItsOwn

(* What the report accounts for stays accounted for while a unit moves on.   *)
LEMMA AccountedStays ==
  ASSUME EndedWhenFailed, NEW u \in Units, unitPc[u] # "done", unchecked \subseteq unchecked',
         \A v \in Units \ {u} : status'[v] = status[v],
         UNCHANGED before, NEW f \in Files, NEW c \in Content, Accounted(f, c)
  PROVE  Accounted(f, c)'
<1>1. CASE c.by = Owner
  BY <1>1 DEF Accounted, Reported
<1>2. CASE c.by # Owner
  <2>1. c.by \in Units
    BY <1>2 DEF Content
  <2>2. status[c.by] = "failed" => status'[c.by] = "failed"
    BY <2>1 DEF EndedWhenFailed
  <2> QED
    BY <1>2, <2>2 DEF Accounted, Reported
<1> QED
  BY <1>1, <1>2

(* The steps of a unit that is running: it moves on alone, touches no file but its
   own and leaves the other units' contents alone.                           *)
MovesAlone(u, pc) ==
  /\ unitPc' = [unitPc EXCEPT ![u] = pc]
  /\ UNCHANGED <<batch, before>>
  /\ \A v \in Units \ {u} :
       status'[v] = status[v] /\ original'[v] = original[v] /\ fixed'[v] = fixed[v]
  /\ \A f \in Files \ {FileOf(u)} : disk'[f] = disk[f]
  /\ unchecked \subseteq unchecked'

LEMMA OthersKeepInv ==
  ASSUME RemediationInv, NEW u \in Units, NEW pc, MovesAlone(u, pc), u \in Running, RemediationTypeOK',
         status'[u] = "failed" => pc = "done",
         pc \in {"write", "validate", "rollback"} => FixedByItself(u)',
         pc \in {"fix", "write", "done"} => Accounted(FileOf(u), disk[FileOf(u)])',
         pc # "waiting" /\ pc # "read",
         pc \in {"fix", "write", "validate", "rollback"} => Accounted(FileOf(u), original[u])',
         pc \in {"fix", "write"} => original'[u] \in AsRead(disk'[FileOf(u)]),
         pc \in {"validate", "rollback"} => disk'[FileOf(u)] = fixed'[u]
  PROVE  RemediationInv'
<1> USE DEF RemediationInv
<1>1. unitPc'[u] = pc /\ \A v \in Units \ {u} : unitPc'[v] = unitPc[v]
  BY DEF MovesAlone, RemediationTypeOK
<1>2. Running' \subseteq Running /\ Running \subseteq Running' \cup {u}
  BY <1>1 DEF Running
<1>3. OneBatchRuns'
  BY <1>2 DEF OneBatchRuns, MovesAlone
<1>4. EndedWhenFailed'
  BY <1>1 DEF EndedWhenFailed, MovesAlone
<1>5. \A v \in Units : unitPc'[v] \in {"write", "validate", "rollback"} => FixedByItself(v)'
  BY <1>1 DEF MovesAlone, FixedByItself
<1>6. unitPc[u] # "done"
  BY DEF Running
<1>7. \A f \in Files, c \in Content : Accounted(f, c) => Accounted(f, c)'
  BY <1>6, AccountedStays DEF MovesAlone
<1>8. ASSUME NEW v \in Units \ {u}, v \in Running PROVE FileOf(v) \in Files \ {FileOf(u)}
  BY <1>8, UnitsAndContents, FilesAreNotShared
<1>9. ASSUME NEW f \in Files, Touching(f)' = {} PROVE Accounted(f, disk[f])'
  <2>1. CASE f = FileOf(u)
    <3>1. pc = "done"
      BY <1>1, <1>9, <2>1 DEF Touching, Running
    <3> QED
      BY <2>1, <3>1
  <2>2. CASE f # FileOf(u)
    <3>1. Touching(f) = {}
      BY <1>2, <1>9, <2>2 DEF Touching
    <3>2. disk'[f] = disk[f] /\ disk[f] \in Content /\ Accounted(f, disk[f])
      BY <2>2, <3>1 DEF ContentsAccounted, MovesAlone, RemediationTypeOK
    <3> QED
      BY <1>7, <3>2 DEF Accounted, Reported
  <2> QED
    BY <2>1, <2>2
<1>10. ASSUME NEW v \in Units, unitPc'[v] \in {"read", "fix", "write"}
       PROVE  Accounted(FileOf(v), disk[FileOf(v)])'
  <2>1. CASE v = u
    BY <1>1, <1>10, <2>1
  <2>2. CASE v # u
    <3>1. v \in Running /\ unitPc[v] \in {"read", "fix", "write"}
      BY <1>1, <1>10, <2>2 DEF Running
    <3>2. /\ disk'[FileOf(v)] = disk[FileOf(v)] /\ FileOf(v) \in Files
          /\ disk[FileOf(v)] \in Content /\ Accounted(FileOf(v), disk[FileOf(v)])
      BY <1>8, <2>2, <3>1 DEF ContentsAccounted, MovesAlone, RemediationTypeOK
    <3> QED
      BY <1>7, <3>2 DEF Accounted, Reported
  <2> QED
    BY <2>1, <2>2
<1>11. ASSUME NEW v \in Units, unitPc'[v] \in {"fix", "write", "validate", "rollback"}
       PROVE  Accounted(FileOf(v), original[v])'
  <2>1. CASE v = u
    BY <1>1, <1>11, <2>1
  <2>2. CASE v # u
    <3>1. /\ original'[v] = original[v] /\ FileOf(v) \in Files
          /\ original[v] \in Content /\ Accounted(FileOf(v), original[v])
      BY <1>1, <1>11, <2>2, UnitsAndContents DEF ContentsAccounted, MovesAlone, RemediationTypeOK
    <3> QED
      BY <1>7, <3>1 DEF Accounted, Reported
  <2> QED
    BY <2>1, <2>2
<1>12. ContentsAccounted'
  BY <1>9, <1>10, <1>11 DEF ContentsAccounted
<1>13. RollbackTakesBackItsOwn'
  <2> SUFFICES ASSUME NEW v \in Units
               PROVE  /\ unitPc'[v] \in {"fix", "write"} => original'[v] \in AsRead(disk'[FileOf(v)])
                      /\ unitPc'[v] \in {"validate", "rollback"} => disk'[FileOf(v)] = fixed'[v]
    BY DEF RollbackTakesBackItsOwn, AsRead, WrittenBy
  <2>1. CASE v = u
    BY <1>1, <2>1
  <2>2. CASE v # u /\ v \in Running
    BY <1>1, <1>8, <2>2 DEF RollbackTakesBackItsOwn, MovesAlone
  <2>3. CASE v # u /\ v \notin Running
    BY <1>1, <2>3 DEF Running
  <2> QED
    BY <2>1, <2>2, <2>3
<1> QED
  BY <1>3, <1>4, <1>5, <1>12, <1>13

LEMMA RemediationStepInv == RemediationInv /\ [RemediationNext]_remediationVars => RemediationInv'
<1> SUFFICES ASSUME RemediationInv, [RemediationNext]_remediationVars PROVE RemediationInv'
  OBVIOUS
<1> USE DEF RemediationInv
<1>1. CASE UNCHANGED remediationVars
  BY <1>1 DEF remediationVars, unitVars, RemediationTypeOK, OneBatchRuns, Running, EndedWhenFailed,
              givenVars, ContentsAccounted, Touching, Accounted, Reported, FixedByItself,
              RollbackTakesBackItsOwn, AsRead, WrittenBy
<1>2. ASSUME NEW u \in Units, Acquire(u) PROVE RemediationInv'
  <2>1. /\ BatchOf(u) = batch /\ FileOf(u) \in Batches[batch] /\ unitPc[u] = "waiting"
        /\ UNCHANGED <<dryRun, before, disk, batch, original, fixed, unchecked>>
    BY <1>2 DEF Acquire, givenVars
  <2>2. PICK pc \in {"read", "done"} :
          /\ unitPc' = [unitPc EXCEPT ![u] = pc]
          /\ status' = status \/ \E result \in {"skipped", "pending"} :
                                   status' = [status EXCEPT ![u] = result]
    BY <1>2 DEF Acquire, End
  <2>3. unitPc'[u] = pc /\ \A v \in Units \ {u} : unitPc'[v] = unitPc[v]
    BY <2>2 DEF RemediationTypeOK
  <2>4. \A v \in Units : status'[v] = "failed" <=> status[v] = "failed" /\ v # u
    BY <2>1, <2>2 DEF EndedWhenFailed, RemediationTypeOK
  <2>5. RemediationTypeOK'
    BY <2>1, <2>2 DEF RemediationTypeOK
  <2>6. u \notin Running /\ Running' \subseteq Running \cup {u} /\ Running \subseteq Running'
    BY <2>1, <2>3 DEF Running
  <2>7. OneBatchRuns'
    BY <2>1, <2>6 DEF OneBatchRuns
  <2>8. EndedWhenFailed'
    BY <2>3, <2>4 DEF EndedWhenFailed
  <2>9. Touching(FileOf(u)) = {}
    <3> SUFFICES ASSUME NEW v \in Running, FileOf(v) = FileOf(u) PROVE FALSE
      BY DEF Touching
    <3>1. BatchOf(v) = BatchOf(u) /\ v \in Units
      BY <2>1 DEF OneBatchRuns, Running
    <3> QED
      BY <2>6, <3>1, UnitsAndContents
  <2>10. \A f \in Files, c \in Content : Accounted(f, c) => Accounted(f, c)'
    <3> SUFFICES ASSUME NEW f \in Files, NEW c \in Content, Accounted(f, c) PROVE Accounted(f, c)'
      OBVIOUS
    <3>1. CASE c.by = Owner
      BY <2>1, <3>1 DEF Accounted, Reported
    <3>2. CASE c.by # Owner
      <4>1. c.by \in Units
        BY <3>2 DEF Content
      <4>2. status[c.by] = "failed" => status'[c.by] = "failed"
        BY <2>1, <2>4, <4>1 DEF EndedWhenFailed
      <4> QED
        BY <2>1, <3>2, <4>2 DEF Accounted, Reported
    <3> QED
      BY <3>1, <3>2
  <2>11. \A f \in Files : Touching(f)' = {} => Touching(f) = {}
    BY <2>6 DEF Touching
  <2>12. ContentsAccounted'
    <3>1. \A f \in Files : Touching(f)' = {} => Accounted(f, disk[f])'
      <4> SUFFICES ASSUME NEW f \in Files, Touching(f)' = {} PROVE Accounted(f, disk[f])'
        OBVIOUS
      <4>1. disk'[f] = disk[f] /\ disk[f] \in Content /\ Accounted(f, disk[f])
        BY <2>1, <2>11 DEF ContentsAccounted, RemediationTypeOK
      <4> QED
        BY <2>10, <4>1 DEF Accounted, Reported
    <3>2. \A v \in Units : unitPc'[v] \in {"read", "fix", "write"} =>
                            Accounted(FileOf(v), disk[FileOf(v)])'
      <4> SUFFICES ASSUME NEW v \in Units, unitPc'[v] \in {"read", "fix", "write"}
                   PROVE  Accounted(FileOf(v), disk[FileOf(v)])'
        OBVIOUS
      <4>1. Accounted(FileOf(v), disk[FileOf(v)]) /\ FileOf(v) \in Files
        BY <2>3, <2>9, UnitsAndContents DEF ContentsAccounted
      <4>2. disk' = disk /\ disk[FileOf(v)] \in Content
        BY <2>1, <4>1 DEF RemediationTypeOK
      <4> QED
        BY <2>10, <4>1, <4>2 DEF Accounted, Reported
    <3>3. \A v \in Units : unitPc'[v] \in {"fix", "write", "validate", "rollback"} =>
                            Accounted(FileOf(v), original[v])'
      <4> SUFFICES ASSUME NEW v \in Units, unitPc'[v] \in {"fix", "write", "validate", "rollback"}
                   PROVE  Accounted(FileOf(v), original[v])'
        OBVIOUS
      <4>1. /\ Accounted(FileOf(v), original[v]) /\ FileOf(v) \in Files
            /\ original' = original /\ original[v] \in Content
        BY <2>1, <2>3, UnitsAndContents DEF ContentsAccounted, RemediationTypeOK
      <4> QED
        BY <2>10, <4>1 DEF Accounted, Reported
    <3> QED
      BY <3>1, <3>2, <3>3 DEF ContentsAccounted
  <2>13. RollbackTakesBackItsOwn'
    BY <2>1, <2>3 DEF RollbackTakesBackItsOwn, AsRead, WrittenBy
  <2>14. \A v \in Units : unitPc'[v] \in {"write", "validate", "rollback"} => FixedByItself(v)'
    BY <2>1, <2>3 DEF FixedByItself
  <2> QED
    BY <2>5, <2>7, <2>8, <2>12, <2>13, <2>14
<1>3. ASSUME NEW u \in Units, Read(u) PROVE RemediationInv'
  <2>1. /\ unitPc[u] = "read" /\ unitPc' = [unitPc EXCEPT ![u] = "fix"]
        /\ UNCHANGED <<dryRun, before, disk, batch, fixed, status, unchecked>>
        /\ \E text \in AsRead(disk[FileOf(u)]) : original' = [original EXCEPT ![u] = text]
    BY <1>3 DEF Read, givenVars
  <2>2. PICK text \in AsRead(disk[FileOf(u)]) : original' = [original EXCEPT ![u] = text]
    BY <2>1
  <2>3. u \in Running /\ MovesAlone(u, "fix")
    BY <2>1, <2>2 DEF Running, MovesAlone, RemediationTypeOK
  <2>4. /\ FileOf(u) \in Files /\ disk[FileOf(u)] \in Content
        /\ text \in Content /\ Accounted(FileOf(u), text)
    BY <2>1, UnitsAndContents, ReadingAccounts DEF ContentsAccounted, RemediationTypeOK
  <2>5. RemediationTypeOK' /\ original'[u] = text
    BY <2>1, <2>2, <2>4 DEF RemediationTypeOK
  <2>6. status'[u] # "failed"
    BY <2>1 DEF EndedWhenFailed
  <2>7. Accounted(FileOf(u), original[u])' /\ Accounted(FileOf(u), disk[FileOf(u)])'
    BY <2>1, <2>4, <2>5 DEF Accounted, Reported, ContentsAccounted
  <2>8. original'[u] \in AsRead(disk'[FileOf(u)])
    BY <2>1, <2>5
  <2> QED
    BY <2>3, <2>5, <2>6, <2>7, <2>8, OthersKeepInv
<1>4. ASSUME NEW u \in Units, Fix(u) PROVE RemediationInv'
  <2>1. unitPc[u] = "fix" /\ UNCHANGED <<dryRun, before, disk, batch, original, unchecked>>
    BY <1>4 DEF Fix, givenVars
  <2>2. PICK pc \in {"write", "done"} :
          /\ unitPc' = [unitPc EXCEPT ![u] = pc]
          /\ \/ /\ pc = "done" /\ fixed' = fixed
                /\ \E result \in {"skipped", "fixed"} : status' = [status EXCEPT ![u] = result]
             \/ /\ pc = "write" /\ status' = status
                /\ \E text \in WrittenBy(u) :
                     text.utf8 /\ fixed' = [fixed EXCEPT ![u] = text]
    BY <1>4 DEF Fix, End
  <2>3. RemediationTypeOK'
    <3>1. fixed' \in [Units -> Content]
      BY <2>2 DEF RemediationTypeOK, WrittenBy
    <3>2. unitPc' \in [Units -> {"waiting", "read", "fix", "write", "validate", "rollback", "done"}]
      BY <2>2 DEF RemediationTypeOK
    <3>3. status' \in [Units -> {"pending", "fixed", "failed", "skipped", "rolled_back"}]
      BY <2>2 DEF RemediationTypeOK
    <3> QED
      BY <2>1, <3>1, <3>2, <3>3 DEF RemediationTypeOK
  <2>4. u \in Running /\ MovesAlone(u, pc)
    BY <2>1, <2>2 DEF Running, MovesAlone, RemediationTypeOK
  <2>5. status'[u] # "failed" /\ (pc = "write" => FixedByItself(u)')
    BY <2>1, <2>2 DEF EndedWhenFailed, FixedByItself, WrittenBy, RemediationTypeOK
  <2>6. /\ original[u] \in AsRead(disk[FileOf(u)]) /\ FileOf(u) \in Files
        /\ original[u] \in Content /\ disk[FileOf(u)] \in Content
        /\ Accounted(FileOf(u), original[u]) /\ Accounted(FileOf(u), disk[FileOf(u)])
    BY <2>1, UnitsAndContents DEF RollbackTakesBackItsOwn, ContentsAccounted, RemediationTypeOK
  <2>7. \A c \in Content : Accounted(FileOf(u), c) => Accounted(FileOf(u), c)'
    <3>1. unitPc[u] # "done" /\ EndedWhenFailed /\ unchecked \subseteq unchecked'
      BY <2>1
    <3> QED
      BY <2>1, <2>4, <2>6, <3>1, AccountedStays DEF MovesAlone
  <2>8. Accounted(FileOf(u), original[u])' /\ Accounted(FileOf(u), disk[FileOf(u)])'
    BY <2>1, <2>6, <2>7 DEF Accounted, Reported
  <2>9. original'[u] \in AsRead(disk'[FileOf(u)])
    BY <2>1, <2>6
  <2> QED
    BY <2>2, <2>3, <2>4, <2>5, <2>8, <2>9, OthersKeepInv
<1>5. ASSUME NEW u \in Units, Write(u) PROVE RemediationInv'
  <2>1. /\ unitPc[u] = "write"
        /\ disk' = [disk EXCEPT ![FileOf(u)] = fixed[u]]
        /\ unitPc' = [unitPc EXCEPT ![u] = "validate"]
        /\ UNCHANGED <<dryRun, before, batch, original, fixed, status, unchecked>>
    BY <1>5 DEF Write, givenVars
  <2>2. RemediationTypeOK' /\ disk'[FileOf(u)] = fixed[u]
    BY <2>1, UnitsAndContents DEF RemediationTypeOK
  <2>3. u \in Running /\ MovesAlone(u, "validate")
    BY <2>1 DEF Running, MovesAlone, RemediationTypeOK
  <2>4. status'[u] # "failed" /\ FixedByItself(u)' /\ Accounted(FileOf(u), original[u])'
    BY <2>1 DEF EndedWhenFailed, ContentsAccounted, FixedByItself, Accounted, Reported
  <2>5. disk'[FileOf(u)] = fixed'[u]
    BY <2>1, <2>2
  <2> QED
    BY <2>2, <2>3, <2>4, <2>5, OthersKeepInv
<1>6. ASSUME NEW u \in Units, Raise(u) PROVE RemediationInv'
  <2>1. /\ unitPc[u] \in {"read", "fix", "write", "rollback"}
        /\ unitPc' = [unitPc EXCEPT ![u] = "done"]
        /\ status' = [status EXCEPT ![u] = "failed"]
        /\ UNCHANGED <<dryRun, before, batch, original, fixed, unchecked>>
    BY <1>6 DEF Raise, End, givenVars
  <2>2. \/ disk' = disk
        \/ \E torn \in WrittenBy(u) : disk' = [disk EXCEPT ![FileOf(u)] = torn]
    BY <1>6 DEF Raise
  <2>3. RemediationTypeOK'
    BY <2>1, <2>2, UnitsAndContents DEF RemediationTypeOK, WrittenBy
  <2>4. u \in Running /\ MovesAlone(u, "done") /\ status'[u] = "failed"
    BY <2>1, <2>2 DEF Running, MovesAlone, RemediationTypeOK
  <2>5. FileOf(u) \in Files /\ disk[FileOf(u)] \in Content /\ u # Owner
    BY UnitsAndContents DEF RemediationTypeOK
  <2>6. CASE disk'[FileOf(u)].by = u
    <3>1. Accounted(FileOf(u), disk[FileOf(u)])'
      BY <2>4, <2>5, <2>6 DEF Accounted, Reported
    <3> QED
      BY <2>3, <2>4, <3>1, OthersKeepInv
  <2>7. CASE disk' = disk /\ unitPc[u] \in {"read", "fix", "write"}
    <3>1. Accounted(FileOf(u), disk[FileOf(u)])
      BY <2>7 DEF ContentsAccounted
    <3>2. unitPc[u] # "done" /\ EndedWhenFailed /\ unchecked \subseteq unchecked' /\ UNCHANGED before
      BY <2>1
    <3>3. \A c \in Content : Accounted(FileOf(u), c) => Accounted(FileOf(u), c)'
      BY <2>4, <2>5, <3>2, AccountedStays DEF MovesAlone
    <3>4. Accounted(FileOf(u), disk[FileOf(u)])'
      BY <2>5, <2>7, <3>1, <3>3 DEF Accounted, Reported
    <3> QED
      BY <2>3, <2>4, <3>4, OthersKeepInv
  <2>8. CASE disk' = disk /\ unitPc[u] = "rollback"
    <3>1. disk'[FileOf(u)].by = u
      BY <2>8 DEF RollbackTakesBackItsOwn, FixedByItself
    <3> QED
      BY <2>6, <3>1
  <2>9. disk' = disk \/ disk'[FileOf(u)].by = u
    BY <2>2, <2>5 DEF WrittenBy, RemediationTypeOK
  <2> QED
    BY <2>1, <2>6, <2>7, <2>8, <2>9
<1>7. ASSUME NEW u \in Units, Validate(u) PROVE RemediationInv'
  <2>1. /\ unitPc[u] = "validate"
        /\ UNCHANGED <<dryRun, before, disk, batch, original, fixed>>
    BY <1>7 DEF Validate, givenVars
  <2>2. PICK pc \in {"done", "rollback"} :
          /\ unitPc' = [unitPc EXCEPT ![u] = pc]
          /\ \/ /\ pc = "done" /\ status' = [status EXCEPT ![u] = "fixed"]
                /\ \/ disk[FileOf(u)].parses /\ unchecked' = unchecked
                   \/ unchecked' = unchecked \cup {u}
             \/ pc = "rollback" /\ UNCHANGED <<status, unchecked>>
    BY <1>7 DEF Validate, End
  <2>3. RemediationTypeOK'
    BY <2>1, <2>2 DEF RemediationTypeOK
  <2>4. u \in Running /\ MovesAlone(u, pc)
    BY <2>1, <2>2 DEF Running, MovesAlone, RemediationTypeOK
  <2>5. status'[u] # "failed"
    BY <2>1, <2>2 DEF EndedWhenFailed, RemediationTypeOK
  <2>6. /\ disk[FileOf(u)] = fixed[u] /\ FixedByItself(u) /\ u # Owner
        /\ FileOf(u) \in Files /\ original[u] \in Content /\ Accounted(FileOf(u), original[u])
    BY <2>1, UnitsAndContents DEF RollbackTakesBackItsOwn, ContentsAccounted, RemediationTypeOK
  <2>7. pc = "done" => Accounted(FileOf(u), disk[FileOf(u)])'
    BY <2>1, <2>2, <2>6 DEF Accounted, Reported, FixedByItself
  <2>8. pc = "rollback" => Accounted(FileOf(u), original[u])'
    BY <2>1, <2>2, <2>6 DEF Accounted, Reported
  <2>9. disk'[FileOf(u)] = fixed'[u] /\ FixedByItself(u)'
    BY <2>1, <2>6 DEF FixedByItself
  <2> QED
    BY <2>2, <2>3, <2>4, <2>5, <2>7, <2>8, <2>9, OthersKeepInv
<1>8. ASSUME NEW u \in Units, Rollback(u) PROVE RemediationInv'
  <2>1. /\ unitPc[u] = "rollback"
        /\ disk' = [disk EXCEPT ![FileOf(u)] = original[u]]
        /\ unitPc' = [unitPc EXCEPT ![u] = "done"]
        /\ status' = [status EXCEPT ![u] = "rolled_back"]
        /\ UNCHANGED <<dryRun, before, batch, original, fixed, unchecked>>
    BY <1>8 DEF Rollback, End, givenVars
  <2>2. RemediationTypeOK' /\ disk'[FileOf(u)] = original[u] /\ status'[u] # "failed"
    BY <2>1, UnitsAndContents DEF RemediationTypeOK
  <2>3. u \in Running /\ MovesAlone(u, "done")
    BY <2>1 DEF Running, MovesAlone, RemediationTypeOK
  <2>4. /\ Accounted(FileOf(u), original[u]) /\ unitPc[u] # "done" /\ unchecked \subseteq unchecked'
        /\ FileOf(u) \in Files /\ original[u] \in Content /\ UNCHANGED before
    BY <2>1, UnitsAndContents DEF ContentsAccounted, RemediationTypeOK
  <2>5. Accounted(FileOf(u), original[u]) =>
          \A c \in Content : c = original[u] => Accounted(FileOf(u), c)'
    BY <2>3, <2>4, AccountedStays DEF MovesAlone
  <2>6. Accounted(FileOf(u), disk[FileOf(u)])'
    BY <2>2, <2>4, <2>5 DEF Accounted, Reported
  <2> QED
    BY <2>2, <2>3, <2>6, OthersKeepInv
<1>9. CASE NextBatch
  <2>1. /\ batch <= Len(Batches) /\ batch' = batch + 1 /\ UNCHANGED <<dryRun, before, disk, unitVars>>
        /\ \A f \in Batches[batch] : unitPc[<<batch, f>>] = "done"
    BY <1>9 DEF NextBatch, givenVars
  <2>2. Running = {}
    <3> SUFFICES ASSUME NEW u \in Running PROVE FALSE
      OBVIOUS
    <3>1. u = <<batch, FileOf(u)>> /\ FileOf(u) \in Batches[batch]
      BY DEF OneBatchRuns, Running, Units, BatchOf, FileOf
    <3> QED
      BY <2>1, <3>1 DEF Running
  <2>3. Running' = {}
    BY <2>1, <2>2 DEF unitVars, Running
  <2>4. RemediationTypeOK'
    BY <2>1, RemediationAssumption DEF unitVars, RemediationTypeOK
  <2> QED
    BY <2>1, <2>2, <2>3, <2>4 DEF unitVars, OneBatchRuns, EndedWhenFailed, ContentsAccounted, Touching,
                                  Accounted, Reported, FixedByItself, RollbackTakesBackItsOwn,
                                  AsRead, WrittenBy
<1> QED
  BY <1>1, <1>2, <1>3, <1>4, <1>5, <1>6, <1>7, <1>8, <1>9 DEF RemediationNext

(* The inductive invariant of the batch pipeline.                            *)
THEOREM RemediationInvariant == RemediationSpec => []RemediationInv
<1>1. RemediationInit => RemediationInv
  BY RemediationInitInv
<1>2. RemediationInv /\ [RemediationNext]_remediationVars => RemediationInv'
  BY RemediationStepInv
<1> QED
  BY <1>1, <1>2, PTL DEF RemediationSpec

(* Every variable of the batch pipeline keeps its type.                      *)
THEOREM RemediationTypes == RemediationSpec => []RemediationTypeOK
<1>1. RemediationInv => RemediationTypeOK
  BY DEF RemediationInv
<1> QED
  BY <1>1, RemediationInvariant, PTL

(* Whatever fails, _process_unit leaves no file that does not parse but one that a
   unit reported as failed has written, or one accepted without a validation, or
   one that did not parse, or was not UTF-8, to begin with.                  *)
THEOREM BrokenAreReported == RemediationSpec => []BrokenFilesAreReported
<1>1. RemediationInv => BrokenFilesAreReported
  BY DEF RemediationInv, ContentsAccounted, Accounted, BrokenFilesAreReported
<1> QED
  BY <1>1, RemediationInvariant, PTL

(* The rollback of _process_unit takes back its own fix and no other, however the
   units of a call interleave, and writes back what reading made of the file.  *)
THEOREM RollbackIsOwn == RemediationSpec => []RollbackTakesBackItsOwn
<1>1. RemediationInv => RollbackTakesBackItsOwn
  BY DEF RemediationInv
<1> QED
  BY <1>1, RemediationInvariant, PTL

-----------------------------------------------------------------------------
(* Migrator                                                                *)

(* A transaction past its first statement holds the effects of one file, and the
   primary key keeps the name of that file to it until it ends: no other open
   transaction has inserted the name and no committed row has it.            *)
OpenTransaction(p) ==
  /\ bootPc[p] \in {"insert", "commit"} => file[p] \in MigrationFiles /\ touched[p] = {file[p]}
  /\ bootPc[p] = "commit" => file[p] \notin migrations

NamesAreLocked ==
  \A p, q \in Processes :
    (bootPc[p] = "commit" /\ bootPc[q] = "commit" /\ file[p] = file[q]) => p = q

MigratorInv ==
  /\ MigratorTypeOK
  /\ \A p \in Processes : OpenTransaction(p)
  /\ NamesAreLocked
  /\ AppliedExactlyWhenRecorded

LEMMA MigratorInitInv == MigratorInit => MigratorInv
  BY MigratorAssumption
     DEF MigratorInit, MigratorInv, MigratorTypeOK, OpenTransaction, NamesAreLocked,
         AppliedExactlyWhenRecorded, MigrationFiles

(* The next round of the loop leaves no transaction open.                    *)
LEMMA RoundKeepsInv ==
  ASSUME MigratorInv, NEW p \in Processes, file[p] \in MigrationFiles, NextFile(p),
         UNCHANGED <<schemaVars, alreadyApplied>>
  PROVE  MigratorInv'
<1>1. MigratorTypeOK'
  BY MigratorAssumption
     DEF MigratorInv, MigratorTypeOK, NextFile, schemaVars, MigrationFiles
<1>2. \A q \in Processes : OpenTransaction(q)'
  BY DEF MigratorInv, MigratorTypeOK, OpenTransaction, NextFile, schemaVars
<1>3. NamesAreLocked'
  BY DEF MigratorInv, MigratorTypeOK, NamesAreLocked, NextFile
<1>4. AppliedExactlyWhenRecorded'
  BY DEF MigratorInv, AppliedExactlyWhenRecorded, schemaVars
<1> QED
  BY <1>1, <1>2, <1>3, <1>4 DEF MigratorInv

(* What a commit makes of the schema: its file was not there and is there once,
   whatever becomes of the process.                                          *)
LEMMA CommitKeepsSchema ==
  ASSUME MigratorInv, NEW p \in Processes, bootPc[p] = "commit", Committed(p)
  PROVE  /\ migrations' \subseteq MigrationFiles
         /\ timesApplied' \in [MigrationFiles -> Nat]
         /\ AppliedExactlyWhenRecorded'
         /\ \A q \in Processes \ {p} :
              (bootPc[q] = "commit" /\ file[q] \notin migrations) => file[q] \notin migrations'
<1>1. touched[p] = {file[p]} /\ file[p] \in MigrationFiles /\ file[p] \notin migrations
  BY DEF MigratorInv, OpenTransaction
<1>2. timesApplied' = [f \in MigrationFiles |->
                         IF f = file[p] THEN timesApplied[f] + 1 ELSE timesApplied[f]]
  BY <1>1 DEF Committed
<1>3. migrations' = migrations \cup {file[p]}
  BY DEF Committed
<1>4. AppliedExactlyWhenRecorded'
  BY <1>1, <1>2, <1>3 DEF MigratorInv, AppliedExactlyWhenRecorded
<1>5. \A q \in Processes \ {p} : bootPc[q] = "commit" => file[q] # file[p]
  BY DEF MigratorInv, NamesAreLocked
<1> QED
  BY <1>1, <1>2, <1>3, <1>4, <1>5 DEF MigratorInv, MigratorTypeOK

LEMMA MigratorStepInv == MigratorInv /\ [MigratorNext]_migratorVars => MigratorInv'
<1> SUFFICES ASSUME MigratorInv, [MigratorNext]_migratorVars PROVE MigratorInv'
  OBVIOUS
<1> USE DEF MigratorInv
<1>1. CASE UNCHANGED migratorVars
  BY <1>1 DEF migratorVars, schemaVars, bootVars, MigratorTypeOK, OpenTransaction, NamesAreLocked,
              AppliedExactlyWhenRecorded
<1>2. ASSUME NEW p \in Processes, ListApplied(p) PROVE MigratorInv'
  <2>1. MigratorTypeOK'
    BY <1>2, MigratorAssumption DEF ListApplied, schemaVars, MigratorTypeOK, MigrationFiles
  <2>2. (\A q \in Processes : OpenTransaction(q)') /\ NamesAreLocked'
    BY <1>2 DEF ListApplied, schemaVars, MigratorTypeOK, OpenTransaction, NamesAreLocked
  <2> QED
    BY <1>2, <2>1, <2>2 DEF ListApplied, schemaVars, AppliedExactlyWhenRecorded
<1>3. ASSUME NEW p \in Processes, SkipApplied(p) PROVE MigratorInv'
  <2>1. file[p] \in MigrationFiles
    BY <1>3 DEF SkipApplied, MigratorTypeOK
  <2> QED
    BY <1>3, <2>1, RoundKeepsInv DEF SkipApplied
<1>4. ASSUME NEW p \in Processes, Execute(p) PROVE MigratorInv'
  <2>1. MigratorTypeOK'
    BY <1>4 DEF Execute, schemaVars, MigratorTypeOK
  <2>2. (\A q \in Processes : OpenTransaction(q)') /\ NamesAreLocked'
    BY <1>4 DEF Execute, schemaVars, MigratorTypeOK, OpenTransaction, NamesAreLocked
  <2> QED
    BY <1>4, <2>1, <2>2 DEF Execute, schemaVars, AppliedExactlyWhenRecorded
<1>5. ASSUME NEW p \in Processes, InsertRow(p) PROVE MigratorInv'
  <2>1. file[p] \in MigrationFiles /\ touched[p] = {file[p]}
    BY <1>5 DEF InsertRow, OpenTransaction
  <2>2. CASE file[p] \in migrations
    BY <1>5, <2>1, <2>2, RoundKeepsInv DEF InsertRow
  <2>3. CASE file[p] \notin migrations
    <3>1. MigratorTypeOK'
      BY <1>5, <2>3 DEF InsertRow, schemaVars, MigratorTypeOK
    <3>2. \A q \in Processes : OpenTransaction(q)'
      BY <1>5, <2>1, <2>3 DEF InsertRow, schemaVars, MigratorTypeOK, OpenTransaction
    <3>3. NamesAreLocked'
      BY <1>5, <2>3 DEF InsertRow, MigratorTypeOK, NamesAreLocked
    <3> QED
      BY <1>5, <3>1, <3>2, <3>3 DEF InsertRow, schemaVars, AppliedExactlyWhenRecorded
  <2> QED
    BY <2>2, <2>3
<1>6. ASSUME NEW p \in Processes, Commit(p) PROVE MigratorInv'
  <2>1. file[p] \in MigrationFiles
    BY <1>6 DEF Commit, OpenTransaction
  <2>2. MigratorTypeOK'
    <3>1. migrations' \subseteq MigrationFiles /\ timesApplied' \in [MigrationFiles -> Nat]
      BY <1>6, CommitKeepsSchema DEF Commit
    <3>2. file[p] + 1 \in 1 .. LastFile + 1
      BY <2>1, MigratorAssumption DEF MigrationFiles
    <3> QED
      BY <1>6, <3>1, <3>2 DEF Commit, NextFile, MigratorTypeOK
  <2>3. \A q \in Processes : OpenTransaction(q)'
    BY <1>6, CommitKeepsSchema DEF Commit, NextFile, MigratorTypeOK, OpenTransaction
  <2>4. NamesAreLocked'
    BY <1>6 DEF Commit, NextFile, MigratorTypeOK, NamesAreLocked
  <2> QED
    BY <1>6, <2>2, <2>3, <2>4, CommitKeepsSchema DEF Commit
<1>7. ASSUME NEW p \in Processes, FileFails(p) PROVE MigratorInv'
  BY <1>7, RoundKeepsInv DEF FileFails
<1>8. ASSUME NEW p \in Processes, Started(p) PROVE MigratorInv'
  <2>1. MigratorTypeOK'
    BY <1>8 DEF Started, schemaVars, MigratorTypeOK
  <2>2. (\A q \in Processes : OpenTransaction(q)') /\ NamesAreLocked'
    BY <1>8 DEF Started, schemaVars, MigratorTypeOK, OpenTransaction, NamesAreLocked
  <2> QED
    BY <1>8, <2>1, <2>2 DEF Started, schemaVars, AppliedExactlyWhenRecorded
<1>9. ASSUME NEW p \in Processes, Kill(p) PROVE MigratorInv'
  <2>1. CASE UNCHANGED schemaVars
    <3>1. MigratorTypeOK'
      BY <1>9, <2>1 DEF Kill, schemaVars, MigratorTypeOK
    <3>2. (\A q \in Processes : OpenTransaction(q)') /\ NamesAreLocked'
      BY <1>9, <2>1 DEF Kill, schemaVars, MigratorTypeOK, OpenTransaction, NamesAreLocked
    <3> QED
      BY <2>1, <3>1, <3>2 DEF schemaVars, AppliedExactlyWhenRecorded
  <2>2. CASE bootPc[p] = "commit" /\ Committed(p)
    <3>1. MigratorTypeOK'
      BY <1>9, <2>2, CommitKeepsSchema DEF Kill, MigratorTypeOK
    <3>2. (\A q \in Processes : OpenTransaction(q)') /\ NamesAreLocked'
      BY <1>9, <2>2, CommitKeepsSchema DEF Kill, MigratorTypeOK, OpenTransaction, NamesAreLocked
    <3> QED
      BY <2>2, <3>1, <3>2, CommitKeepsSchema
  <2> QED
    BY <1>9, <2>1, <2>2 DEF Kill
<1> QED
  BY <1>1, <1>2, <1>3, <1>4, <1>5, <1>6, <1>7, <1>8, <1>9 DEF MigratorNext

(* The inductive invariant of the migrator.                                  *)
THEOREM MigratorInvariant == MigratorSpec => []MigratorInv
<1>1. MigratorInit => MigratorInv
  BY MigratorInitInv
<1>2. MigratorInv /\ [MigratorNext]_migratorVars => MigratorInv'
  BY MigratorStepInv
<1> QED
  BY <1>1, <1>2, PTL DEF MigratorSpec

(* Every variable of run_migrations keeps its type.                          *)
THEOREM MigratorTypes == MigratorSpec => []MigratorTypeOK
<1>1. MigratorInv => MigratorTypeOK
  BY DEF MigratorInv
<1> QED
  BY <1>1, MigratorInvariant, PTL

(* However many processes run run_migrations at a time, are killed and start
   again, a file's effects are in the schema once if its row is committed, and
   not at all otherwise.                                                     *)
THEOREM MigrationsApplyOnce == MigratorSpec => []AppliedExactlyWhenRecorded
<1>1. MigratorInv => AppliedExactlyWhenRecorded
  BY DEF MigratorInv
<1> QED
  BY <1>1, MigratorInvariant, PTL

-----------------------------------------------------------------------------
(* StreamQueue                                                             *)

(* The entry at the head of a batch is being handled.                        *)
AtWork(c) == consumerPc[c] \in {"handle", "ack"}

(* A message is in one place of one batch at most.                           *)
BatchesAreDisjoint ==
  \A c, d \in Consumers : \A i \in DOMAIN batchOf[c], j \in DOMAIN batchOf[d] :
    batchOf[c][i] = batchOf[d][j] => c = d /\ i = j

EntryInv(c) ==
  /\ AtWork(c) => batchOf[c] # <<>>
  /\ consumerPc[c] = "ack" => Entry(c) \in finished

StreamInv ==
  /\ StreamTypeOK
  /\ BatchesAreDisjoint
  /\ \A c \in Consumers : EntryInv(c)
  /\ OneOwnerOrAcknowledged
  /\ WorkIsPending

LEMMA StreamInitInv == StreamInit => StreamInv
<1> SUFFICES ASSUME StreamInit PROVE StreamInv
  OBVIOUS
<1>1. 1 .. 0 = {}
  OBVIOUS
<1>2. StreamTypeOK
  BY <1>1, StreamAssumption DEF StreamInit, StreamTypeOK, Messages
<1> QED
  BY <1>1, <1>2 DEF StreamInit, StreamInv, BatchesAreDisjoint, EntryInv, AtWork,
                    OneOwnerOrAcknowledged, WorkIsPending

(* What a read hands out: the next messages in a row, none of them beyond the end
   of the stream.                                                            *)
LEMMA FreshIsNext ==
  ASSUME StreamTypeOK
  PROVE  /\ Cardinality(Fresh) \in Nat
         /\ delivered + Cardinality(Fresh) \in 0 .. added
         /\ Fresh = delivered + 1 .. delivered + Cardinality(Fresh)
<1> DEFINE last == IF added <= delivered + BatchSize THEN added ELSE delivered + BatchSize
<1>1. added \in Nat /\ delivered \in Nat /\ delivered <= added /\ BatchSize \in Nat
  BY StreamAssumption DEF StreamTypeOK
<1>2. last \in Nat /\ last >= delivered /\ last <= added
  BY <1>1
<1>3. Fresh = delivered + 1 .. last
  BY <1>1 DEF Fresh
<1> HIDE DEF last
<1>4. Cardinality(Fresh) = last - delivered
  <2>1. delivered + 1 \in Int /\ last \in Int
    BY <1>1, <1>2
  <2>2. Cardinality(Fresh) = IF delivered + 1 > last THEN 0 ELSE last - (delivered + 1) + 1
    BY <1>3, <2>1, FS_Interval
  <2> QED
    BY <1>1, <1>2, <2>2
<1>5. Cardinality(Fresh) \in Nat /\ delivered + Cardinality(Fresh) = last
  BY <1>1, <1>2, <1>4
<1> QED
  BY <1>1, <1>2, <1>3, <1>5

(* The stream after a read, whether or not its answer arrives.               *)
LEMMA HandOutKeeps ==
  ASSUME StreamInv, NEW c \in Consumers, HandOut(c),
         UNCHANGED <<added, ackedMessages, finished>>
  PROVE  /\ delivered' \in delivered .. added
         /\ pendingOf' \in [Consumers -> SUBSET (1 .. delivered')]
         /\ ackedMessages' \subseteq 1 .. delivered'
         /\ \A d \in Consumers : pendingOf[d] \subseteq pendingOf'[d]
         /\ Fresh \subseteq pendingOf'[c]
         /\ OneOwnerOrAcknowledged'
<1> USE DEF StreamInv
<1>1. /\ delivered \in Nat /\ delivered' \in delivered .. added
      /\ Fresh = delivered + 1 .. delivered'
      /\ pendingOf' = [pendingOf EXCEPT ![c] = @ \cup Fresh]
  BY FreshIsNext DEF HandOut, StreamTypeOK
<1>2. /\ 1 .. delivered' = (1 .. delivered) \cup Fresh
      /\ (1 .. delivered) \cap Fresh = {}
  BY <1>1
<1>3. pendingOf' \in [Consumers -> SUBSET (1 .. delivered')]
  BY <1>1, <1>2 DEF StreamTypeOK
<1>4. /\ pendingOf'[c] = pendingOf[c] \cup Fresh
      /\ \A d \in Consumers \ {c} : pendingOf'[d] = pendingOf[d]
      /\ \A d \in Consumers : pendingOf[d] \subseteq 1 .. delivered
      /\ ackedMessages \subseteq 1 .. delivered
  BY <1>1 DEF StreamTypeOK
<1>5. \A m \in 1 .. delivered' : m \in ackedMessages \/ \E d \in Consumers : m \in pendingOf'[d]
  <2> SUFFICES ASSUME NEW m \in 1 .. delivered', m \notin ackedMessages
               PROVE  \E d \in Consumers : m \in pendingOf'[d]
    OBVIOUS
  <2>1. CASE m \in Fresh
    BY <1>4, <2>1
  <2>2. CASE m \in 1 .. delivered
    <3>1. PICK d \in Consumers : m \in pendingOf[d]
      BY <2>2 DEF OneOwnerOrAcknowledged
    <3> QED
      BY <1>4, <3>1
  <2> QED
    BY <1>2, <2>1, <2>2
<1>6. \A d \in Consumers : pendingOf'[d] \cap ackedMessages = {}
  BY <1>2, <1>4 DEF OneOwnerOrAcknowledged
<1>7. \A d, e \in Consumers : d # e => pendingOf'[d] \cap pendingOf'[e] = {}
  <2> SUFFICES ASSUME NEW d \in Consumers, NEW e \in Consumers, d # e,
                      NEW m \in pendingOf'[d] \cap pendingOf'[e]
               PROVE  FALSE
    OBVIOUS
  <2>1. pendingOf[d] \cap pendingOf[e] = {}
    BY DEF OneOwnerOrAcknowledged
  <2> QED
    BY <1>2, <1>4, <2>1
<1>8. OneOwnerOrAcknowledged'
  BY <1>5, <1>6, <1>7 DEF OneOwnerOrAcknowledged
<1>9. ackedMessages' \subseteq 1 .. delivered'
  BY <1>2, <1>4
<1> QED
  BY <1>1, <1>3, <1>4, <1>8, <1>9

LEMMA TailIsShifted ==
  ASSUME NEW S, NEW s \in Seq(S), s # <<>>
  PROVE  /\ Tail(s) \in Seq(S)
         /\ \A i \in DOMAIN Tail(s) :
              i \in Nat /\ i + 1 \in DOMAIN s /\ i + 1 > 1 /\ Tail(s)[i] = s[i + 1]
<1>1. Len(s) \in Nat /\ DOMAIN s = 1 .. Len(s)
  BY LenProperties
<1>2. Tail(s) \in Seq(S) /\ Len(Tail(s)) = Len(s) - 1
  BY HeadTailProperties
<1>3. DOMAIN Tail(s) = 1 .. Len(Tail(s)) /\ \A i \in 1 .. Len(Tail(s)) : Tail(s)[i] = s[i + 1]
  BY <1>2, HeadTailProperties, LenProperties
<1> QED
  BY <1>1, <1>2, <1>3

(* A batch stays a batch when more messages are handed out.                  *)
LEMMA BatchesGrow ==
  ASSUME NEW k \in Nat, NEW n \in Nat, k <= n, NEW b \in Seq(1 .. k)
  PROVE  b \in Seq(1 .. n)
<1>1. \A i \in 1 .. Len(b) : b[i] \in 1 .. n
  OBVIOUS
<1> QED
  BY <1>1

LEMMA StreamStepInv == StreamInv /\ [StreamNext]_queueVars => StreamInv'
<1> SUFFICES ASSUME StreamInv, [StreamNext]_queueVars PROVE StreamInv'
  OBVIOUS
<1> USE DEF StreamInv
<1>0. /\ added \in Nat /\ delivered \in Nat /\ delivered <= added
      /\ \A c \in Consumers : batchOf[c] \in Seq(1 .. delivered)
  BY StreamAssumption DEF StreamTypeOK
<1>1. CASE UNCHANGED queueVars
  BY <1>1 DEF queueVars, streamVars, consumerVars, StreamTypeOK, BatchesAreDisjoint,
              EntryInv, AtWork, Entry, OneOwnerOrAcknowledged, WorkIsPending
<1>2. CASE Enqueue
  <2>1. StreamTypeOK'
    BY <1>0, <1>2, StreamAssumption DEF Enqueue, consumerVars, StreamTypeOK
  <2> QED
    BY <1>2, <2>1 DEF Enqueue, consumerVars, BatchesAreDisjoint, EntryInv, AtWork, Entry,
                      OneOwnerOrAcknowledged, WorkIsPending
<1>3. ASSUME NEW c \in Consumers, StartWorker(c) PROVE StreamInv'
  <2>1. StreamTypeOK'
    BY <1>3 DEF StartWorker, streamVars, StreamTypeOK
  <2>2. BatchesAreDisjoint' /\ OneOwnerOrAcknowledged' /\ WorkIsPending'
    BY <1>3 DEF StartWorker, streamVars, BatchesAreDisjoint, OneOwnerOrAcknowledged, WorkIsPending
  <2>3. \A d \in Consumers : AtWork(d)' <=> AtWork(d)
    BY <1>3 DEF StartWorker, AtWork, StreamTypeOK
  <2>4. \A d \in Consumers : EntryInv(d)'
    BY <1>3, <2>3 DEF StartWorker, EntryInv, Entry, StreamTypeOK
  <2> QED
    BY <2>1, <2>2, <2>4
<1>4. ASSUME NEW c \in Consumers, ReadNew(c) PROVE StreamInv'
  <2> DEFINE b == [i \in 1 .. Cardinality(Fresh) |-> delivered + i]
  <2>1. /\ delivered' \in delivered .. added /\ delivered' = delivered + Cardinality(Fresh)
        /\ pendingOf' \in [Consumers -> SUBSET (1 .. delivered')]
        /\ ackedMessages' \subseteq 1 .. delivered'
        /\ \A d \in Consumers : pendingOf[d] \subseteq pendingOf'[d]
        /\ Fresh \subseteq pendingOf'[c]
        /\ OneOwnerOrAcknowledged'
    BY <1>4, HandOutKeeps DEF ReadNew, HandOut
  <2>2. /\ batchOf' = [batchOf EXCEPT ![c] = b]
        /\ consumerPc' = [consumerPc EXCEPT ![c] = "entry"]
        /\ UNCHANGED <<added, finished>>
    BY <1>4 DEF ReadNew
  <2>3. Cardinality(Fresh) \in Nat
    BY FreshIsNext
  <2>4. /\ b \in Seq(1 .. delivered')
        /\ DOMAIN b \subseteq Nat \ {0}
        /\ \A i \in DOMAIN b : b[i] = delivered + i /\ b[i] > delivered /\ b[i] \in Fresh
    <3> DEFINE k == Cardinality(Fresh)
    <3>1. k \in Nat /\ delivered' = delivered + k
      BY <2>1, <2>3
    <3> HIDE DEF k
    <3>2. \A i \in 1 .. k : /\ delivered + i \in 1 .. delivered' /\ delivered + i > delivered
                         /\ delivered + i \in delivered + 1 .. delivered + k
      BY <1>0, <3>1
    <3>3. Fresh = delivered + 1 .. delivered + k
      BY FreshIsNext DEF k
    <3>4. b = [i \in 1 .. k |-> delivered + i]
      BY DEF k
    <3> HIDE DEF b
    <3> QED
      BY <3>1, <3>2, <3>3, <3>4
  <2> HIDE DEF b
  <2>5. batchOf' \in [Consumers -> Seq(1 .. delivered')]
    BY <1>0, <2>1, <2>2, <2>4, BatchesGrow DEF StreamTypeOK
  <2>6. StreamTypeOK'
    BY <1>0, <2>1, <2>2, <2>5 DEF StreamTypeOK
  <2>7. \A d \in Consumers \ {c} : batchOf'[d] = batchOf[d]
                                   /\ \A j \in DOMAIN batchOf[d] : batchOf[d][j] <= delivered
    BY <1>0, <2>2 DEF StreamTypeOK
  <2>8. batchOf'[c] = b
    BY <2>2 DEF StreamTypeOK
  <2>9. BatchesAreDisjoint'
    <3> SUFFICES ASSUME NEW x \in Consumers, NEW y \in Consumers,
                        NEW i \in DOMAIN batchOf'[x], NEW j \in DOMAIN batchOf'[y],
                        batchOf'[x][i] = batchOf'[y][j]
                 PROVE  x = y /\ i = j
      BY DEF BatchesAreDisjoint
    <3>1. CASE x # c /\ y # c
      BY <2>7, <3>1 DEF BatchesAreDisjoint
    <3>2. CASE x = c /\ y = c
      <4>1. i \in Nat /\ j \in Nat /\ b[i] = delivered + i /\ b[j] = delivered + j
        BY <2>4, <2>8, <3>2
      <4>2. b[i] = b[j]
        BY <2>8, <3>2
      <4> QED
        BY <1>0, <3>2, <4>1, <4>2
    <3>3. CASE x = c /\ y # c
      BY <1>0, <2>3, <2>4, <2>7, <2>8, <3>3
    <3>4. CASE x # c /\ y = c
      BY <1>0, <2>3, <2>4, <2>7, <2>8, <3>4
    <3> QED
      BY <3>1, <3>2, <3>3, <3>4
  <2>10. \A d \in Consumers \ {c} : AtWork(d)' <=> AtWork(d)
    BY <2>2 DEF AtWork, StreamTypeOK
  <2>11. ~AtWork(c)' /\ consumerPc'[c] # "ack"
    BY <2>2 DEF AtWork, StreamTypeOK
  <2>12. WorkIsPending'
    <3> SUFFICES ASSUME NEW d \in Consumers, NEW i \in DOMAIN batchOf'[d]
                 PROVE  batchOf'[d][i] \in pendingOf'[d]
      BY DEF WorkIsPending
    <3>1. CASE d = c
      BY <2>1, <2>4, <2>8, <3>1
    <3>2. CASE d # c
      BY <2>1, <2>7, <3>2 DEF WorkIsPending
    <3> QED
      BY <3>1, <3>2
  <2>13. \A d \in Consumers : EntryInv(d)'
    BY <2>2, <2>7, <2>10, <2>11 DEF EntryInv, Entry, StreamTypeOK
  <2> QED
    BY <2>1, <2>6, <2>9, <2>12, <2>13
<1>5. ASSUME NEW c \in Consumers, ReadLost(c) PROVE StreamInv'
  <2>1. /\ delivered' \in delivered .. added
        /\ pendingOf' \in [Consumers -> SUBSET (1 .. delivered')]
        /\ ackedMessages' \subseteq 1 .. delivered'
        /\ \A d \in Consumers : pendingOf[d] \subseteq pendingOf'[d]
        /\ OneOwnerOrAcknowledged'
    BY <1>5, HandOutKeeps DEF ReadLost
  <2>2. UNCHANGED <<added, consumerPc, batchOf, finished>>
    BY <1>5 DEF ReadLost, consumerVars
  <2>3. batchOf' \in [Consumers -> Seq(1 .. delivered')]
    BY <1>0, <2>1, <2>2, BatchesGrow DEF StreamTypeOK
  <2>4. StreamTypeOK'
    BY <1>0, <2>1, <2>2, <2>3 DEF StreamTypeOK
  <2>5. WorkIsPending'
    BY <2>1, <2>2 DEF WorkIsPending
  <2> QED
    BY <2>1, <2>2, <2>4, <2>5 DEF BatchesAreDisjoint, EntryInv, AtWork, Entry
<1>6. ASSUME NEW c \in Consumers, Process(c) PROVE StreamInv'
  <2>1. /\ UNCHANGED <<added, delivered, pendingOf, ackedMessages, batchOf, finished>>
        /\ consumerPc[c] = "entry"
        /\ consumerPc' = [consumerPc EXCEPT ![c] =
                            IF batchOf[c] = <<>> THEN "read" ELSE "handle"]
    BY <1>6 DEF Process, streamVars
  <2>2. StreamTypeOK'
    BY <2>1 DEF StreamTypeOK
  <2>3. BatchesAreDisjoint' /\ OneOwnerOrAcknowledged' /\ WorkIsPending'
    BY <2>1 DEF BatchesAreDisjoint, OneOwnerOrAcknowledged, WorkIsPending
  <2>4. \A d \in Consumers \ {c} : consumerPc'[d] = consumerPc[d]
    BY <2>1 DEF StreamTypeOK
  <2>5. consumerPc'[c] # "ack" /\ (AtWork(c)' => batchOf[c] # <<>>)
    BY <2>1 DEF AtWork, StreamTypeOK
  <2>6. \A d \in Consumers : EntryInv(d)'
    BY <2>1, <2>4, <2>5 DEF EntryInv, AtWork, Entry
  <2> QED
    BY <2>2, <2>3, <2>6
<1>7. ASSUME NEW c \in Consumers, HandlerReturns(c) PROVE StreamInv'
  <2>1. /\ consumerPc[c] = "handle" /\ batchOf[c] # <<>>
        /\ consumerPc' = [consumerPc EXCEPT ![c] = "ack"]
        /\ finished' = finished \cup {Entry(c)}
        /\ UNCHANGED <<streamVars, batchOf>>
    BY <1>7 DEF HandlerReturns, EntryInv, AtWork
  <2>2. Entry(c) \in Messages
    BY <1>0, <2>1, StreamAssumption DEF Entry, Messages, StreamTypeOK
  <2>3. \A d \in Consumers : AtWork(d)' <=> AtWork(d)
    BY <2>1 DEF AtWork, StreamTypeOK
  <2>4. StreamTypeOK'
    BY <2>1, <2>2 DEF StreamTypeOK, streamVars
  <2>5. BatchesAreDisjoint' /\ OneOwnerOrAcknowledged' /\ WorkIsPending'
    BY <2>1 DEF streamVars, BatchesAreDisjoint, OneOwnerOrAcknowledged, WorkIsPending
  <2>6. \A d \in Consumers : EntryInv(d)'
    BY <2>1, <2>3 DEF EntryInv, Entry, StreamTypeOK
  <2> QED
    BY <2>4, <2>5, <2>6
<1>8. ASSUME NEW c \in Consumers, AtWork(c), NextEntry(c),
             UNCHANGED <<added, delivered, finished>>,
             pendingOf' \in [Consumers -> SUBSET (1 .. delivered)],
             ackedMessages' \subseteq 1 .. delivered,
             \A d \in Consumers : pendingOf[d] \ {Entry(c)} \subseteq pendingOf'[d],
             OneOwnerOrAcknowledged'
      PROVE  StreamInv'
  <2>1. /\ batchOf[c] # <<>> /\ batchOf' = [batchOf EXCEPT ![c] = Tail(@)]
        /\ consumerPc' = [consumerPc EXCEPT ![c] = "entry"]
    BY <1>8 DEF EntryInv, NextEntry
  <2>2. /\ Tail(batchOf[c]) \in Seq(1 .. delivered)
        /\ \A i \in DOMAIN Tail(batchOf[c]) :
             /\ i \in Nat /\ i + 1 \in DOMAIN batchOf[c] /\ i + 1 > 1
             /\ Tail(batchOf[c])[i] = batchOf[c][i + 1]
    BY <1>0, <2>1, TailIsShifted
  <2>3. StreamTypeOK'
    BY <1>8, <2>1, <2>2 DEF StreamTypeOK
  <2>4. batchOf'[c] = Tail(batchOf[c]) /\ \A d \in Consumers \ {c} : batchOf'[d] = batchOf[d]
    BY <2>1 DEF StreamTypeOK
  <2>5. BatchesAreDisjoint'
    <3> SUFFICES ASSUME NEW x \in Consumers, NEW y \in Consumers,
                        NEW i \in DOMAIN batchOf'[x], NEW j \in DOMAIN batchOf'[y],
                        batchOf'[x][i] = batchOf'[y][j]
                 PROVE  x = y /\ i = j
      BY DEF BatchesAreDisjoint
    <3>1. CASE x # c /\ y # c
      BY <2>4, <3>1 DEF BatchesAreDisjoint
    <3>2. CASE x = c /\ y = c
      <4>1. /\ i \in Nat /\ j \in Nat
            /\ i + 1 \in DOMAIN batchOf[c] /\ j + 1 \in DOMAIN batchOf[c]
            /\ batchOf[c][i + 1] = batchOf[c][j + 1]
        BY <2>2, <2>4, <3>2
      <4>2. i + 1 = j + 1
        BY <4>1 DEF BatchesAreDisjoint
      <4> QED
        BY <3>2, <4>1, <4>2
    <3>3. CASE x = c /\ y # c
      <4>1. i + 1 \in DOMAIN batchOf[c] /\ j \in DOMAIN batchOf[y] /\ batchOf[c][i + 1] = batchOf[y][j]
        BY <2>2, <2>4, <3>3
      <4> QED
        BY <3>3, <4>1 DEF BatchesAreDisjoint
    <3>4. CASE x # c /\ y = c
      <4>1. j + 1 \in DOMAIN batchOf[c] /\ i \in DOMAIN batchOf[x] /\ batchOf[x][i] = batchOf[c][j + 1]
        BY <2>2, <2>4, <3>4
      <4> QED
        BY <3>4, <4>1 DEF BatchesAreDisjoint
    <3> QED
      BY <3>1, <3>2, <3>3, <3>4
  <2>6. \A d \in Consumers \ {c} : AtWork(d)' <=> AtWork(d)
    BY <2>1 DEF AtWork, StreamTypeOK
  <2>7. ~AtWork(c)' /\ consumerPc'[c] # "ack"
    BY <2>1 DEF AtWork, StreamTypeOK
  <2>8. WorkIsPending'
    <3> SUFFICES ASSUME NEW d \in Consumers, NEW i \in DOMAIN batchOf'[d]
                 PROVE  batchOf'[d][i] \in pendingOf'[d]
      BY DEF WorkIsPending
    <3>1. 1 \in DOMAIN batchOf[c] /\ Entry(c) = batchOf[c][1]
      BY <1>0, <2>1 DEF Entry
    <3>2. CASE d = c
      <4> DEFINE s == Tail(batchOf[c])
      <4>0. batchOf'[d] = s /\ i \in DOMAIN s
        BY <2>4, <3>2
      <4>1. /\ i + 1 \in DOMAIN batchOf[c] /\ i + 1 # 1
            /\ batchOf'[d][i] = batchOf[c][i + 1]
        <5>1. i \in Nat /\ i + 1 \in DOMAIN batchOf[c] /\ i + 1 > 1 /\ s[i] = batchOf[c][i + 1]
          BY <2>2, <4>0
        <5> HIDE DEF s
        <5> QED
          BY <4>0, <5>1
      <4> HIDE DEF s
      <4>2. batchOf[c][i + 1] # Entry(c)
        BY <3>1, <4>1 DEF BatchesAreDisjoint
      <4>3. batchOf[c][i + 1] \in pendingOf[c]
        BY <4>1 DEF WorkIsPending
      <4> QED
        BY <1>8, <3>2, <4>1, <4>2, <4>3
    <3>3. CASE d # c
      <4>1. i \in DOMAIN batchOf[d] /\ batchOf'[d][i] = batchOf[d][i]
        BY <2>4, <3>3
      <4>2. batchOf[d][i] # Entry(c)
        BY <3>1, <3>3, <4>1 DEF BatchesAreDisjoint
      <4> QED
        BY <1>8, <4>1, <4>2 DEF WorkIsPending
    <3> QED
      BY <3>2, <3>3
  <2>9. \A d \in Consumers : EntryInv(d)'
    BY <1>8, <2>1, <2>4, <2>6, <2>7 DEF EntryInv, Entry, StreamTypeOK
  <2> QED
    BY <1>8, <2>3, <2>5, <2>8, <2>9
<1>9. ASSUME NEW c \in Consumers, Acknowledge(c) PROVE StreamInv'
  <2>1. /\ AtWork(c) /\ Entry(c) \in finished /\ Entry(c) \in 1 .. delivered
        /\ Entry(c) \in pendingOf[c]
    <3>1. AtWork(c) /\ Entry(c) \in finished /\ batchOf[c] # <<>>
      BY <1>9 DEF Acknowledge, AtWork, EntryInv
    <3>2. 1 \in DOMAIN batchOf[c] /\ Entry(c) = batchOf[c][1]
      BY <1>0, <3>1 DEF Entry
    <3>3. Entry(c) \in pendingOf[c]
      BY <3>2 DEF WorkIsPending
    <3> QED
      BY <3>1, <3>3 DEF StreamTypeOK
  <2>2. /\ pendingOf' = [pendingOf EXCEPT ![c] = @ \ {Entry(c)}]
        /\ ackedMessages' = ackedMessages \cup {Entry(c)}
        /\ UNCHANGED <<added, delivered, finished>>
    BY <1>9 DEF Acknowledge
  <2>3. /\ pendingOf'[c] = pendingOf[c] \ {Entry(c)}
        /\ \A d \in Consumers \ {c} : pendingOf'[d] = pendingOf[d]
    BY <2>2 DEF StreamTypeOK
  <2>4. \A m \in 1 .. delivered : m \in ackedMessages' \/ \E d \in Consumers : m \in pendingOf'[d]
    <3> SUFFICES ASSUME NEW m \in 1 .. delivered, m \notin ackedMessages, m # Entry(c)
                 PROVE  \E d \in Consumers : m \in pendingOf'[d]
      BY <2>2
    <3>1. PICK d \in Consumers : m \in pendingOf[d]
      BY DEF OneOwnerOrAcknowledged
    <3> QED
      BY <2>3, <3>1
  <2>5. \A d \in Consumers : pendingOf'[d] \cap ackedMessages' = {}
    <3> SUFFICES ASSUME NEW d \in Consumers, NEW m \in pendingOf'[d] \cap ackedMessages'
                 PROVE  FALSE
      OBVIOUS
    <3>1. m \in pendingOf[d] /\ pendingOf[d] \cap ackedMessages = {}
      BY <2>3 DEF OneOwnerOrAcknowledged
    <3>2. m = Entry(c)
      BY <2>2, <3>1
    <3>3. d # c
      BY <2>3, <3>2
    <3>4. pendingOf[d] \cap pendingOf[c] = {}
      BY <3>3 DEF OneOwnerOrAcknowledged
    <3> QED
      BY <2>1, <3>1, <3>2, <3>4
  <2>6. \A d, e \in Consumers : d # e => pendingOf'[d] \cap pendingOf'[e] = {}
    <3>1. \A d \in Consumers : pendingOf'[d] \subseteq pendingOf[d]
      BY <2>3
    <3> QED
      BY <3>1 DEF OneOwnerOrAcknowledged
  <2>7. OneOwnerOrAcknowledged'
    BY <2>1, <2>2, <2>4, <2>5, <2>6 DEF OneOwnerOrAcknowledged
  <2>8. pendingOf' \in [Consumers -> SUBSET (1 .. delivered)] /\ ackedMessages' \subseteq 1 .. delivered
    BY <2>1, <2>2 DEF StreamTypeOK
  <2>9. \A d \in Consumers : pendingOf[d] \ {Entry(c)} \subseteq pendingOf'[d]
    BY <2>3
  <2> QED
    BY <1>8, <1>9, <2>1, <2>2, <2>7, <2>8, <2>9 DEF Acknowledge
<1>10. ASSUME NEW c \in Consumers, EntryFails(c) PROVE StreamInv'
  BY <1>8, <1>10 DEF EntryFails, AtWork, streamVars, StreamTypeOK, OneOwnerOrAcknowledged
<1>11. ASSUME NEW c \in Consumers, StopWorker(c) PROVE StreamInv'
  <2>1. /\ batchOf' = [batchOf EXCEPT ![c] = <<>>]
        /\ consumerPc' = [consumerPc EXCEPT ![c] = "stopped"]
        /\ UNCHANGED <<streamVars, finished>>
    BY <1>11 DEF StopWorker
  <2>2. StreamTypeOK' /\ OneOwnerOrAcknowledged'
    BY <2>1 DEF streamVars, StreamTypeOK, OneOwnerOrAcknowledged
  <2>3. batchOf'[c] = <<>> /\ DOMAIN <<>> = {}
        /\ \A d \in Consumers \ {c} : batchOf'[d] = batchOf[d]
    BY <2>1 DEF StreamTypeOK
  <2>4. BatchesAreDisjoint' /\ WorkIsPending'
    BY <2>1, <2>3 DEF streamVars, BatchesAreDisjoint, WorkIsPending
  <2>5. /\ \A d \in Consumers \ {c} : AtWork(d)' <=> AtWork(d)
        /\ ~AtWork(c)' /\ consumerPc'[c] # "ack"
    BY <2>1 DEF AtWork, StreamTypeOK
  <2>6. \A d \in Consumers : EntryInv(d)'
    BY <2>1, <2>3, <2>5 DEF EntryInv, Entry, StreamTypeOK
  <2> QED
    BY <2>2, <2>4, <2>6
<1> QED
  BY <1>1, <1>2, <1>3, <1>4, <1>5, <1>6, <1>7, <1>9, <1>10, <1>11 DEF StreamNext

(* The inductive invariant of the stream and its workers.                    *)
THEOREM StreamInvariant == StreamSpec => []StreamInv
<1>1. StreamInit => StreamInv
  BY StreamInitInv
<1>2. StreamInv /\ [StreamNext]_queueVars => StreamInv'
  BY StreamStepInv
<1> QED
  BY <1>1, <1>2, PTL DEF StreamSpec

(* Every variable of the stream and its workers keeps its type.              *)
THEOREM StreamTypes == StreamSpec => []StreamTypeOK
<1>1. StreamInv => StreamTypeOK
  BY DEF StreamInv
<1> QED
  BY <1>1, StreamInvariant, PTL

(* However many workers read the stream, fail, stop and start again: a message whose
   handler has not returned is on the pending list of exactly one worker, and no
   worker has in hand what another owns or what is acknowledged.             *)
THEOREM UnhandledIsPending == StreamSpec => []UnhandledStaysPending
<1>1. StreamInv => UnhandledStaysPending
  BY DEF StreamInv, UnhandledStaysPending
<1> QED
  BY <1>1, StreamInvariant, PTL

-----------------------------------------------------------------------------
(* Rooms                                                                   *)

(* What RoomFollowsHandlers needs besides: only open sockets are listed, so that
   none enters twice, and a broadcast disconnects only sockets that are lost. *)
RoomsInv ==
  /\ RoomsTypeOK
  /\ RoomFollowsHandlers
  /\ \A s \in Range(room) : handlerPc[s] = "open"
  /\ \A s \in Sockets : Range(unsent[s]) \subseteq lost

-----------------------------------------------------------------------------

(* disconnect in a row removes some of the sockets asked for and no other; one
   that is asked for alone is not in the room afterwards.                    *)
LEMMA RemainingFacts ==
  ASSUME room \in Seq(Sockets), NEW sockets \in Seq(Sockets)
  PROVE  /\ Remaining(sockets) \in Seq(Sockets)
         /\ Range(Remaining(sockets)) \subseteq Range(room)
         /\ Range(room) \ Range(sockets) \subseteq Range(Remaining(sockets))
         /\ Len(sockets) = 1 => sockets[1] \notin Range(Remaining(sockets))
         /\ IsInjective(room) => IsInjective(Remaining(sockets))
<1> DEFINE n == CHOOSE m \in Listed(sockets) : \A k \in Listed(sockets) : k <= m
<1>1. Len(sockets) \in Nat /\ DOMAIN sockets = 1 .. Len(sockets)
      /\ \A i \in 1 .. Len(sockets) : sockets[i] \in Sockets
  BY ElementOfSeq
<1>2. n \in Listed(sockets) /\ \A k \in Listed(sockets) : k <= n
  <2>1. Listed(sockets) \subseteq Nat /\ \A k \in Listed(sockets) : k <= Len(sockets)
    BY <1>1 DEF Listed
  <2>2. 0 \in Listed(sockets)
    BY <1>1 DEF Listed
  <2>3. \E x \in Listed(sockets) : \A y \in Listed(sockets) : y <= x
    BY <1>1, <2>1, <2>2, Greatest
  <2> QED BY <2>3
<1>3. n \in 0 .. Len(sockets) /\ \A i \in 1 .. n : sockets[i] \in Range(room)
  BY <1>2 DEF Listed
<1>4. Present(sockets) = SubSeq(sockets, 1, n)
  BY DEF Present
<1> HIDE DEF n
<1>5. /\ Present(sockets) \in Seq(Sockets) /\ Len(Present(sockets)) = n
      /\ \A i \in 1 .. n : Present(sockets)[i] = sockets[i]
  <2>1. \A i \in 1 .. n : i \in 1 .. Len(sockets)
    BY <1>1, <1>3
  <2>2. \A i \in 1 .. n : sockets[i] \in Sockets
    BY <1>1, <2>1
  <2>3. n \in Nat /\ n <= Len(sockets)
    BY <1>1, <1>3
  <2> QED BY <1>1, <1>4, <2>2, <2>3, SubSeqProperties
<1>6. Range(Present(sockets)) \subseteq Range(sockets)
  <2>1. \A i \in 1 .. n : i \in 1 .. Len(sockets)
    BY <1>1, <1>3
  <2> QED BY <1>1, <1>5, <2>1 DEF Range
<1>7. /\ Remaining(sockets) \in Seq(Sockets)
      /\ Range(Remaining(sockets)) = Range(room) \cap (Sockets \ Range(Present(sockets)))
      /\ IsInjective(room) => IsInjective(Remaining(sockets))
  BY KeepFacts DEF Remaining
<1>8. Range(room) \subseteq Sockets
  BY ElementOfSeq DEF Range
<1>9. ASSUME Len(sockets) = 1, sockets[1] \in Range(room)
      PROVE  sockets[1] \in Range(Present(sockets))
  <2>1. 1 \in Listed(sockets)
    BY <1>9 DEF Listed
  <2>2. n = 1
    BY <1>2, <1>3, <1>9, <2>1
  <2> QED BY <1>5, <2>2 DEF Range
<1> QED
  BY <1>6, <1>7, <1>8, <1>9

(* The list is never longer than there are sockets.                          *)
LEMMA RoomIsBounded ==
  ASSUME room \in Seq(Sockets), IsInjective(room)
  PROVE  Len(room) \in Nat /\ Cardinality(Sockets) \in Nat /\ Len(room) <= Cardinality(Sockets)
<1>1. Cardinality(Range(room)) = Len(room)
  BY InjectiveLength
<1>2. Range(room) \subseteq Sockets
  BY ElementOfSeq DEF Range
<1>3. Cardinality(Range(room)) <= Cardinality(Sockets) /\ Cardinality(Sockets) \in Nat
  BY <1>2, SocketsAssumption, FS_Subset, FS_CardinalityType
<1> QED
  BY <1>1, <1>3

(* A broadcast whose list is gone still has a position.                      *)
LEMMA WalkFacts ==
  ASSUME NEW positions \in [Sockets -> 0 .. Cardinality(Sockets)]
  PROVE  Walk(positions) \in [Sockets -> 0 .. Cardinality(Sockets)]
<1>1. Cardinality(Sockets) \in Nat
  BY SocketsAssumption, FS_CardinalityType
<1> QED
  BY <1>1 DEF Walk, EndOfList

(* What the handlers and the room owe each other, in the form its steps use.  *)
LEMMA RoomFollows ==
  RoomFollowsHandlers <=>
    /\ IsInjective(room)
    /\ \A s \in Sockets :
         /\ (handlerPc[s] = "open" /\ s \notin lost) => s \in Range(room)
         /\ handlerPc[s] = "gone" => s \notin Range(room) /\ listenerPc[s] = "ended"
BY DEF RoomFollowsHandlers, IsInjective

(* Unsent's sockets are lost.                                                *)
LEMMA UnsentFacts ==
  ASSUME NEW s \in Sockets, NEW T, unsent[s] \in Seq(T), receiver[s] \in T, Range(unsent[s]) \subseteq lost
  PROVE  Unsent(s) \in Seq(T) /\ Range(Unsent(s)) \subseteq lost
<1>1. CASE receiver[s] \in lost
  <2> DEFINE u == unsent[s]
             r == receiver[s]
             a == Append(u, r)
  <2>1. /\ a \in Seq(T) /\ Len(a) = Len(u) + 1 /\ Len(u) \in Nat
        /\ \A i \in 1 .. Len(u) : a[i] = u[i]
        /\ a[Len(u) + 1] = r
    BY AppendProperties
  <2>2. \A i \in 1 .. Len(u) : u[i] \in lost
    BY DEF Range
  <2>3. \A i \in 1 .. Len(u) + 1 : i \in 1 .. Len(u) \/ i = Len(u) + 1
    BY <2>1
  <2>4. DOMAIN a = 1 .. Len(u) + 1
    BY <2>1
  <2>5. \A i \in DOMAIN a : a[i] \in lost
    BY <1>1, <2>1, <2>2, <2>3, <2>4
  <2> HIDE DEF a
  <2>6. Range(a) \subseteq lost
    BY <2>5 DEF Range
  <2> QED BY <1>1, <2>1, <2>6 DEF Unsent, a
<1>2. CASE receiver[s] \notin lost
  BY <1>2 DEF Unsent
<1> QED
  BY <1>1, <1>2


-----------------------------------------------------------------------------

(* A step that leaves the list, the handlers and the lost connections alone, or
   ends or loses a connection, keeps what they owe each other.               *)
LEMMA SameRoom ==
  ASSUME RoomsInv, room' = room, handlerPc' = handlerPc, lost \subseteq lost',
         \A s \in Sockets : listenerPc[s] = "ended" => listenerPc'[s] = "ended"
  PROVE  RoomFollowsHandlers' /\ \A s \in Range(room)' : handlerPc'[s] = "open"
BY DEF RoomsInv, RoomFollowsHandlers, Range

LEMMA RoomsTyping ==
  ASSUME RoomsInv
  PROVE  /\ room \in Seq(Sockets) /\ IsInjective(room) /\ Range(room) \subseteq Sockets
         /\ handlerPc \in [Sockets -> {"new", "open", "gone"}]
         /\ listenerPc \in [Sockets -> {"none", "listening", "sending", "ended"}]
         /\ position \in [Sockets -> 0 .. Cardinality(Sockets)]
         /\ receiver \in [Sockets -> Sockets]
         /\ unsent \in [Sockets -> Seq(Sockets)]
         /\ lost \subseteq Sockets
         /\ Len(room) \in Nat /\ Cardinality(Sockets) \in Nat /\ Len(room) <= Cardinality(Sockets)
<1>1. room \in Seq(Sockets) /\ IsInjective(room)
  BY RoomFollows DEF RoomsInv, RoomsTypeOK
<1>2. Range(room) \subseteq Sockets
  BY <1>1, ElementOfSeq DEF Range
<1> QED
  BY <1>1, <1>2, RoomIsBounded DEF RoomsInv, RoomsTypeOK

(* connect: the socket was not in the list.                                  *)
LEMMA ConnectStep ==
  ASSUME RoomsInv, NEW c \in Sockets, Connect(c)
  PROVE  RoomsInv'
<1> USE RoomsTyping
<1>1. /\ handlerPc[c] = "new" /\ handlerPc' = [handlerPc EXCEPT ![c] = "open"]
      /\ room' = Append(room, c) /\ listenerPc' = [listenerPc EXCEPT ![c] = "listening"]
      /\ position' = position /\ receiver' = receiver /\ unsent' = unsent /\ lost' = lost
  BY DEF Connect, broadcastVars
<1>2. c \notin Range(room)
  BY <1>1 DEF RoomsInv
<1>3. /\ room' \in Seq(Sockets) /\ Range(room') = Range(room) \cup {c} /\ IsInjective(room')
  <2> DEFINE one == <<c>>
  <2>1. one \in Seq(Sockets) /\ Range(one) = {c} /\ IsInjective(one)
    BY DEF Range, IsInjective
  <2>2. room' = room \o one
    BY <1>1, AppendIsConcat
  <2> HIDE DEF one
  <2>3. Range(room) \cap Range(one) = {}
    BY <1>2, <2>1
  <2>4. /\ room \o one \in Seq(Sockets)
        /\ Range(room \o one) = Range(room) \cup Range(one)
        /\ IsInjective(room \o one)
    BY <2>1, <2>3, InjectiveConcat
  <2> QED BY <2>1, <2>2, <2>4
<1>4. RoomsTypeOK'
  BY <1>1, <1>3 DEF RoomsTypeOK
<1>5. RoomFollowsHandlers'
  <2>1. \A s \in Sockets \ {c} :
          handlerPc'[s] = handlerPc[s] /\ listenerPc'[s] = listenerPc[s]
          /\ (s \in Range(room') <=> s \in Range(room))
    BY <1>1, <1>3
  <2>2. handlerPc'[c] = "open" /\ c \in Range(room')
    BY <1>1, <1>3
  <2>3. \A s \in Sockets : /\ (handlerPc'[s] = "open" /\ s \notin lost') => s \in Range(room')
                           /\ handlerPc'[s] = "gone" => s \notin Range(room') /\ listenerPc'[s] = "ended"
    BY <1>1, <2>1, <2>2 DEF RoomsInv, RoomFollowsHandlers
  <2> QED BY <1>3, <2>3 DEF RoomFollowsHandlers, IsInjective
<1>6. \A s \in Range(room') : handlerPc'[s] = "open"
  BY <1>1, <1>3 DEF RoomsInv
<1>7. \A s \in Sockets : Range(unsent'[s]) \subseteq lost'
  BY <1>1 DEF RoomsInv
<1> QED
  BY <1>4, <1>5, <1>6, <1>7 DEF RoomsInv, Range

(* A handler ends: its socket is not in the list then, whether the handler or a
   broadcast has removed it.                                                 *)
LEMMA LeaveStep ==
  ASSUME RoomsInv, NEW c \in Sockets, Leave(c)
  PROVE  RoomsInv'
<1> USE RoomsTyping
<1>1. /\ handlerPc' = [handlerPc EXCEPT ![c] = "gone"]
      /\ listenerPc' = [listenerPc EXCEPT ![c] = "ended"]
      /\ unsent' = [unsent EXCEPT ![c] = <<>>] /\ receiver' = [receiver EXCEPT ![c] = c]
      /\ room' = Remaining(<<c>>) /\ lost' = lost \cup {c}
  BY DEF Leave, StopListener
<1>2. /\ room' \in Seq(Sockets) /\ IsInjective(room') /\ c \notin Range(room')
      /\ Range(room') \subseteq Range(room) /\ Range(room) \ {c} \subseteq Range(room')
  <2>1. <<c>> \in Seq(Sockets) /\ Range(<<c>>) = {c} /\ Len(<<c>>) = 1 /\ <<c>>[1] = c
    BY DEF Range
  <2>2. /\ Remaining(<<c>>) \in Seq(Sockets)
        /\ Range(Remaining(<<c>>)) \subseteq Range(room)
        /\ Range(room) \ Range(<<c>>) \subseteq Range(Remaining(<<c>>))
        /\ <<c>>[1] \notin Range(Remaining(<<c>>))
        /\ IsInjective(Remaining(<<c>>))
    BY <2>1, RemainingFacts
  <2> QED BY <1>1, <2>1, <2>2
<1>3. position' \in [Sockets -> 0 .. Cardinality(Sockets)]
  <2>1. [position EXCEPT ![c] = 0] \in [Sockets -> 0 .. Cardinality(Sockets)]
    OBVIOUS
  <2> QED BY <2>1, WalkFacts DEF Leave
<1>4. RoomsTypeOK'
  <2>1. unsent' \in [Sockets -> Seq(Sockets)]
    BY <1>1
  <2> QED BY <1>1, <1>2, <1>3, <2>1 DEF RoomsTypeOK
<1>5. RoomFollowsHandlers'
  <2>1. \A s \in Sockets \ {c} :
          /\ handlerPc'[s] = handlerPc[s] /\ listenerPc'[s] = listenerPc[s]
          /\ s \in lost' <=> s \in lost
          /\ s \in Range(room') <=> s \in Range(room)
    BY <1>1, <1>2
  <2>2. handlerPc'[c] = "gone" /\ c \notin Range(room') /\ listenerPc'[c] = "ended"
    BY <1>1, <1>2
  <2>3. \A s \in Sockets : /\ (handlerPc'[s] = "open" /\ s \notin lost') => s \in Range(room')
                           /\ handlerPc'[s] = "gone" => s \notin Range(room') /\ listenerPc'[s] = "ended"
    BY <2>1, <2>2 DEF RoomsInv, RoomFollowsHandlers
  <2> QED BY <1>2, <2>3 DEF RoomFollowsHandlers, IsInjective
<1>6. \A s \in Range(room') : handlerPc'[s] = "open"
  BY <1>1, <1>2 DEF RoomsInv
<1>7. \A s \in Sockets : Range(unsent'[s]) \subseteq lost'
  <2>1. Range(<<>>) = {}
    BY DEF Range
  <2> QED BY <1>1, <2>1 DEF RoomsInv
<1> QED
  BY <1>4, <1>5, <1>6, <1>7 DEF RoomsInv, Range

(* A send returns or raises: only a lost socket is taken down as unsent.     *)
LEMMA SendNextStep ==
  ASSUME RoomsInv, NEW c \in Sockets, SendNext(c)
  PROVE  RoomsInv'
<1> USE RoomsTyping
<1>1. /\ position[c] < Len(room)
      /\ unsent' = [unsent EXCEPT ![c] = Unsent(c)]
      /\ position' = [position EXCEPT ![c] = position[c] + 1]
      /\ receiver' = [receiver EXCEPT ![c] = room[position[c] + 1]]
      /\ room' = room /\ handlerPc' = handlerPc /\ listenerPc' = listenerPc /\ lost' = lost
  BY DEF SendNext
<1>2. position[c] + 1 \in 0 .. Cardinality(Sockets) /\ position[c] + 1 \in 1 .. Len(room)
  BY <1>1
<1>3. room[position[c] + 1] \in Sockets
  BY <1>2, ElementOfSeq
<1>4. Unsent(c) \in Seq(Sockets) /\ Range(Unsent(c)) \subseteq lost
  BY UnsentFacts DEF RoomsInv
<1>5. RoomsTypeOK'
  BY <1>1, <1>2, <1>3, <1>4 DEF RoomsTypeOK
<1>6. RoomFollowsHandlers' /\ \A s \in Range(room)' : handlerPc'[s] = "open"
  BY <1>1, SameRoom
<1>7. \A s \in Sockets : Range(unsent'[s]) \subseteq lost'
  BY <1>1, <1>4 DEF RoomsInv
<1> QED
  BY <1>5, <1>6, <1>7 DEF RoomsInv, Range

(* A broadcast ends: what it disconnects is lost.                            *)
LEMMA EndBroadcastStep ==
  ASSUME RoomsInv, NEW c \in Sockets, EndBroadcast(c)
  PROVE  RoomsInv'
<1> USE RoomsTyping
<1>1. /\ room' = Remaining(Unsent(c)) /\ position' = Walk([position EXCEPT ![c] = 0])
      /\ receiver' = [receiver EXCEPT ![c] = c] /\ unsent' = [unsent EXCEPT ![c] = <<>>]
      /\ listenerPc' = [listenerPc EXCEPT ![c] = IF Raises(Unsent(c)) THEN "ended" ELSE "listening"]
      /\ handlerPc' = handlerPc /\ lost' = lost /\ listenerPc[c] = "sending"
  BY DEF EndBroadcast
<1>2. Unsent(c) \in Seq(Sockets) /\ Range(Unsent(c)) \subseteq lost
  BY UnsentFacts DEF RoomsInv
<1>3. /\ room' \in Seq(Sockets) /\ IsInjective(room')
      /\ Range(room') \subseteq Range(room) /\ Range(room) \ lost \subseteq Range(room')
  BY <1>1, <1>2, RemainingFacts
<1>4. position' \in [Sockets -> 0 .. Cardinality(Sockets)]
  <2>1. [position EXCEPT ![c] = 0] \in [Sockets -> 0 .. Cardinality(Sockets)]
    OBVIOUS
  <2> QED BY <1>1, <2>1, WalkFacts
<1>5. RoomsTypeOK'
  <2>1. unsent' \in [Sockets -> Seq(Sockets)]
    BY <1>1
  <2> QED BY <1>1, <1>3, <1>4, <2>1 DEF RoomsTypeOK
<1>6. RoomFollowsHandlers'
  <2>1. handlerPc[c] # "gone"
    BY <1>1 DEF RoomsInv, RoomFollowsHandlers
  <2>2. \A s \in Sockets : handlerPc[s] = "gone" => listenerPc'[s] = listenerPc[s]
    BY <1>1, <2>1
  <2>3. \A s \in Sockets : /\ (handlerPc'[s] = "open" /\ s \notin lost') => s \in Range(room')
                           /\ handlerPc'[s] = "gone" => s \notin Range(room') /\ listenerPc'[s] = "ended"
    BY <1>1, <1>3, <2>2 DEF RoomsInv, RoomFollowsHandlers
  <2> QED BY <1>3, <2>3 DEF RoomFollowsHandlers, IsInjective
<1>7. \A s \in Range(room') : handlerPc'[s] = "open"
  BY <1>1, <1>3 DEF RoomsInv
<1>8. \A s \in Sockets : Range(unsent'[s]) \subseteq lost'
  <2>1. Range(<<>>) = {}
    BY DEF Range
  <2> QED BY <1>1, <2>1 DEF RoomsInv
<1> QED
  BY <1>5, <1>6, <1>7, <1>8 DEF RoomsInv, Range

(* A connection breaks, a broadcast begins or a listener fails.              *)
LEMMA OtherSteps ==
  ASSUME RoomsInv, NEW c \in Sockets, LoseConnection(c) \/ Broadcast(c) \/ ListenerFails(c)
  PROVE  RoomsInv'
<1> USE RoomsTyping
<1>1. /\ room' = room /\ handlerPc' = handlerPc /\ unsent' = unsent
      /\ lost' \subseteq Sockets /\ lost \subseteq lost'
  BY DEF LoseConnection, Broadcast, ListenerFails, broadcastVars
<1>2. /\ listenerPc' \in [Sockets -> {"none", "listening", "sending", "ended"}]
      /\ \A s \in Sockets : listenerPc[s] = "ended" => listenerPc'[s] = "ended"
  <2>1. CASE LoseConnection(c)
    BY <2>1 DEF LoseConnection
  <2>2. CASE Broadcast(c)
    BY <2>2 DEF Broadcast
  <2>3. CASE ListenerFails(c)
    BY <2>3 DEF ListenerFails
  <2> QED BY <2>1, <2>2, <2>3
<1>3. position' \in [Sockets -> 0 .. Cardinality(Sockets)] /\ receiver' \in [Sockets -> Sockets]
  <2>1. CASE Broadcast(c)
    <3>1. Len(room) >= 1
      BY <2>1, EmptySeq DEF Broadcast
    <3>2. room[1] \in Sockets /\ 1 \in 0 .. Cardinality(Sockets)
      BY <3>1, ElementOfSeq
    <3> QED BY <2>1, <3>2 DEF Broadcast
  <2>2. CASE LoseConnection(c) \/ ListenerFails(c)
    BY <2>2 DEF LoseConnection, ListenerFails, broadcastVars
  <2> QED BY <2>1, <2>2
<1>4. RoomFollowsHandlers' /\ \A s \in Range(room)' : handlerPc'[s] = "open"
  BY <1>1, <1>2, SameRoom
<1>5. RoomsTypeOK'
  BY <1>1, <1>2, <1>3 DEF RoomsTypeOK
<1> QED
  BY <1>1, <1>4, <1>5 DEF RoomsInv, Range

-----------------------------------------------------------------------------

(* The invariant holds at first and through any interleaving of broadcasts,
   arrivals and departures.                                                  *)
THEOREM RoomsInvariant == RoomsSpec => []RoomsInv
<1>1. RoomsInit => RoomsInv
  <2> SUFFICES ASSUME RoomsInit PROVE RoomsInv
    OBVIOUS
  <2>1. Range(<<>>) = {}
    BY DEF Range
  <2>2. RoomFollowsHandlers
    BY DEF RoomsInit, RoomFollowsHandlers
  <2>3. 0 \in 0 .. Cardinality(Sockets)
    BY SocketsAssumption, FS_CardinalityType
  <2>4. RoomsTypeOK
    BY <2>3 DEF RoomsInit, RoomsTypeOK
  <2> QED BY <2>1, <2>2, <2>4 DEF RoomsInit, RoomsInv
<1>2. RoomsInv /\ [RoomsNext]_roomVars => RoomsInv'
  <2> SUFFICES ASSUME RoomsInv, [RoomsNext]_roomVars PROVE RoomsInv'
    OBVIOUS
  <2>1. CASE UNCHANGED roomVars
    <3>1. /\ room' = room /\ handlerPc' = handlerPc /\ listenerPc' = listenerPc
          /\ position' = position /\ receiver' = receiver /\ unsent' = unsent /\ lost' = lost
      BY <2>1 DEF roomVars, broadcastVars
    <3>2. RoomFollowsHandlers' /\ \A s \in Range(room)' : handlerPc'[s] = "open"
      BY <3>1, SameRoom
    <3> QED BY <3>1, <3>2 DEF RoomsInv, RoomsTypeOK, Range
  <2>2. ASSUME NEW s \in Sockets,
               \/ Connect(s) \/ LoseConnection(s) \/ Leave(s) \/ Broadcast(s)
               \/ SendNext(s) \/ EndBroadcast(s) \/ ListenerFails(s)
        PROVE  RoomsInv'
    BY <2>2, ConnectStep, LeaveStep, SendNextStep, EndBroadcastStep, OtherSteps
  <2> QED BY <2>1, <2>2 DEF RoomsNext
<1> QED
  BY <1>1, <1>2, PTL DEF RoomsSpec

(* A broadcast never walks past the sockets there are, and takes down and sends to
   sockets only.                                                             *)
THEOREM RoomsTypes == RoomsSpec => []RoomsTypeOK
<1>1. RoomsInv => RoomsTypeOK
  BY DEF RoomsInv
<1> QED
  BY <1>1, RoomsInvariant, PTL

(* connect, disconnect and broadcast of ConnectionManager and the handler of
   execution_websocket keep every open and reachable socket in the room, once,
   and leave nothing of a handler that has ended.                            *)
THEOREM RoomIsTrue == RoomsSpec => []RoomFollowsHandlers
<1>1. RoomsInv => RoomFollowsHandlers
  BY DEF RoomsInv
<1> QED
  BY <1>1, RoomsInvariant, PTL
=============================================================================
