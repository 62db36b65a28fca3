------------------------ MODULE ArchiveTrashProofs --------------------------
(***************************************************************************)
(* Theorems of ArchiveTrash, for any files, rollouts, satellites, stage    *)
(* directories and bounds: whatever fails or dies at whatever step, no     *)
(* rollout file and no row is lost, an interrupted restore finds its files *)
(* again, and the files and the rows of a thread go and come together.     *)
(***************************************************************************)
EXTENDS ArchiveTrash, WellFoundedInduction, TLAPS

CleanupPcs == {"staging", "reconcile", "satellites", "undo", "unwind", "purge"}

(* An absent directory is empty; a working job has its directory; a backup
   holds rows of the threads it names only. *)
DirsInv ==
    /\ \A s \in Stages : ~stages[s].here => stages[s] = NoDir
    /\ job.pc # "idle" => job.stage \in Stages /\ Here.here
    /\ \A s \in Stages, d \in Dbs : stages[s].saved[d] \subseteq stages[s].threads

(* Which files of its directory a job has still to look after. *)
FilesInv ==
    /\ job.pc = "staging" => \A f \in job.todo : Here.files[f] = 0
    /\ job.pc \in {"staging", "reconcile", "satellites", "undo"} =>
         \A f \in Files : Here.files[f] # 0 => f \in job.done
    /\ job.pc \in {"unwind", "purge"} =>
         \A f \in Files : Here.files[f] # 0 => f \in job.todo \cup job.left
    /\ job.pc \in {"moving", "unlinking"} =>
         \A f \in job.todo : Here.files[f] # 0
    /\ job.pc = "unlinking" =>
         \A f \in job.left : f \in job.todo /\ archive[f] = Here.files[f]

(* What is between the backup and the databases at each phase. *)
RowsInv ==
    /\ job.pc \in CleanupPcs => ~Here.marker.here
    /\ job.pc \in {"staging", "reconcile"} => Here.saved = NoRows
    /\ job.pc = "satellites" =>
         /\ Here.saved["state"] = Here.threads
         /\ Here.threads \subseteq rows["state"]
         /\ \A f \in job.done : RolloutOf[f] \in rows["state"]
                                  => RolloutOf[f] \in Here.threads
    /\ job.pc = "undo" =>
         /\ Here.saved["state"] \subseteq rows["state"]
         /\ \A i \in 1 .. job.next - 1 :
              Here.saved[SatOrder[i]] \subseteq rows[SatOrder[i]]
    /\ job.pc = "unwind" /\ ~job.keep => Here.saved = NoRows
    /\ job.pc = "purge" =>
         /\ job.todo \subseteq job.done
         /\ \A f \in job.done : RolloutOf[f] \notin rows["state"]
    /\ job.pc \in {"moving", "unlinking", "sections"} =>
         Here.marker.here /\ Here.marker.owed = job.owed
    /\ job.pc = "persist" =>
         /\ Here.marker.here
         /\ \A d \in Here.marker.owed \ job.owed : Here.saved[d] \subseteq rows[d]

(* A backup stops to count for a section once its restore is recorded. *)
Holds(s, d) == stages[s].marker.here => d \in stages[s].marker.owed

RowsKept ==
    \A d \in Dbs, r \in Rollouts :
        \/ r \in rows[d]
        \/ \E s \in Stages : r \in stages[s].saved[d] /\ Holds(s, d)
        \/ r \in dropped[d]

(* A restore that has begun awaits file f at its place; ... *)
Awaits(s, f) == stages[s].marker.here /\ f \in stages[s].marker.accepted

(* ... it has also recorded section d, which holds rows of f's thread. *)
BroughtBack(s, d, f) ==
    /\ Awaits(s, f) /\ d \notin stages[s].marker.owed
    /\ RolloutOf[f] \in stages[s].saved[d]
    /\ ~TakenFrom(RolloutOf[f])

(* No cleanup moves a file that a restore awaits, and a link that is taken
   back is of a file no other restore has at home. *)
ResumeInv ==
    /\ ResumeFindsFiles
    /\ job.pc = "staging" =>
         \A s \in Stages, f \in job.todo : ~Awaits(s, f)
    /\ job.pc = "unlinking" =>
         \A s \in Stages, f \in job.left :
            Awaits(s, f) => stages[s].files[f] # 0 \/ TakenFrom(RolloutOf[f])

(* What a restore awaits: all its directory has, until it is in place. *)
AwaitedInv ==
    /\ \A s \in Stages : \A f \in stages[s].entries :
         stages[s].marker.here /\ stages[s].files[f] # 0 => Awaits(s, f)
    /\ job.pc \in {"moving", "unlinking", "sections", "persist"} =>
         job.done = Here.marker.accepted
    /\ job.pc \in {"moving", "unlinking"} =>
         \A f \in job.done : archive[f] # 0 \/ f \in job.todo \/ TakenFrom(RolloutOf[f])
    /\ job.pc \in {"sections", "persist"} =>
         \A f \in job.done : archive[f] # 0 \/ TakenFrom(RolloutOf[f])

(* What a restore has recorded as brought back is left alone by cleanups. *)
AgreeInv ==
    /\ \A s \in Stages, d \in Dbs, f \in Files : BroughtBack(s, d, f) =>
         archive[f] # 0 /\ RolloutOf[f] \in rows[d]
    /\ job.pc \in CleanupPcs =>
         /\ Here.threads \subseteq {RolloutOf[g] : g \in job.done}
         /\ \A s \in Stages, d \in Dbs, f \in Files : BroughtBack(s, d, f) =>
              \A g \in job.todo \cup job.done : RolloutOf[g] # RolloutOf[f]
    /\ job.pc = "unlinking" =>
         \A s \in Stages, d \in Dbs, f \in job.left : ~BroughtBack(s, d, f)
IInv ==
    /\ TypeOK /\ DirsInv /\ FilesInv /\ RowsInv /\ RowsKept /\ RolloutsSurvive
    /\ ResumeInv /\ AwaitedInv /\ AgreeInv

-----------------------------------------------------------------------------
(* The databases and constant records are of their types. *)
LEMMA Shapes ==
    /\ Sats \subseteq Dbs /\ "state" \in Dbs /\ "state" \notin Sats
    /\ Dbs = Sats \cup {"state"}
    /\ LastSat \in Nat \ {0} /\ Len(SatOrder) \in Nat /\ LastSat = Len(SatOrder) + 1
    /\ \A i \in 1 .. Len(SatOrder) : SatOrder[i] \in Sats
    /\ \A d \in Sats : \E i \in 1 .. Len(SatOrder) : d = SatOrder[i]
    /\ 0 \in Versions /\ Versions \subseteq Nat
    /\ NoFiles \in [Files -> Versions] /\ NoRows \in [Dbs -> SUBSET Rollouts]
    /\ NoMarker \in MarkerRecord /\ NoDir \in StageRecord /\ IdleJob \in JobRecord
<1>1. SatOrder \in Seq({"logs", "memories", "goals"}) /\ MaxVersion \in Nat \ {0}
  BY TrashConstants
<1>2. /\ Len(SatOrder) \in Nat
      /\ \A i \in 1 .. Len(SatOrder) : SatOrder[i] \in {"logs", "memories", "goals"}
  BY <1>1
<1>3. /\ Sats \subseteq Dbs /\ "state" \in Dbs /\ Dbs = Sats \cup {"state"}
      /\ \A i \in 1 .. Len(SatOrder) : SatOrder[i] \in Sats
      /\ \A d \in Sats : \E i \in 1 .. Len(SatOrder) : d = SatOrder[i]
  BY DEF Sats, Dbs
<1>4. "state" \notin Sats
  BY <1>2 DEF Sats
<1>5. LastSat \in Nat \ {0} /\ LastSat = Len(SatOrder) + 1
  BY <1>2 DEF LastSat
<1>6. 0 \in Versions /\ Versions \subseteq Nat
  BY <1>1 DEF Versions
<1>7. NoFiles \in [Files -> Versions] /\ NoRows \in [Dbs -> SUBSET Rollouts]
  BY <1>6 DEF NoFiles, NoRows
<1>8. NoMarker \in MarkerRecord
  BY DEF NoMarker, MarkerRecord
<1>9. NoDir \in StageRecord
  BY <1>7, <1>8 DEF NoDir, StageRecord
<1>10. IdleJob \in JobRecord
  BY <1>5 DEF IdleJob, JobRecord, Pcs
<1> QED
  BY <1>2, <1>3, <1>4, <1>5, <1>6, <1>7, <1>8, <1>9, <1>10

-----------------------------------------------------------------------------
(* What each kind of change does to the directories. *)
LEMMA FileChange ==
    ASSUME stages \in [Stages -> StageRecord], NEW s \in Stages,
           NEW f \in Files, NEW v \in Versions,
           stages' = [stages EXCEPT ![s].files[f] = v]
    PROVE  /\ stages' \in [Stages -> StageRecord]
           /\ \A t \in Stages \ {s} : stages'[t] = stages[t]
           /\ stages'[s].files = [stages[s].files EXCEPT ![f] = v]
           /\ stages'[s].here = stages[s].here /\ stages'[s].entries = stages[s].entries
           /\ stages'[s].threads = stages[s].threads /\ stages'[s].saved = stages[s].saved
           /\ stages'[s].marker = stages[s].marker
  BY DEF StageRecord

LEMMA BackupChange ==
    ASSUME stages \in [Stages -> StageRecord], NEW s \in Stages,
           NEW R \in SUBSET Rollouts, NEW b \in [Dbs -> SUBSET Rollouts],
           stages' = [stages EXCEPT ![s].threads = R, ![s].saved = b]
    PROVE  /\ stages' \in [Stages -> StageRecord]
           /\ \A t \in Stages \ {s} : stages'[t] = stages[t]
           /\ stages'[s].threads = R /\ stages'[s].saved = b
           /\ stages'[s].here = stages[s].here /\ stages'[s].entries = stages[s].entries
           /\ stages'[s].files = stages[s].files /\ stages'[s].marker = stages[s].marker
  BY DEF StageRecord

LEMMA EntriesChange ==
    ASSUME stages \in [Stages -> StageRecord], NEW s \in Stages,
           NEW E \in SUBSET Files,
           stages' = [stages EXCEPT ![s].entries = E]
    PROVE  /\ stages' \in [Stages -> StageRecord]
           /\ \A t \in Stages \ {s} : stages'[t] = stages[t]
           /\ stages'[s].here = stages[s].here /\ stages'[s].files = stages[s].files
           /\ stages'[s].threads = stages[s].threads /\ stages'[s].saved = stages[s].saved
           /\ stages'[s].marker = stages[s].marker
  BY DEF StageRecord

LEMMA MarkerChange ==
    ASSUME stages \in [Stages -> StageRecord], NEW s \in Stages,
           NEW m \in MarkerRecord,
           stages' = [stages EXCEPT ![s].marker = m]
    PROVE  /\ stages' \in [Stages -> StageRecord]
           /\ \A t \in Stages \ {s} : stages'[t] = stages[t]
           /\ stages'[s].marker = m
           /\ stages'[s].here = stages[s].here /\ stages'[s].entries = stages[s].entries
           /\ stages'[s].files = stages[s].files
           /\ stages'[s].threads = stages[s].threads /\ stages'[s].saved = stages[s].saved
  BY DEF StageRecord

LEMMA OwedChange ==
    ASSUME stages \in [Stages -> StageRecord], NEW s \in Stages,
           NEW O \in SUBSET Dbs,
           stages' = [stages EXCEPT ![s].marker.owed = O]
    PROVE  /\ stages' \in [Stages -> StageRecord]
           /\ \A t \in Stages \ {s} : stages'[t] = stages[t]
           /\ stages'[s].marker.here = stages[s].marker.here
           /\ stages'[s].marker.owed = O
           /\ stages'[s].marker.accepted = stages[s].marker.accepted
           /\ stages'[s].here = stages[s].here /\ stages'[s].entries = stages[s].entries
           /\ stages'[s].files = stages[s].files
           /\ stages'[s].threads = stages[s].threads /\ stages'[s].saved = stages[s].saved
<1>1. stages[s].marker \in MarkerRecord
  BY DEF StageRecord
<1>2. [stages[s].marker EXCEPT !.owed = O] \in MarkerRecord
  BY <1>1 DEF MarkerRecord
<1>3. stages' = [stages EXCEPT ![s].marker = [stages[s].marker EXCEPT !.owed = O]]
  OBVIOUS
<1>4. /\ [stages[s].marker EXCEPT !.owed = O].here = stages[s].marker.here
      /\ [stages[s].marker EXCEPT !.owed = O].owed = O
      /\ [stages[s].marker EXCEPT !.owed = O].accepted = stages[s].marker.accepted
  BY <1>1 DEF MarkerRecord
<1> QED
  BY <1>2, <1>3, <1>4, MarkerChange

LEMMA DirChange ==
    ASSUME stages \in [Stages -> StageRecord], NEW s \in Stages,
           NEW y \in StageRecord, stages' = [stages EXCEPT ![s] = y]
    PROVE  /\ stages' \in [Stages -> StageRecord]
           /\ \A t \in Stages \ {s} : stages'[t] = stages[t]
           /\ stages'[s] = y
  OBVIOUS
-----------------------------------------------------------------------------
(* A restore takes the owed sections in an order that leaves none out.     *)
LEMMA NextOwedIsOwed ==
    ASSUME job.owed \in SUBSET Dbs, job.owed # {}
    PROVE  NextOwed \in job.owed
<1>1. CASE "state" \in job.owed
  BY <1>1 DEF NextOwed
<1>2. CASE "state" \notin job.owed
  <2> DEFINE Left == {i \in 1 .. Len(SatOrder) : SatOrder[i] \in job.owed}
  <2>1. Left # {} /\ Left \subseteq Nat
    BY <1>2, Shapes
  <2>2. PICK i \in Left : \A j \in Left : ~ (<<j, i>> \in OpToRel(<, Nat))
    BY <2>1, NatLessThanWellFounded, WFMin
  <2>3. i \in 1 .. Len(SatOrder) /\ SatOrder[i] \in job.owed
    OBVIOUS
  <2>4. \A j \in 1 .. i - 1 : SatOrder[j] \notin job.owed
    <3>1. SUFFICES ASSUME NEW j \in 1 .. i - 1, SatOrder[j] \in job.owed PROVE FALSE
      OBVIOUS
    <3>2. j \in 1 .. Len(SatOrder) /\ j \in Nat /\ i \in Nat /\ j < i
      BY <2>3, Shapes
    <3>3. j \in Left
      BY <3>1, <3>2
    <3>4. <<j, i>> \in OpToRel(<, Nat)
      BY <3>2 DEF OpToRel
    <3> QED
      BY <2>2, <3>3, <3>4
  <2>5. SatOrder[CHOOSE k \in 1 .. Len(SatOrder) :
                    /\ SatOrder[k] \in job.owed
                    /\ \A j \in 1 .. k - 1 : SatOrder[j] \notin job.owed] \in job.owed
    BY <2>3, <2>4
  <2> QED
    BY <1>2, <2>5 DEF NextOwed
<1> QED
  BY <1>1, <1>2

(* A job whose phase and work change is a job. *)
LEMMA JobChange ==
    ASSUME job \in JobRecord
    PROVE  /\ \A p \in Pcs : [job EXCEPT !.pc = p] \in JobRecord
           /\ \A p \in Pcs, n \in 1 .. LastSat : [job EXCEPT !.pc = p, !.next = n] \in JobRecord
           /\ \A n \in 1 .. LastSat : [job EXCEPT !.next = n] \in JobRecord
           /\ \A p \in Pcs, S \in SUBSET Files : [job EXCEPT !.pc = p, !.todo = S] \in JobRecord
           /\ \A S, T \in SUBSET Files : /\ [job EXCEPT !.todo = S, !.done = T] \in JobRecord
                                         /\ [job EXCEPT !.todo = S, !.left = T] \in JobRecord
           /\ \A S \in SUBSET Files : [job EXCEPT !.todo = S] \in JobRecord
           /\ \A p \in Pcs, S, T \in SUBSET Files :
                /\ [job EXCEPT !.pc = p, !.todo = S, !.left = T] \in JobRecord
                /\ [job EXCEPT !.pc = p, !.left = T] \in JobRecord
           /\ \A p \in Pcs, O \in SUBSET Dbs : [job EXCEPT !.pc = p, !.owed = O] \in JobRecord
           /\ \A k \in BOOLEAN : Unwinding(k) \in JobRecord
<1>1. \A p \in Pcs : [job EXCEPT !.pc = p] \in JobRecord
  BY DEF JobRecord
<1>2. \A p \in Pcs, n \in 1 .. LastSat : [job EXCEPT !.pc = p, !.next = n] \in JobRecord
  BY DEF JobRecord
<1>3. \A n \in 1 .. LastSat : [job EXCEPT !.next = n] \in JobRecord
  BY DEF JobRecord
<1>4. \A p \in Pcs, S \in SUBSET Files : [job EXCEPT !.pc = p, !.todo = S] \in JobRecord
  BY DEF JobRecord
<1>5. \A S, T \in SUBSET Files : /\ [job EXCEPT !.todo = S, !.done = T] \in JobRecord
                                 /\ [job EXCEPT !.todo = S, !.left = T] \in JobRecord
  BY DEF JobRecord
<1>6. \A S \in SUBSET Files : [job EXCEPT !.todo = S] \in JobRecord
  BY DEF JobRecord
<1>7. \A p \in Pcs, S, T \in SUBSET Files :
        /\ [job EXCEPT !.pc = p, !.todo = S, !.left = T] \in JobRecord
        /\ [job EXCEPT !.pc = p, !.left = T] \in JobRecord
  BY DEF JobRecord
<1>8. \A p \in Pcs, O \in SUBSET Dbs : [job EXCEPT !.pc = p, !.owed = O] \in JobRecord
  BY DEF JobRecord
<1>9. \A k \in BOOLEAN : Unwinding(k) \in JobRecord
  BY DEF JobRecord, Unwinding, Pcs
<1> QED
  BY <1>1, <1>2, <1>3, <1>4, <1>5, <1>6, <1>7, <1>8, <1>9

-----------------------------------------------------------------------------
(* Types. *)
LEMMA TypeStep == TypeOK /\ DirsInv /\ [Next]_vars => TypeOK'
<1> SUFFICES ASSUME TypeOK, DirsInv, [Next]_vars PROVE TypeOK'
  OBVIOUS
<1> USE DEF disk, outer, history
<1>1. /\ archive \in [Files -> Versions] /\ stages \in [Stages -> StageRecord]
      /\ rows \in [Dbs -> SUBSET Rollouts] /\ referenced \in SUBSET Rollouts
      /\ troubles \in Nat /\ job \in JobRecord /\ born \in [Files -> Versions]
      /\ purged \in SUBSET (Files \X Versions) /\ taken \in SUBSET (Files \X Versions)
      /\ dropped \in [Dbs -> SUBSET Rollouts]
  BY DEF TypeOK
<1>2. /\ job.pc \in Pcs /\ job.todo \in SUBSET Files /\ job.done \in SUBSET Files
      /\ job.left \in SUBSET Files /\ job.next \in 1 .. LastSat /\ job.owed \in SUBSET Dbs
      /\ job.pc # "idle" => job.stage \in Stages
  BY <1>1 DEF JobRecord, DirsInv
<1>3. job.pc # "idle" => /\ Here \in StageRecord /\ Here.files \in [Files -> Versions]
                         /\ Here.threads \in SUBSET Rollouts
                         /\ Here.saved \in [Dbs -> SUBSET Rollouts]
  BY <1>1, <1>2 DEF Here, StageRecord
<1>4. troubles' \in Nat
  <2>1. Trouble => troubles' \in Nat
    BY <1>1 DEF Trouble
  <2> QED
    BY <1>1, <2>1 DEF Next, CleanupStep, RestoreStep, WorldStep, vars, StartCleanup, StageFile,
       StageFails, FinalManifest, RollbackFile, RollbackBlocked, FinishUnwind, LockAndBackup,
       ReconcileFails, CommitSatellite, CommitState, SatellitesFail, UndoSatellite, ClearBackup,
       UndoFails, PurgeFile, PurgeBlocked, FinishPurge, StartRestore, LinkFile, UnlinkFile,
       UnlinkFails, MoveFails, MovesDone, RestoreSection, PersistMarker, RestoreAborts,
       FinalizeRestore, JobDies, CodexForks, CodexAdds, CodexTakes
<1>5. Len(SatOrder) \in Nat /\ LastSat = Len(SatOrder) + 1 /\ LastSat \in Nat
  BY Shapes
<1>6. archive' \in [Files -> Versions]
  <2>1. \A f \in Files, v \in Versions : [archive EXCEPT ![f] = v] \in [Files -> Versions]
    BY <1>1
  <2>2. 0 \in Versions
    BY Shapes
  <2>3. ASSUME NEW f \in Files PROVE
          /\ StageFile(f) => archive' \in [Files -> Versions]
          /\ RollbackFile(f) => archive' \in [Files -> Versions]
          /\ LinkFile(f) => archive' \in [Files -> Versions]
          /\ UnlinkFails(f) => archive' \in [Files -> Versions]
          /\ CodexTakes(f) => archive' \in [Files -> Versions]
    <3>1. StageFile(f) => archive' \in [Files -> Versions]
      BY <2>1, <2>2 DEF StageFile
    <3>2. RollbackFile(f) => archive' \in [Files -> Versions]
      BY <2>1, <1>3 DEF RollbackFile
    <3>3. LinkFile(f) => archive' \in [Files -> Versions]
      BY <2>1, <1>3 DEF LinkFile
    <3>4. UnlinkFails(f) => archive' \in [Files -> Versions]
      BY <2>1, <2>2, <1>1 DEF UnlinkFails
    <3>5. CodexTakes(f) => archive' \in [Files -> Versions]
      BY <2>1, <2>2 DEF CodexTakes
    <3> QED
      BY <3>1, <3>2, <3>3, <3>4, <3>5
  <2>4. ASSUME NEW f \in Files, CodexAdds(f) PROVE archive' \in [Files -> Versions]
    <3>1. born[f] + 1 \in Versions
      BY <1>1, <2>4, TrashConstants DEF CodexAdds, Versions
    <3> QED
      BY <2>1, <3>1, <2>4 DEF CodexAdds
  <2> QED
    BY <1>1, <2>3, <2>4 DEF Next, CleanupStep, RestoreStep, WorldStep, vars, StartCleanup,
       StageFails, FinalManifest, RollbackBlocked, FinishUnwind, LockAndBackup,
       ReconcileFails, CommitSatellite, CommitState, SatellitesFail, UndoSatellite, ClearBackup,
       UndoFails, PurgeFile, PurgeBlocked, FinishPurge, StartRestore, UnlinkFile,
       MoveFails, MovesDone, RestoreSection, PersistMarker, RestoreAborts,
       FinalizeRestore, JobDies, CodexForks
<1>7. rows' \in [Dbs -> SUBSET Rollouts]
  <2>1. \A d \in Dbs, R \in SUBSET Rollouts : [rows EXCEPT ![d] = R] \in [Dbs -> SUBSET Rollouts]
    BY <1>1
  <2>2. CommitSatellite => rows' \in [Dbs -> SUBSET Rollouts]
    BY <1>1 DEF CommitSatellite, DeleteSaved
  <2>3. CommitState => rows' \in [Dbs -> SUBSET Rollouts]
    BY <1>1 DEF CommitState
  <2>4. UndoSatellite => rows' \in [Dbs -> SUBSET Rollouts]
    <3>1. ASSUME UndoSatellite PROVE SatOrder[job.next] \in Dbs
      BY <3>1, <1>2, <1>5, Shapes DEF UndoSatellite
    <3> QED
      BY <1>1, <1>3, <3>1 DEF UndoSatellite, InsertSaved
  <2>5. RestoreSection => rows' \in [Dbs -> SUBSET Rollouts]
    <3>1. ASSUME RestoreSection PROVE NextOwed \in Dbs
      BY <3>1, <1>2, NextOwedIsOwed DEF RestoreSection
    <3> QED
      BY <1>1, <1>3, <3>1 DEF RestoreSection, InsertSaved
  <2> QED
    BY <1>1, <2>2, <2>3, <2>4, <2>5 DEF Next, CleanupStep, RestoreStep, WorldStep, vars, StartCleanup, StageFile,
       StageFails, FinalManifest, RollbackFile, RollbackBlocked, FinishUnwind, LockAndBackup,
       ReconcileFails, SatellitesFail, ClearBackup,
       UndoFails, PurgeFile, PurgeBlocked, FinishPurge, StartRestore, LinkFile, UnlinkFile,
       UnlinkFails, MoveFails, MovesDone, PersistMarker, RestoreAborts,
       FinalizeRestore, JobDies, CodexForks, CodexAdds, CodexTakes
<1>8. referenced' \in SUBSET Rollouts
  BY <1>1 DEF Next, CleanupStep, RestoreStep, WorldStep, vars, StartCleanup, StageFile,
       StageFails, FinalManifest, RollbackFile, RollbackBlocked, FinishUnwind, LockAndBackup,
       ReconcileFails, CommitSatellite, CommitState, SatellitesFail, UndoSatellite, ClearBackup,
       UndoFails, PurgeFile, PurgeBlocked, FinishPurge, StartRestore, LinkFile, UnlinkFile,
       UnlinkFails, MoveFails, MovesDone, RestoreSection, PersistMarker, RestoreAborts,
       FinalizeRestore, JobDies, CodexForks, CodexAdds, CodexTakes
<1>9. /\ born' \in [Files -> Versions]
       /\ purged' \in SUBSET (Files \X Versions) /\ taken' \in SUBSET (Files \X Versions)
       /\ dropped' \in [Dbs -> SUBSET Rollouts]
  <2>1. ASSUME NEW f \in Files, CodexAdds(f) PROVE born' \in [Files -> Versions]
    BY <1>1, <2>1, TrashConstants DEF CodexAdds, Versions
  <2>2. ASSUME NEW f \in Files, PurgeFile(f) PROVE purged' \in SUBSET (Files \X Versions)
    BY <1>1, <1>3, <2>2 DEF PurgeFile
  <2>3. ASSUME NEW f \in Files, CodexTakes(f) PROVE taken' \in SUBSET (Files \X Versions)
    BY <1>1, <2>3 DEF CodexTakes
  <2>4. FinishPurge => dropped' \in [Dbs -> SUBSET Rollouts]
    BY <1>1, <1>3 DEF FinishPurge
  <2> QED
    BY <1>1, <2>1, <2>2, <2>3, <2>4 DEF Next, CleanupStep, RestoreStep, WorldStep, vars, StartCleanup, StageFile,
       StageFails, FinalManifest, RollbackFile, RollbackBlocked, FinishUnwind, LockAndBackup,
       ReconcileFails, CommitSatellite, CommitState, SatellitesFail, UndoSatellite, ClearBackup,
       UndoFails, PurgeFile, PurgeBlocked, FinishPurge, StartRestore, LinkFile, UnlinkFile,
       UnlinkFails, MoveFails, MovesDone, RestoreSection, PersistMarker, RestoreAborts,
       FinalizeRestore, JobDies, CodexForks, CodexAdds, CodexTakes
<1>10. job' \in JobRecord
  <2>1. \A S, T \in SUBSET Files : S \cup T \in SUBSET Files /\ S \ T \in SUBSET Files
    OBVIOUS
  <2>2. \A f \in Files : {f} \in SUBSET Files /\ {} \in SUBSET Files
    OBVIOUS
  <2>3. /\ IdleJob \in JobRecord
        /\ {"idle", "staging", "reconcile", "satellites", "undo", "unwind", "purge",
            "moving", "unlinking", "sections", "persist"} \subseteq Pcs
    BY Shapes DEF Pcs
  <2>4. ASSUME NEW s \in Stages, NEW mode \in {"quarantine", "permanent"},
               NEW chosen \in SUBSET Rollouts, StartCleanup(s, mode, chosen)
        PROVE  job' \in JobRecord
    <3>1. UNION {HomeOf(r) : r \in chosen} \in SUBSET Files
      BY DEF HomeOf
    <3> QED
      BY <2>3, <2>4, <3>1 DEF StartCleanup, JobRecord
  <2>5. ASSUME NEW f \in Files PROVE
          /\ StageFile(f) => job' \in JobRecord
          /\ RollbackFile(f) => job' \in JobRecord
          /\ RollbackBlocked(f) => job' \in JobRecord
          /\ PurgeFile(f) => job' \in JobRecord
          /\ PurgeBlocked(f) => job' \in JobRecord
          /\ LinkFile(f) => job' \in JobRecord
          /\ UnlinkFile(f) => job' \in JobRecord
    <3>1. job.todo \ {f} \in SUBSET Files /\ job.done \cup {f} \in SUBSET Files /\ job.left \cup {f} \in SUBSET Files
      BY <1>2
    <3>2. [job EXCEPT !.todo = job.todo \ {f}, !.done = job.done \cup {f}] \in JobRecord
      BY <1>1, <3>1, JobChange
    <3>3. [job EXCEPT !.todo = job.todo \ {f}] \in JobRecord
      BY <1>1, <3>1, JobChange
    <3>4. [job EXCEPT !.todo = job.todo \ {f}, !.left = job.left \cup {f}] \in JobRecord
      BY <1>1, <3>1, JobChange
    <3>5. [job EXCEPT !.pc = "unlinking", !.left = {f}] \in JobRecord
      BY <1>1, <2>2, <2>3, JobChange
    <3>6. [job EXCEPT !.pc = "moving", !.todo = job.todo \ {f}, !.left = {}] \in JobRecord
      BY <1>1, <2>2, <2>3, <3>1, JobChange
    <3>7. /\ StageFile(f) => job' \in JobRecord
          /\ RollbackFile(f) => job' \in JobRecord
          /\ RollbackBlocked(f) => job' \in JobRecord
      BY <3>2, <3>3, <3>4 DEF StageFile, RollbackFile, RollbackBlocked
    <3>8. /\ PurgeFile(f) => job' \in JobRecord
          /\ PurgeBlocked(f) => job' \in JobRecord
      BY <3>3, <3>4 DEF PurgeFile, PurgeBlocked
    <3>9. LinkFile(f) => job' \in JobRecord
      BY <3>5 DEF LinkFile
    <3>10. UnlinkFile(f) => job' \in JobRecord
      BY <3>6 DEF UnlinkFile
    <3> QED
      BY <3>7, <3>8, <3>9, <3>10
  <2>6. StageFails \/ ReconcileFails \/ UndoFails \/ ClearBackup => job' \in JobRecord
    BY <1>1, JobChange DEF StageFails, ReconcileFails, UndoFails, ClearBackup
  <2>7. FinalManifest \/ MovesDone \/ PersistMarker => job' \in JobRecord
    BY <1>1, <2>3, JobChange DEF FinalManifest, MovesDone, PersistMarker
  <2>8. LockAndBackup \/ CommitSatellite \/ SatellitesFail \/ UndoSatellite => job' \in JobRecord
    <3>1. 1 \in 1 .. LastSat /\ LastSat \in 1 .. LastSat
      BY <1>2, <1>5
    <3>2. job.next < LastSat => job.next + 1 \in 1 .. LastSat
      BY <1>2, <1>5
    <3>3. LockAndBackup \/ SatellitesFail => job' \in JobRecord
      <4>1. /\ [job EXCEPT !.pc = "satellites", !.next = LastSat] \in JobRecord
            /\ [job EXCEPT !.pc = "satellites", !.next = 1] \in JobRecord
            /\ [job EXCEPT !.pc = "undo", !.next = 1] \in JobRecord
            /\ Unwinding(FALSE) \in JobRecord
        BY <1>1, <2>3, <3>1, JobChange
      <4>2. LockAndBackup => \/ job' = [job EXCEPT !.pc = "satellites", !.next = LastSat]
                             \/ job' = [job EXCEPT !.pc = "satellites", !.next = 1]
        BY DEF LockAndBackup
      <4>3. SatellitesFail => job' = Unwinding(FALSE) \/ job' = [job EXCEPT !.pc = "undo", !.next = 1]
        BY DEF SatellitesFail
      <4> QED
        BY <4>1, <4>2, <4>3
    <3>4. CommitSatellite \/ UndoSatellite => job' \in JobRecord
      BY <1>1, <3>2, JobChange DEF CommitSatellite, UndoSatellite
    <3> QED
      BY <3>3, <3>4
  <2>9. CommitState => job' \in JobRecord
    <3>1. [job EXCEPT !.pc = "purge", !.todo = job.done] \in JobRecord
      BY <1>1, <1>2, <2>3, JobChange
    <3> QED
      BY <2>3, <3>1 DEF CommitState
  <2>10. ASSUME NEW s \in Stages, StartRestore(s) PROVE job' \in JobRecord
    <3>1. Surviving(s) \in SUBSET Files /\ {f \in Surviving(s) : stages[s].files[f] # 0} \in SUBSET Files
      BY <1>1 DEF Surviving, StageRecord
    <3>2. OwedBy(s) \in SUBSET Dbs
      BY <1>1, Shapes DEF OwedBy, Sections, StageRecord, MarkerRecord
    <3> QED
      BY <2>3, <2>10, <3>1, <3>2 DEF StartRestore, JobRecord
  <2>11. RestoreSection => job' \in JobRecord
    <3>1. job.owed \ {NextOwed} \in SUBSET Dbs
      BY <1>2
    <3>2. [job EXCEPT !.pc = "persist", !.owed = job.owed \ {NextOwed}] \in JobRecord
      BY <1>1, <2>3, <3>1, JobChange
    <3> QED
      BY <3>2 DEF RestoreSection
  <2> QED
    BY <1>1, <2>3, <2>4, <2>5, <2>6, <2>7, <2>8, <2>9, <2>10, <2>11
    DEF Next, CleanupStep, RestoreStep, WorldStep, vars, FinishUnwind, FinishPurge, UnlinkFails,
        MoveFails, RestoreAborts, FinalizeRestore, JobDies, CodexForks, CodexAdds, CodexTakes
<1>11. stages' \in [Stages -> StageRecord]
  <2>1. RemoveStage /\ job.pc # "idle" => stages' \in [Stages -> StageRecord]
    BY <1>1, <1>2, Shapes, DirChange DEF RemoveStage
  <2>2. ASSUME NEW f \in Files PROVE
          /\ StageFile(f) => stages' \in [Stages -> StageRecord]
          /\ RollbackFile(f) => stages' \in [Stages -> StageRecord]
          /\ PurgeFile(f) => stages' \in [Stages -> StageRecord]
          /\ UnlinkFile(f) => stages' \in [Stages -> StageRecord]
    <3>1. 0 \in Versions /\ archive[f] \in Versions
      BY <1>1, Shapes
    <3>2. StageFile(f) => stages' \in [Stages -> StageRecord]
      BY <1>1, <1>2, <3>1, FileChange DEF StageFile
    <3>3. ASSUME RollbackFile(f) PROVE stages' \in [Stages -> StageRecord]
      <4>1. job.stage \in Stages /\ stages' = [stages EXCEPT ![job.stage].files[f] = 0]
        BY <1>2, <3>3 DEF RollbackFile
      <4> QED
        BY <1>1, <3>1, <4>1, FileChange
    <3>4. PurgeFile(f) => stages' \in [Stages -> StageRecord]
      BY <1>1, <1>2, <3>1, FileChange DEF PurgeFile
    <3>5. UnlinkFile(f) => stages' \in [Stages -> StageRecord]
      BY <1>1, <1>2, <3>1, FileChange DEF UnlinkFile
    <3> QED
      BY <3>2, <3>3, <3>4, <3>5
  <2>3. ASSUME NEW s \in Stages, NEW mode \in {"quarantine", "permanent"},
               NEW chosen \in SUBSET Rollouts, StartCleanup(s, mode, chosen)
        PROVE  stages' \in [Stages -> StageRecord]
    <3> DEFINE places == UNION {HomeOf(r) : r \in chosen}
    <3>1. places \in SUBSET Files
      BY DEF HomeOf
    <3>2. [NoDir EXCEPT !.here = TRUE, !.entries = places] \in StageRecord
      BY <3>1, Shapes DEF StageRecord
    <3>3. stages' = [stages EXCEPT ![s] = [NoDir EXCEPT !.here = TRUE, !.entries = places]]
      BY <2>3 DEF StartCleanup
    <3> QED
      BY <1>1, <3>2, <3>3, DirChange
  <2>4. LockAndBackup => stages' \in [Stages -> StageRecord]
    <3>1. /\ ThreadsOf(job.done) \in SUBSET Rollouts
          /\ SnapshotOf(ThreadsOf(job.done)) \in [Dbs -> SUBSET Rollouts]
      BY <1>1, Shapes DEF ThreadsOf, SnapshotOf
    <3> QED
      BY <1>1, <1>2, <3>1, BackupChange DEF LockAndBackup
  <2>5. ClearBackup => stages' \in [Stages -> StageRecord]
    BY <1>1, <1>2, Shapes, BackupChange DEF ClearBackup
  <2>6. FinishUnwind => stages' \in [Stages -> StageRecord]
    BY <1>1, <2>1 DEF FinishUnwind
  <2>7. FinishPurge => stages' \in [Stages -> StageRecord]
    BY <1>1, <1>2, <2>1, EntriesChange DEF FinishPurge
  <2>8. FinalizeRestore => stages' \in [Stages -> StageRecord]
    BY <2>1 DEF FinalizeRestore
  <2>9. PersistMarker \/ RestoreAborts => stages' \in [Stages -> StageRecord]
    BY <1>1, <1>2, OwedChange DEF PersistMarker, RestoreAborts
  <2>10. ASSUME NEW s \in Stages, StartRestore(s) PROVE stages' \in [Stages -> StageRecord]
    <3>1. Surviving(s) \in SUBSET Files /\ OwedBy(s) \in SUBSET Dbs
      BY <1>1, Shapes DEF Surviving, OwedBy, Sections, StageRecord, MarkerRecord
    <3>2. [here |-> TRUE, accepted |-> Surviving(s), owed |-> OwedBy(s)] \in MarkerRecord
      BY <3>1 DEF MarkerRecord
    <3> QED
      BY <1>1, <2>10, <3>2, MarkerChange DEF StartRestore
  <2> QED
    BY <1>1, <2>2, <2>3, <2>4, <2>5, <2>6, <2>7, <2>8, <2>9, <2>10
    DEF Next, CleanupStep, RestoreStep, WorldStep, vars, StageFails, FinalManifest,
        RollbackBlocked, ReconcileFails, CommitSatellite, CommitState, SatellitesFail,
        UndoSatellite, UndoFails, PurgeBlocked, LinkFile, UnlinkFails, MoveFails, MovesDone,
        RestoreSection, JobDies, CodexForks, CodexAdds, CodexTakes
<1> QED
  BY <1>4, <1>6, <1>7, <1>8, <1>9, <1>10, <1>11 DEF TypeOK

-----------------------------------------------------------------------------
(* What a step leaves of the directories: all but the job's own are as they
   were, and of that one only some fields change. *)
Elsewhere(s) == \A t \in Stages \ {s} : stages'[t] = stages[t]

Refiled(f, v) ==
    LET s == job.stage IN
    /\ Elsewhere(s)
    /\ stages'[s].files = [stages[s].files EXCEPT ![f] = v]
    /\ stages'[s].here = stages[s].here /\ stages'[s].entries = stages[s].entries
    /\ stages'[s].threads = stages[s].threads /\ stages'[s].saved = stages[s].saved
    /\ stages'[s].marker = stages[s].marker

BackedUp(R, b) ==
    LET s == job.stage IN
    /\ Elsewhere(s)
    /\ stages'[s].threads = R /\ stages'[s].saved = b
    /\ stages'[s].here = stages[s].here /\ stages'[s].entries = stages[s].entries
    /\ stages'[s].files = stages[s].files
    /\ stages'[s].marker = stages[s].marker

Relisted ==
    LET s == job.stage IN
    /\ Elsewhere(s)
    /\ stages'[s].here = stages[s].here /\ stages'[s].files = stages[s].files
    /\ stages'[s].threads = stages[s].threads /\ stages'[s].saved = stages[s].saved
    /\ stages'[s].marker = stages[s].marker

Owing(O) ==
    LET s == job.stage IN
    /\ Elsewhere(s)
    /\ stages'[s].marker.here = stages[s].marker.here /\ stages'[s].marker.owed = O
    /\ stages'[s].marker.accepted = stages[s].marker.accepted
    /\ stages'[s].here = stages[s].here /\ stages'[s].entries = stages[s].entries
    /\ stages'[s].files = stages[s].files
    /\ stages'[s].threads = stages[s].threads /\ stages'[s].saved = stages[s].saved

Emptied == Elsewhere(job.stage) /\ stages'[job.stage] = NoDir

LEMMA StageEffects ==
    ASSUME TypeOK, job.stage \in Stages
    PROVE  /\ \A f \in Files : /\ StageFile(f) => Refiled(f, archive[f])
                               /\ RollbackFile(f) => Refiled(f, 0)
                               /\ PurgeFile(f) => Refiled(f, 0)
                               /\ UnlinkFile(f) => Refiled(f, 0)
           /\ LockAndBackup => BackedUp(ThreadsOf(job.done), SnapshotOf(ThreadsOf(job.done)))
           /\ ClearBackup => BackedUp({}, NoRows)
           /\ PersistMarker => Owing(job.owed)
           /\ RestoreAborts => Owing(job.owed) \/ UNCHANGED stages
           /\ FinishUnwind => IF job.keep \/ job.left # {} THEN UNCHANGED stages ELSE Emptied
           /\ FinishPurge => IF job.left = {} THEN Emptied ELSE Relisted
           /\ FinalizeRestore => Emptied
<1>1. /\ stages \in [Stages -> StageRecord] /\ rows \in [Dbs -> SUBSET Rollouts]
      /\ job.left \in SUBSET Files /\ job.owed \in SUBSET Dbs
      /\ archive \in [Files -> Versions]
  BY DEF TypeOK, JobRecord
<1>2. RemoveStage => Emptied
  BY <1>1, Shapes, DirChange DEF RemoveStage, Emptied, Elsewhere
<1>3. ASSUME NEW f \in Files, NEW v \in Versions,
             stages' = [stages EXCEPT ![job.stage].files[f] = v]
      PROVE  Refiled(f, v)
  BY <1>1, <1>3, FileChange DEF Refiled, Elsewhere
<1>4. ASSUME NEW f \in Files
      PROVE  /\ StageFile(f) => Refiled(f, archive[f])
             /\ RollbackFile(f) => Refiled(f, 0)
             /\ PurgeFile(f) => Refiled(f, 0)
             /\ UnlinkFile(f) => Refiled(f, 0)
  <2>1. archive[f] \in Versions /\ 0 \in Versions
    BY <1>1, Shapes
  <2>2. StageFile(f) => stages' = [stages EXCEPT ![job.stage].files[f] = archive[f]]
    BY DEF StageFile
  <2>3. RollbackFile(f) \/ PurgeFile(f) \/ UnlinkFile(f) => stages' = [stages EXCEPT ![job.stage].files[f] = 0]
    BY DEF RollbackFile, PurgeFile, UnlinkFile
  <2> QED
    BY <1>3, <2>1, <2>2, <2>3
<1>5. ASSUME NEW R \in SUBSET Rollouts, NEW b \in [Dbs -> SUBSET Rollouts],
              stages' = [stages EXCEPT ![job.stage].threads = R, ![job.stage].saved = b]
       PROVE  BackedUp(R, b)
  <2> DEFINE s == job.stage
  <2>1. s \in Stages /\ stages' = [stages EXCEPT ![s].threads = R, ![s].saved = b]
    BY <1>5
  <2> HIDE DEF s
  <2>2. /\ \A t \in Stages \ {s} : stages'[t] = stages[t]
        /\ stages'[s].threads = R /\ stages'[s].saved = b
        /\ stages'[s].here = stages[s].here /\ stages'[s].entries = stages[s].entries
        /\ stages'[s].files = stages[s].files /\ stages'[s].marker = stages[s].marker
    BY <1>1, <2>1 DEF StageRecord
  <2> QED
    BY <2>2 DEF BackedUp, Elsewhere, s
<1>6. LockAndBackup => BackedUp(ThreadsOf(job.done), SnapshotOf(ThreadsOf(job.done)))
  <2>1. /\ ThreadsOf(job.done) \in SUBSET Rollouts
        /\ SnapshotOf(ThreadsOf(job.done)) \in [Dbs -> SUBSET Rollouts]
    BY <1>1, Shapes DEF ThreadsOf, SnapshotOf
  <2>2. LockAndBackup =>
          stages' = [stages EXCEPT ![job.stage].threads = ThreadsOf(job.done),
                                   ![job.stage].saved = SnapshotOf(ThreadsOf(job.done))]
    BY DEF LockAndBackup
  <2> QED
    BY <1>5, <2>1, <2>2
<1>7. ClearBackup => BackedUp({}, NoRows)
  <2>1. ClearBackup => stages' = [stages EXCEPT ![job.stage].threads = {}, ![job.stage].saved = NoRows]
    BY DEF ClearBackup
  <2>2. {} \in SUBSET Rollouts /\ NoRows \in [Dbs -> SUBSET Rollouts]
    BY Shapes
  <2> QED
    BY <1>5, <2>1, <2>2
<1>8. ASSUME stages' = [stages EXCEPT ![job.stage].marker.owed = job.owed] PROVE Owing(job.owed)
  BY <1>1, <1>8, OwedChange DEF Owing, Elsewhere
<1>9. /\ PersistMarker => Owing(job.owed)
      /\ RestoreAborts => Owing(job.owed) \/ UNCHANGED stages
  BY <1>8 DEF PersistMarker, RestoreAborts
<1>10. FinishUnwind => IF job.keep \/ job.left # {} THEN UNCHANGED stages ELSE Emptied
  BY <1>2 DEF FinishUnwind
<1>11. FinishPurge => IF job.left = {} THEN Emptied ELSE Relisted
  <2>1. ASSUME stages' = [stages EXCEPT ![job.stage].entries = job.left] PROVE Relisted
    BY <1>1, <2>1, EntriesChange DEF Relisted, Elsewhere
  <2>2. UNCHANGED stages => Relisted
    BY DEF Relisted, Elsewhere
  <2> QED
    BY <1>2, <2>1, <2>2 DEF FinishPurge
<1>12. FinalizeRestore => Emptied
  BY <1>2 DEF FinalizeRestore
<1> QED
  BY <1>4, <1>6, <1>7, <1>9, <1>10, <1>11, <1>12

(* A cleanup begins in a directory of its own. *)
LEMMA StartEffect ==
    ASSUME TypeOK, NEW s \in Stages, NEW mode \in {"quarantine", "permanent"},
           NEW chosen \in SUBSET Rollouts, StartCleanup(s, mode, chosen)
    PROVE  /\ Elsewhere(s) /\ ~stages[s].here
           /\ stages'[s].here /\ stages'[s].files = NoFiles /\ stages'[s].threads = {}
           /\ stages'[s].saved = NoRows /\ stages'[s].marker = NoMarker
           /\ job.pc = "idle" /\ job'.pc = "staging" /\ job'.stage = s
           /\ job'.done = {} /\ job'.left = {}
<1> DEFINE places == UNION {HomeOf(r) : r \in chosen}
<1>1. stages' = [stages EXCEPT ![s] = [NoDir EXCEPT !.here = TRUE, !.entries = places]]
  BY DEF StartCleanup
<1>2. Elsewhere(s) /\ stages'[s] = [NoDir EXCEPT !.here = TRUE, !.entries = places]
  BY <1>1 DEF TypeOK, Elsewhere
<1>3. /\ stages'[s].here /\ stages'[s].files = NoFiles /\ stages'[s].threads = {}
      /\ stages'[s].saved = NoRows /\ stages'[s].marker = NoMarker
  BY <1>2 DEF NoDir
<1>4. /\ ~stages[s].here /\ job.pc = "idle" /\ job'.pc = "staging" /\ job'.stage = s
      /\ job'.done = {} /\ job'.left = {}
  BY DEF StartCleanup, IdleJob
<1> QED
  BY <1>2, <1>3, <1>4

(* A restore begins with its marker. *)
LEMMA RestoreEffect ==
    ASSUME TypeOK, NEW s \in Stages, StartRestore(s)
    PROVE  /\ Elsewhere(s)
           /\ stages'[s].marker.here /\ stages'[s].marker.owed = OwedBy(s)
           /\ stages'[s].marker.accepted = Surviving(s) /\ stages'[s].entries = stages[s].entries
           /\ stages[s].here /\ stages'[s].here /\ stages'[s].files = stages[s].files
           /\ stages'[s].threads = stages[s].threads /\ stages'[s].saved = stages[s].saved
           /\ job.pc = "idle" /\ job'.pc = "moving" /\ job'.stage = s
           /\ job'.todo = {f \in Surviving(s) : stages[s].files[f] # 0}
           /\ job'.owed = OwedBy(s) /\ job'.done = Surviving(s) /\ UNCHANGED <<archive, rows, taken>>
<1> DEFINE m == [here |-> TRUE, accepted |-> Surviving(s), owed |-> OwedBy(s)]
<1>1. stages \in [Stages -> StageRecord]
  BY DEF TypeOK
<1>2. Surviving(s) \in SUBSET Files /\ OwedBy(s) \in SUBSET Dbs
  BY <1>1, Shapes DEF Surviving, OwedBy, Sections, StageRecord, MarkerRecord
<1>3. m \in MarkerRecord /\ m.here /\ m.owed = OwedBy(s) /\ m.accepted = Surviving(s)
  BY <1>2 DEF MarkerRecord
<1>4. stages' = [stages EXCEPT ![s].marker = m]
  BY DEF StartRestore
<1>5. /\ Elsewhere(s) /\ stages'[s].marker = m
      /\ stages'[s].here = stages[s].here /\ stages'[s].entries = stages[s].entries
      /\ stages'[s].files = stages[s].files
      /\ stages'[s].threads = stages[s].threads /\ stages'[s].saved = stages[s].saved
  BY <1>1, <1>3, <1>4, MarkerChange DEF Elsewhere
<1>6. /\ stages[s].here /\ job.pc = "idle" /\ job'.pc = "moving" /\ job'.stage = s
      /\ job'.todo = {f \in Surviving(s) : stages[s].files[f] # 0}
      /\ job'.owed = OwedBy(s) /\ job'.done = Surviving(s) /\ UNCHANGED <<archive, rows, taken>>
  BY DEF StartRestore, Restorable, IdleJob, history
<1> QED
  BY <1>3, <1>5, <1>6

(* A job keeps its directory until it ends. *)
Starts ==
    \/ \E s \in Stages, mode \in {"quarantine", "permanent"}, chosen \in SUBSET Rollouts :
         StartCleanup(s, mode, chosen)
    \/ \E s \in Stages : StartRestore(s)

LEMMA JobGoesOn ==
    ASSUME TypeOK, [Next]_vars, ~Starts
    PROVE  \/ job'.pc = "idle"
           \/ job.pc # "idle" /\ job'.stage = job.stage
<1>1. job \in JobRecord
  BY DEF TypeOK
<1>2. ASSUME NEW f \in Files
      PROVE  /\ StageFile(f) \/ RollbackFile(f) \/ RollbackBlocked(f) \/ PurgeFile(f) \/ PurgeBlocked(f)
                  => job.pc # "idle" /\ job'.stage = job.stage
             /\ LinkFile(f) \/ UnlinkFile(f) => job.pc # "idle" /\ job'.stage = job.stage
             /\ UnlinkFails(f) => job'.pc = "idle"
  <2>1. StageFile(f) \/ RollbackFile(f) \/ RollbackBlocked(f) => job.pc # "idle" /\ job'.stage = job.stage
    BY <1>1 DEF JobRecord, StageFile, RollbackFile, RollbackBlocked
  <2>2. PurgeFile(f) \/ PurgeBlocked(f) => job.pc # "idle" /\ job'.stage = job.stage
    BY <1>1 DEF JobRecord, PurgeFile, PurgeBlocked
  <2>3. LinkFile(f) \/ UnlinkFile(f) => job.pc # "idle" /\ job'.stage = job.stage
    BY <1>1 DEF JobRecord, LinkFile, UnlinkFile
  <2>4. UnlinkFails(f) => job'.pc = "idle"
    BY DEF UnlinkFails, IdleJob
  <2> QED
    BY <2>1, <2>2, <2>3, <2>4
<1>3. StageFails \/ ReconcileFails \/ ClearBackup \/ UndoFails \/ FinalManifest
        => job.pc # "idle" /\ job'.stage = job.stage
  BY <1>1 DEF JobRecord, StageFails, ReconcileFails, ClearBackup, UndoFails, FinalManifest, Unwinding
<1>4. LockAndBackup \/ CommitSatellite \/ SatellitesFail \/ UndoSatellite
        => job.pc # "idle" /\ job'.stage = job.stage
  BY <1>1 DEF JobRecord, LockAndBackup, CommitSatellite, SatellitesFail, UndoSatellite, Unwinding
<1>5. MovesDone \/ RestoreSection \/ PersistMarker => job.pc # "idle" /\ job'.stage = job.stage
  BY <1>1 DEF JobRecord, MovesDone, RestoreSection, PersistMarker
<1>6. CommitState => job'.pc = "idle" \/ (job.pc # "idle" /\ job'.stage = job.stage)
  BY <1>1 DEF JobRecord, CommitState, IdleJob
<1>7. FinishUnwind \/ FinishPurge \/ MoveFails \/ RestoreAborts \/ FinalizeRestore \/ JobDies
        => job'.pc = "idle"
  BY DEF FinishUnwind, FinishPurge, MoveFails, RestoreAborts, FinalizeRestore, JobDies, IdleJob
<1> QED
  BY <1>2, <1>3, <1>4, <1>5, <1>6, <1>7
  DEF Next, CleanupStep, RestoreStep, WorldStep, vars, Starts, CodexForks, CodexAdds, CodexTakes

(* Steps that leave all directories alone. *)
LEMMA DirsUntouched ==
    ASSUME TypeOK, [Next]_vars
    PROVE  \/ UNCHANGED stages
           \/ Starts
           \/ \E f \in Files : StageFile(f) \/ RollbackFile(f) \/ PurgeFile(f) \/ UnlinkFile(f)
           \/ LockAndBackup \/ ClearBackup \/ PersistMarker \/ RestoreAborts
           \/ FinishUnwind \/ FinishPurge \/ FinalizeRestore
  BY DEF disk, Next, CleanupStep, RestoreStep, WorldStep, vars, Starts, StageFails, FinalManifest,
     RollbackBlocked, ReconcileFails, CommitSatellite, CommitState, SatellitesFail,
     UndoSatellite, UndoFails, PurgeBlocked, LinkFile, UnlinkFails, MoveFails, MovesDone,
     RestoreSection, JobDies, CodexForks, CodexAdds, CodexTakes

-----------------------------------------------------------------------------
(* Directories. *)
LEMMA DirsStep == TypeOK /\ DirsInv /\ [Next]_vars => DirsInv'
<1> SUFFICES ASSUME TypeOK, DirsInv, [Next]_vars PROVE DirsInv'
  OBVIOUS
<1> DEFINE DirOK(x) == (~x.here => x = NoDir) /\ \A d \in Dbs : x.saved[d] \subseteq x.threads
           Mine == job'.pc # "idle" => job'.stage \in Stages /\ stages'[job'.stage].here
<1>1. (\A s \in Stages : DirOK(stages'[s])) /\ Mine => DirsInv'
  BY DEF DirsInv, Here
<1>2. \A s \in Stages : DirOK(stages[s])
  BY DEF DirsInv
<1>3. job.pc # "idle" => job.stage \in Stages /\ stages[job.stage].here
  BY DEF DirsInv, Here
<1>4. DirOK(NoDir)
  BY DEF NoDir, NoRows
<1>5. CASE Starts
  <2>1. ASSUME NEW s \in Stages, NEW mode \in {"quarantine", "permanent"},
               NEW chosen \in SUBSET Rollouts, StartCleanup(s, mode, chosen)
        PROVE  (\A t \in Stages : DirOK(stages'[t])) /\ Mine
    <3>1. DirOK(stages'[s]) /\ Elsewhere(s) /\ Mine
      BY <2>1, StartEffect DEF NoRows
    <3> QED
      BY <1>2, <3>1 DEF Elsewhere
  <2>2. ASSUME NEW s \in Stages, StartRestore(s)
        PROVE  (\A t \in Stages : DirOK(stages'[t])) /\ Mine
    <3>1. DirOK(stages'[s]) /\ Elsewhere(s) /\ Mine
      BY <1>2, <2>2, RestoreEffect
    <3> QED
      BY <1>2, <3>1 DEF Elsewhere
  <2> QED
    BY <1>1, <1>5, <2>1, <2>2 DEF Starts
<1>6. CASE ~Starts /\ UNCHANGED stages
  BY <1>1, <1>2, <1>3, <1>6, JobGoesOn
<1>7. CASE ~Starts /\ job.pc # "idle" /\ ~UNCHANGED stages
  <2>1. job.stage \in Stages /\ stages[job.stage].here /\ DirOK(stages[job.stage])
    BY <1>2, <1>3, <1>7
  <2>2. /\ job'.pc = "idle" \/ job'.stage = job.stage
        /\ FinishUnwind \/ FinishPurge \/ FinalizeRestore => job'.pc = "idle"
    BY <1>7, JobGoesOn DEF FinishUnwind, FinishPurge, FinalizeRestore, IdleJob
  <2> DEFINE Result == DirOK(stages'[job.stage]) /\ Elsewhere(job.stage) /\ Mine
  <2>3. (\E f \in Files : StageFile(f) \/ RollbackFile(f) \/ PurgeFile(f) \/ UnlinkFile(f)) => Result
    <3>1. (\E f \in Files, v \in Nat : Refiled(f, v)) => Result
      BY <2>1, <2>2 DEF Refiled
    <3>2. \A f \in Files : archive[f] \in Nat /\ 0 \in Nat
      BY Shapes DEF TypeOK
    <3> QED
      BY <2>1, <3>1, <3>2, StageEffects
  <2>4. LockAndBackup => Result
    <3>1. \A d \in Dbs : SnapshotOf(ThreadsOf(job.done))[d] \subseteq ThreadsOf(job.done)
      BY DEF SnapshotOf
    <3> QED
      BY <2>1, <2>2, <3>1, StageEffects DEF BackedUp
  <2>5. ClearBackup => Result
    BY <2>1, <2>2, StageEffects DEF BackedUp, NoRows
  <2>6. PersistMarker \/ RestoreAborts => Result
    BY <1>7, <2>1, <2>2, StageEffects DEF Owing
  <2>7. FinishUnwind \/ FinishPurge \/ FinalizeRestore => Result
    <3>1. Emptied /\ job'.pc = "idle" => Result
      BY <1>4 DEF Emptied
    <3>2. Relisted /\ job'.pc = "idle" => Result
      BY <2>1 DEF Relisted
    <3> QED
      BY <1>7, <2>1, <2>2, <3>1, <3>2, StageEffects
  <2>8. Result
    BY <1>7, <2>3, <2>4, <2>5, <2>6, <2>7, DirsUntouched
  <2> QED
    BY <1>1, <1>2, <2>8 DEF Elsewhere
<1>8. CASE ~Starts /\ job.pc = "idle" /\ ~UNCHANGED stages
  BY <1>8, DirsUntouched DEF StageFile, RollbackFile, PurgeFile, UnlinkFile, LockAndBackup,
     ClearBackup, PersistMarker, RestoreAborts, FinishUnwind, FinishPurge, FinalizeRestore
<1> QED
  BY <1>5, <1>6, <1>7, <1>8

-----------------------------------------------------------------------------
(* What each kind of step makes of the job. *)
Fails == StageFails \/ ReconcileFails \/ SatellitesFail \/ ClearBackup \/ UndoFails
Proceeds == FinalManifest \/ LockAndBackup \/ CommitSatellite \/ UndoSatellite
Restores == MovesDone \/ RestoreSection \/ PersistMarker
Outside == (\E r \in Rollouts : CodexForks(r)) \/ (\E f \in Files : CodexAdds(f) \/ CodexTakes(f))
Undoes == \E f \in Files : RollbackFile(f) \/ PurgeFile(f)
Leaves == \E f \in Files : RollbackBlocked(f) \/ PurgeBlocked(f)

LEMMA Kinds ==
    ASSUME [Next]_vars
    PROVE  \/ Starts \/ Fails \/ Proceeds \/ Restores \/ Outside \/ Undoes \/ Leaves
           \/ CommitState
           \/ \E f \in Files : StageFile(f) \/ LinkFile(f) \/ UnlinkFile(f)
           \/ job'.pc = "idle"
           \/ UNCHANGED vars
  BY DEF Next, CleanupStep, RestoreStep, WorldStep, Starts, Fails, Proceeds, Restores, Outside,
     Undoes, Leaves, FinishUnwind, FinishPurge, UnlinkFails, MoveFails, RestoreAborts,
     FinalizeRestore, JobDies, IdleJob

(* A failing cleanup looks after what it had staged; a failing commit of
   satellites that were to lose rows begins to put them back.              *)
LEMMA FailEffect ==
    ASSUME TypeOK, Fails
    PROVE  /\ job.pc \in {"staging", "reconcile", "satellites", "undo"}
           /\ job'.stage = job.stage /\ job'.done = job.done
           /\ \/ /\ job'.pc = "unwind" /\ job'.todo = job.done /\ job'.left = {}
                 /\ \/ job'.keep
                    \/ StageFails \/ ReconcileFails \/ ClearBackup
                    \/ SatellitesFail /\ Here.threads = {}
              \/ /\ SatellitesFail /\ job.pc = "satellites"
                 /\ job'.pc = "undo" /\ job'.next = 1 /\ job'.todo = job.todo
           /\ UNCHANGED <<archive, rows>>
           /\ ClearBackup \/ UNCHANGED stages
<1>1. job \in JobRecord
  BY DEF TypeOK
<1>2. StageFails \/ ReconcileFails \/ ClearBackup =>
        /\ job.pc \in {"staging", "reconcile", "undo"}
        /\ job'.stage = job.stage /\ job'.done = job.done
        /\ job'.pc = "unwind" /\ job'.todo = job.done /\ job'.left = {}
        /\ UNCHANGED <<archive, rows>>
        /\ ClearBackup \/ UNCHANGED stages
  BY <1>1 DEF StageFails, ReconcileFails, ClearBackup, Unwinding, JobRecord, disk
<1>3. UndoFails =>
        /\ job.pc = "undo" /\ job'.stage = job.stage /\ job'.done = job.done
        /\ job'.pc = "unwind" /\ job'.todo = job.done /\ job'.left = {} /\ job'.keep
        /\ UNCHANGED <<archive, rows, stages>>
  BY <1>1 DEF UndoFails, Unwinding, JobRecord, disk
<1>4. SatellitesFail =>
        /\ job.pc = "satellites" /\ job'.stage = job.stage /\ job'.done = job.done
        /\ \/ /\ Here.threads = {}
              /\ job'.pc = "unwind" /\ job'.todo = job.done /\ job'.left = {}
           \/ job'.pc = "undo" /\ job'.next = 1 /\ job'.todo = job.todo
        /\ UNCHANGED <<archive, rows, stages>>
  BY <1>1 DEF SatellitesFail, Unwinding, JobRecord, disk
<1> QED
  BY <1>2, <1>3, <1>4 DEF Fails

LEMMA ProceedEffect ==
    ASSUME TypeOK, Proceeds
    PROVE  /\ job.pc \in {"staging", "reconcile", "satellites", "undo"}
           /\ job'.stage = job.stage /\ job'.done = job.done
           /\ job'.pc \in {"reconcile", "satellites", "undo"}
           /\ FinalManifest => job'.pc = "reconcile" /\ UNCHANGED <<stages, rows>>
           /\ LockAndBackup => job'.pc = "satellites" /\ UNCHANGED rows
           /\ CommitSatellite => job'.pc = "satellites" /\ UNCHANGED stages
           /\ UndoSatellite => job'.pc = "undo" /\ UNCHANGED stages /\ job'.next = job.next + 1
           /\ LockAndBackup \/ UNCHANGED stages
           /\ UNCHANGED archive
<1>1. job \in JobRecord
  BY DEF TypeOK
<1>2. FinalManifest => /\ job.pc = "staging" /\ job'.stage = job.stage /\ job'.done = job.done
                       /\ job'.pc = "reconcile" /\ UNCHANGED <<stages, rows, archive>>
  BY <1>1 DEF FinalManifest, JobRecord, disk
<1>3. LockAndBackup => /\ job.pc = "reconcile" /\ job'.stage = job.stage /\ job'.done = job.done
                       /\ job'.pc = "satellites" /\ UNCHANGED <<rows, archive>>
  BY <1>1 DEF LockAndBackup, JobRecord
<1>4. CommitSatellite => /\ job.pc = "satellites" /\ job'.stage = job.stage /\ job'.done = job.done
                         /\ job'.pc = "satellites" /\ UNCHANGED <<stages, archive>>
  BY <1>1 DEF CommitSatellite, JobRecord
<1>5. UndoSatellite => /\ job.pc = "undo" /\ job'.stage = job.stage /\ job'.done = job.done
                       /\ job'.pc = "undo" /\ job'.next = job.next + 1
                       /\ UNCHANGED <<stages, archive>>
  BY <1>1 DEF UndoSatellite, JobRecord
<1>6. /\ FinalManifest => ~LockAndBackup /\ ~CommitSatellite /\ ~UndoSatellite
      /\ LockAndBackup => ~CommitSatellite /\ ~UndoSatellite
      /\ CommitSatellite => ~UndoSatellite
  BY <1>2, <1>3, <1>4, <1>5
<1> QED
  BY <1>2, <1>3, <1>4, <1>5, <1>6 DEF Proceeds

LEMMA UndoEffect ==
    ASSUME TypeOK, Undoes \/ Leaves, job.stage \in Stages
    PROVE  /\ job.pc \in {"unwind", "purge"} /\ job'.pc = job.pc
           /\ job'.stage = job.stage /\ job'.done = job.done /\ job'.keep = job.keep
           /\ UNCHANGED <<rows, dropped>>
           /\ \E f \in Files :
                /\ f \in job.todo /\ job'.todo = job.todo \ {f}
                /\ \/ Refiled(f, 0) /\ job'.left = job.left
                   \/ UNCHANGED stages /\ job'.left = job.left \cup {f}
<1>1. job \in JobRecord
  BY DEF TypeOK
<1>2. ASSUME NEW f \in Files, RollbackFile(f) \/ PurgeFile(f)
      PROVE  /\ job.pc \in {"unwind", "purge"} /\ job'.pc = job.pc
             /\ job'.stage = job.stage /\ job'.done = job.done /\ job'.keep = job.keep
             /\ UNCHANGED <<rows, dropped>>
             /\ f \in job.todo /\ job'.todo = job.todo \ {f} /\ job'.left = job.left
             /\ Refiled(f, 0)
  <2>1. Refiled(f, 0)
    BY <1>2, StageEffects
  <2>2. CASE RollbackFile(f)
    BY <1>1, <2>1, <2>2 DEF RollbackFile, JobRecord, IsYoungest, history
  <2>3. CASE PurgeFile(f)
    BY <1>1, <2>1, <2>3 DEF PurgeFile, JobRecord, IsOldest
  <2> QED
    BY <1>2, <2>2, <2>3
<1>3. ASSUME NEW f \in Files, RollbackBlocked(f) \/ PurgeBlocked(f)
      PROVE  /\ job.pc \in {"unwind", "purge"} /\ job'.pc = job.pc
             /\ job'.stage = job.stage /\ job'.done = job.done /\ job'.keep = job.keep
             /\ UNCHANGED <<rows, dropped, stages>>
             /\ f \in job.todo /\ job'.todo = job.todo \ {f} /\ job'.left = job.left \cup {f}
  <2>1. CASE RollbackBlocked(f)
    BY <1>1, <2>1 DEF RollbackBlocked, JobRecord, IsYoungest, history, disk
  <2>2. CASE PurgeBlocked(f)
    BY <1>1, <2>2 DEF PurgeBlocked, JobRecord, IsOldest, history, disk
  <2> QED
    BY <1>3, <2>1, <2>2
<1> QED
  BY <1>2, <1>3 DEF Undoes, Leaves

-----------------------------------------------------------------------------
(* Files. *)
LEMMA FilesStep == TypeOK /\ DirsInv /\ FilesInv /\ [Next]_vars => FilesInv'
<1> SUFFICES ASSUME TypeOK, DirsInv, FilesInv, [Next]_vars PROVE FilesInv'
  OBVIOUS
<1>1. /\ job \in JobRecord /\ stages \in [Stages -> StageRecord] /\ archive \in [Files -> Versions]
      /\ \A f \in Files : NoFiles[f] = 0
  BY DEF TypeOK, NoFiles
<1>2. job.pc # "idle" => job.stage \in Stages /\ Here.files \in [Files -> Versions]
  BY <1>1 DEF DirsInv, Here, StageRecord
<1>3. CASE job'.pc = "idle"
  BY <1>3 DEF FilesInv
<1>4. CASE Starts
  <2>1. ASSUME NEW s \in Stages, NEW mode \in {"quarantine", "permanent"},
               NEW chosen \in SUBSET Rollouts, StartCleanup(s, mode, chosen)
        PROVE  FilesInv'
    <3>1. job'.pc = "staging" /\ job'.stage = s /\ stages'[s].files = NoFiles
      BY <2>1, StartEffect
    <3>2. job'.todo \in SUBSET Files
      BY <2>1 DEF StartCleanup, IdleJob, HomeOf
    <3> QED
      BY <1>1, <3>1, <3>2 DEF FilesInv, Here
  <2>2. ASSUME NEW s \in Stages, StartRestore(s) PROVE FilesInv'
    BY <2>2, RestoreEffect DEF FilesInv, Here
  <2> QED
    BY <1>4, <2>1, <2>2 DEF Starts
<1>5. CASE Fails
  <2>1. Here'.files = Here.files
    <3>1. CASE UNCHANGED stages
      BY <1>5, <3>1, FailEffect DEF Here
    <3>2. CASE ClearBackup
      BY <1>2, <1>5, <3>2, FailEffect, StageEffects DEF Here, BackedUp
    <3> QED
      BY <1>5, <3>1, <3>2, FailEffect
  <2> QED
    BY <1>5, <2>1, FailEffect DEF FilesInv
<1>6. CASE Proceeds
  <2>1. Here'.files = Here.files
    <3>1. CASE UNCHANGED stages
      BY <1>6, <3>1, ProceedEffect DEF Here
    <3>2. CASE LockAndBackup
      BY <1>2, <1>6, <3>2, ProceedEffect, StageEffects DEF Here, BackedUp
    <3> QED
      BY <1>6, <3>1, <3>2, ProceedEffect
  <2> QED
    BY <1>6, <2>1, ProceedEffect DEF FilesInv
<1>7. CASE CommitState
  <2>1. CASE job'.pc # "idle"
    <3>1. /\ job.pc = "satellites" /\ job'.pc = "purge" /\ job'.stage = job.stage
          /\ job'.todo = job.done /\ UNCHANGED stages
      BY <1>1, <1>7, <2>1 DEF CommitState, JobRecord, IdleJob
    <3> QED
      BY <3>1 DEF FilesInv, Here
  <2> QED
    BY <1>3, <2>1
<1>8. CASE Restores
  <2>1. job'.pc \in {"sections", "persist"}
    BY <1>1, <1>8 DEF Restores, MovesDone, RestoreSection, PersistMarker, JobRecord
  <2> QED
    BY <2>1 DEF FilesInv
<1>9. CASE Undoes \/ Leaves
  <2>1. job.stage \in Stages
    BY <1>2, <1>9 DEF Undoes, Leaves, RollbackFile, PurgeFile, RollbackBlocked, PurgeBlocked
  <2>2. PICK f \in Files :
          /\ job.pc \in {"unwind", "purge"} /\ job'.pc = job.pc /\ job'.stage = job.stage
          /\ job'.todo = job.todo \ {f}
          /\ \/ Refiled(f, 0) /\ job'.left = job.left
             \/ UNCHANGED stages /\ job'.left = job.left \cup {f}
    BY <1>9, <2>1, UndoEffect
  <2>3. CASE Refiled(f, 0) /\ job'.left = job.left
    <3>1. Here'.files = [Here.files EXCEPT ![f] = 0]
      BY <2>2, <2>3 DEF Refiled, Here
    <3> QED
      BY <1>2, <2>2, <2>3, <3>1 DEF FilesInv
  <2>4. CASE UNCHANGED stages /\ job'.left = job.left \cup {f}
    BY <2>2, <2>4 DEF FilesInv, Here
  <2> QED
    BY <2>2, <2>3, <2>4
<1>10. ASSUME NEW f \in Files, StageFile(f) PROVE FilesInv'
  <2>1. /\ job.pc = "staging" /\ job'.pc = "staging" /\ job'.stage = job.stage
        /\ job'.todo = job.todo \ {f} /\ job'.done = job.done \cup {f}
    BY <1>1, <1>10 DEF StageFile, JobRecord
  <2>2. Here'.files = [Here.files EXCEPT ![f] = archive[f]]
    BY <1>2, <1>10, <2>1, StageEffects DEF Refiled, Here
  <2>3. job.todo \in SUBSET Files
    BY <1>1 DEF JobRecord
  <2> QED
    BY <1>2, <2>1, <2>2, <2>3 DEF FilesInv
<1>11. ASSUME NEW f \in Files, LinkFile(f) PROVE FilesInv'
  <2>1. /\ job.pc = "moving" /\ job'.pc = "unlinking" /\ job'.stage = job.stage
        /\ job'.todo = job.todo /\ job'.left = {f} /\ f \in job.todo /\ UNCHANGED stages
        /\ archive' = [archive EXCEPT ![f] = Here.files[f]]
    BY <1>1, <1>11 DEF LinkFile, JobRecord, IsOldest
  <2> QED
    BY <1>1, <2>1 DEF FilesInv, Here
<1>12. ASSUME NEW f \in Files, UnlinkFile(f) PROVE FilesInv'
  <2>1. /\ job.pc = "unlinking" /\ job'.pc = "moving" /\ job'.stage = job.stage
        /\ job'.todo = job.todo \ {f}
    BY <1>1, <1>12 DEF UnlinkFile, JobRecord
  <2>2. Here'.files = [Here.files EXCEPT ![f] = 0]
    BY <1>2, <1>12, <2>1, StageEffects DEF Refiled, Here
  <2>3. job.todo \in SUBSET Files
    BY <1>1 DEF JobRecord
  <2> QED
    BY <1>2, <2>1, <2>2, <2>3 DEF FilesInv
<1>13. CASE Outside \/ UNCHANGED vars
  <2>1. UNCHANGED <<job, stages>>
    BY <1>13 DEF Outside, CodexForks, CodexAdds, CodexTakes, vars, disk
  <2>2. job.pc = "unlinking" => \A f \in job.left : archive'[f] = archive[f]
    <3>1. SUFFICES ASSUME job.pc = "unlinking", NEW f \in job.left PROVE archive'[f] = archive[f]
      OBVIOUS
    <3>2. f \in Files /\ archive[f] # 0
      BY <1>1, <3>1 DEF FilesInv, JobRecord
    <3>3. ASSUME NEW g \in Files, CodexAdds(g) PROVE archive'[f] = archive[f]
      BY <1>1, <3>2, <3>3 DEF CodexAdds
    <3>4. ASSUME NEW g \in Files, CodexTakes(g) PROVE archive'[f] = archive[f]
      BY <1>1, <3>1, <3>2, <3>4 DEF CodexTakes
    <3>5. (\E r \in Rollouts : CodexForks(r)) \/ UNCHANGED vars => UNCHANGED archive
      BY DEF CodexForks, vars, disk
    <3> QED
      BY <1>13, <3>3, <3>4, <3>5 DEF Outside
  <2> QED
    BY <2>1, <2>2 DEF FilesInv, Here
<1> QED
  BY <1>3, <1>4, <1>5, <1>6, <1>7, <1>8, <1>9, <1>10, <1>11, <1>12, <1>13, Kinds

-----------------------------------------------------------------------------
(* Rows and the backup. *)
LEMMA RowsStep == TypeOK /\ DirsInv /\ RowsInv /\ [Next]_vars => RowsInv'
<1> SUFFICES ASSUME TypeOK, DirsInv, RowsInv, [Next]_vars PROVE RowsInv'
  OBVIOUS
<1>1. /\ job \in JobRecord /\ stages \in [Stages -> StageRecord]
      /\ rows \in [Dbs -> SUBSET Rollouts]
  BY DEF TypeOK
<1>2. job.pc # "idle" => job.stage \in Stages /\ Here \in StageRecord
  BY <1>1 DEF DirsInv, Here
<1>3. CASE job'.pc = "idle"
  BY <1>3 DEF RowsInv, CleanupPcs
<1>4. CASE Starts
  <2>1. ASSUME NEW s \in Stages, NEW mode \in {"quarantine", "permanent"},
               NEW chosen \in SUBSET Rollouts, StartCleanup(s, mode, chosen)
        PROVE  RowsInv'
    BY <2>1, StartEffect DEF RowsInv, Here, NoMarker
  <2>2. ASSUME NEW s \in Stages, StartRestore(s) PROVE RowsInv'
    BY <2>2, RestoreEffect DEF RowsInv, Here, CleanupPcs
  <2> QED
    BY <1>4, <2>1, <2>2 DEF Starts
<1>5. CASE Fails
  <2>1. job.pc \in CleanupPcs /\ ~Here.marker.here
    BY <1>5, FailEffect DEF RowsInv, CleanupPcs
  <2>2. CASE ClearBackup
    <3>1. job'.pc = "unwind" /\ job'.stage = job.stage
      BY <1>1, <2>2 DEF ClearBackup, Unwinding, JobRecord
    <3>2. Here'.saved = NoRows /\ ~Here'.marker.here
      BY <1>2, <2>1, <2>2, <3>1, StageEffects DEF Here, BackedUp, ClearBackup
    <3> QED
      BY <3>1, <3>2 DEF RowsInv
  <2>3. CASE ~ClearBackup
    <3>1. Here' = Here /\ UNCHANGED rows
      BY <1>5, <2>3, FailEffect DEF Here
    <3>2. CASE job'.pc = "unwind"
      <4>1. job'.keep \/ Here.saved = NoRows
        <5>1. CASE StageFails \/ ReconcileFails
          BY <5>1 DEF RowsInv, StageFails, ReconcileFails
        <5>2. CASE SatellitesFail /\ Here.threads = {}
          <6>1. \A d \in Dbs : Here.saved[d] = {}
            BY <1>2, <5>2 DEF DirsInv, Here, SatellitesFail
          <6>2. Here.saved \in [Dbs -> SUBSET Rollouts]
            BY <1>2, <5>2 DEF StageRecord, SatellitesFail
          <6> QED
            BY <6>1, <6>2 DEF NoRows
        <5> QED
          BY <1>5, <2>3, <3>2, <5>1, <5>2, FailEffect
      <4> QED
        BY <2>1, <3>1, <3>2, <4>1 DEF RowsInv
    <3>3. CASE job'.pc = "undo"
      <4>1. job.pc = "satellites" /\ job'.next = 1
        BY <1>5, <3>3, FailEffect
      <4> QED
        BY <2>1, <3>1, <3>3, <4>1 DEF RowsInv
    <3> QED
      BY <1>5, <3>2, <3>3, FailEffect
  <2> QED
    BY <2>2, <2>3
<1>6. CASE FinalManifest
  <2>1. job.pc = "staging" /\ job'.pc = "reconcile" /\ Here' = Here
    BY <1>1, <1>6 DEF FinalManifest, JobRecord, Here, disk
  <2> QED
    BY <2>1 DEF RowsInv, CleanupPcs
<1>7. CASE LockAndBackup
  <2>1. /\ job.pc = "reconcile" /\ job'.pc = "satellites" /\ job'.stage = job.stage
        /\ job'.done = job.done /\ UNCHANGED rows
    BY <1>7, ProceedEffect DEF Proceeds, LockAndBackup
  <2>2. /\ Here'.marker = Here.marker /\ Here'.threads = ThreadsOf(job.done)
        /\ Here'.saved = SnapshotOf(ThreadsOf(job.done))
    BY <1>2, <1>7, <2>1, StageEffects DEF Here, BackedUp
  <2>3. ~Here.marker.here
    BY <2>1 DEF RowsInv, CleanupPcs
  <2>4. Here'.saved["state"] = Here'.threads /\ Here'.threads \subseteq rows["state"]
    BY <2>2, Shapes DEF SnapshotOf, ThreadsOf
  <2>5. \A f \in job.done : RolloutOf[f] \in rows["state"] => RolloutOf[f] \in Here'.threads
    BY <2>2 DEF ThreadsOf
  <2> QED
    BY <2>1, <2>2, <2>3, <2>4, <2>5 DEF RowsInv
<1>8. CASE CommitSatellite
  <2>1. /\ job.pc = "satellites" /\ job'.pc = "satellites" /\ job'.stage = job.stage
        /\ job'.done = job.done /\ UNCHANGED stages
    BY <1>8, ProceedEffect DEF Proceeds, CommitSatellite
  <2>2. SatOrder[job.next] \in Sats
    BY <1>1, <1>8, Shapes DEF CommitSatellite, JobRecord
  <2>3. rows'["state"] = rows["state"]
    BY <1>1, <1>8, <2>2, Shapes DEF CommitSatellite, DeleteSaved
  <2> QED
    BY <2>1, <2>3 DEF RowsInv, Here, CleanupPcs
<1>9. CASE UndoSatellite
  <2>1. /\ job.pc = "undo" /\ job'.pc = "undo" /\ job'.stage = job.stage
        /\ job'.next = job.next + 1 /\ UNCHANGED stages
    BY <1>9, ProceedEffect DEF Proceeds, UndoSatellite
  <2>2. /\ SatOrder[job.next] \in Dbs /\ job.next \in Nat /\ "state" \in Dbs
        /\ \A i \in 1 .. job.next : SatOrder[i] \in Dbs
    BY <1>1, <1>9, Shapes DEF UndoSatellite, JobRecord
  <2>3. /\ \A d \in Dbs : rows[d] \subseteq rows'[d]
        /\ Here.saved[SatOrder[job.next]] \subseteq rows'[SatOrder[job.next]]
    BY <1>1, <1>9, <2>2 DEF UndoSatellite, InsertSaved
  <2>4. ~Here.marker.here /\ Here.saved["state"] \subseteq rows'["state"]
    BY <2>1, <2>2, <2>3 DEF RowsInv, CleanupPcs
  <2>5. \A i \in 1 .. job'.next - 1 : Here.saved[SatOrder[i]] \subseteq rows'[SatOrder[i]]
    <3>1. SUFFICES ASSUME NEW i \in 1 .. job'.next - 1
                   PROVE  Here.saved[SatOrder[i]] \subseteq rows'[SatOrder[i]]
      OBVIOUS
    <3>2. i = job.next \/ i \in 1 .. job.next - 1
      BY <2>1, <2>2, <3>1
    <3>3. SatOrder[i] \in Dbs
      BY <2>1, <2>2, <3>1
    <3> QED
      BY <2>1, <2>3, <3>2, <3>3 DEF RowsInv
  <2> QED
    BY <2>1, <2>4, <2>5 DEF RowsInv, Here, CleanupPcs
<1>10. CASE CommitState
  <2>1. CASE job'.pc # "idle"
    <3>1. /\ job.pc = "satellites" /\ job'.pc = "purge" /\ job'.stage = job.stage
          /\ job'.todo = job.done /\ job'.done = job.done /\ UNCHANGED stages
      BY <1>1, <1>10, <2>1 DEF CommitState, JobRecord, IdleJob
    <3>2. rows'["state"] = rows["state"] \ Here.threads
      BY <1>1, <1>10, Shapes DEF CommitState
    <3> QED
      BY <3>1, <3>2 DEF RowsInv, Here, CleanupPcs
  <2> QED
    BY <1>3, <2>1
<1>11. CASE Undoes \/ Leaves
  <2>1. job.stage \in Stages
    BY <1>2, <1>11 DEF Undoes, Leaves, RollbackFile, PurgeFile, RollbackBlocked, PurgeBlocked
  <2>2. PICK f \in Files :
          /\ job.pc \in {"unwind", "purge"} /\ job'.pc = job.pc /\ job'.stage = job.stage
          /\ job'.done = job.done /\ job'.keep = job.keep /\ UNCHANGED rows
          /\ job'.todo = job.todo \ {f}
          /\ Refiled(f, 0) \/ UNCHANGED stages
    BY <1>11, <2>1, UndoEffect
  <2>3. Here'.saved = Here.saved /\ Here'.marker = Here.marker
    BY <2>2 DEF Refiled, Here
  <2> QED
    BY <2>2, <2>3 DEF RowsInv, CleanupPcs
<1>12. CASE MovesDone
  <2>1. job.pc = "moving" /\ job'.pc = "sections" /\ job'.owed = job.owed /\ Here' = Here
    BY <1>1, <1>12 DEF MovesDone, JobRecord, disk, Here
  <2> QED
    BY <2>1 DEF RowsInv, CleanupPcs
<1>13. CASE RestoreSection
  <2>1. /\ job.pc = "sections" /\ job'.pc = "persist" /\ job'.owed = job.owed \ {NextOwed}
        /\ Here' = Here /\ NextOwed \in Dbs
    BY <1>1, <1>13, NextOwedIsOwed DEF RestoreSection, JobRecord, Here
  <2>2. Here.saved[NextOwed] \subseteq rows'[NextOwed]
    BY <1>1, <1>13, <2>1 DEF RestoreSection, InsertSaved
  <2> QED
    BY <2>1, <2>2 DEF RowsInv, CleanupPcs
<1>14. CASE PersistMarker
  <2>1. job.pc = "persist" /\ job'.pc = "sections" /\ job'.owed = job.owed /\ job'.stage = job.stage
    BY <1>1, <1>14 DEF PersistMarker, JobRecord
  <2>2. Here'.marker.here = Here.marker.here /\ Here'.marker.owed = job.owed
    BY <1>2, <1>14, <2>1, StageEffects DEF Here, Owing
  <2> QED
    BY <2>1, <2>2 DEF RowsInv, CleanupPcs
<1>15. ASSUME NEW f \in Files, StageFile(f) PROVE RowsInv'
  <2>1. job.pc = "staging" /\ job'.pc = "staging" /\ job'.stage = job.stage
    BY <1>1, <1>15 DEF StageFile, JobRecord
  <2>2. Here'.saved = Here.saved /\ Here'.marker = Here.marker
    BY <1>2, <1>15, <2>1, StageEffects DEF Refiled, Here
  <2> QED
    BY <2>1, <2>2 DEF RowsInv, CleanupPcs
<1>16. ASSUME NEW f \in Files, LinkFile(f) \/ UnlinkFile(f) PROVE RowsInv'
  <2>1. /\ job.pc \in {"moving", "unlinking"} /\ job'.pc \in {"moving", "unlinking"}
        /\ job'.stage = job.stage /\ job'.owed = job.owed
    BY <1>1, <1>16 DEF LinkFile, UnlinkFile, JobRecord
  <2>2. Here'.marker = Here.marker
    BY <1>2, <1>16, <2>1, StageEffects DEF Refiled, Here, LinkFile
  <2> QED
    BY <2>1, <2>2 DEF RowsInv, CleanupPcs
<1>17. CASE Outside \/ UNCHANGED vars
  <2>1. UNCHANGED <<job, stages, rows>>
    BY <1>17 DEF Outside, CodexForks, CodexAdds, CodexTakes, vars, disk
  <2> QED
    BY <2>1 DEF RowsInv, Here
<1> QED
  BY <1>3, <1>4, <1>5, <1>6, <1>7, <1>8, <1>9, <1>10, <1>11, <1>12, <1>13, <1>14, <1>15, <1>16,
     <1>17, Kinds DEF Proceeds, Restores

-----------------------------------------------------------------------------
(* No row gets lost: what leaves a database is in the backup, and a backup
   goes, or stops to count, when its rows are back or purged.              *)
LEMMA RowsKeptStep == TypeOK /\ DirsInv /\ FilesInv /\ RowsInv /\ RowsKept /\ [Next]_vars => RowsKept'
<1> SUFFICES ASSUME TypeOK, DirsInv, FilesInv, RowsInv, RowsKept, [Next]_vars,
                    NEW d \in Dbs, NEW r \in Rollouts
             PROVE  \/ r \in rows'[d]
                    \/ \E s \in Stages : r \in stages'[s].saved[d] /\ Holds(s, d)'
                    \/ r \in dropped'[d]
  BY DEF RowsKept
<1> DEFINE Kept == \/ r \in rows'[d]
                   \/ \E s \in Stages : r \in stages'[s].saved[d] /\ Holds(s, d)'
                   \/ r \in dropped'[d]
           Same(s) == stages'[s].saved[d] = stages[s].saved[d] /\ (Holds(s, d) => Holds(s, d)')
           Grows == rows[d] \subseteq rows'[d] /\ dropped[d] \subseteq dropped'[d]
<1>1. /\ job \in JobRecord /\ stages \in [Stages -> StageRecord]
      /\ rows \in [Dbs -> SUBSET Rollouts] /\ dropped \in [Dbs -> SUBSET Rollouts]
  BY DEF TypeOK
<1>2. job.pc # "idle" => job.stage \in Stages
  BY DEF DirsInv
<1>3. \/ r \in rows[d]
      \/ \E s \in Stages : r \in stages[s].saved[d] /\ Holds(s, d)
      \/ r \in dropped[d]
  BY DEF RowsKept
<1>4. Grows /\ (\A s \in Stages : Same(s)) => Kept
  BY <1>3
<1>5. \A s \in Stages : Grows /\ Elsewhere(s)
        /\ (r \in stages[s].saved[d] /\ Holds(s, d) =>
              \/ r \in stages'[s].saved[d] /\ Holds(s, d)'
              \/ r \in rows'[d] \/ r \in dropped'[d])
        => Kept
  BY <1>3 DEF Elsewhere, Holds
<1>6. CASE Starts
  <2>1. ASSUME NEW s \in Stages, NEW mode \in {"quarantine", "permanent"},
               NEW chosen \in SUBSET Rollouts, StartCleanup(s, mode, chosen)
        PROVE  Kept
    <3>1. Grows
      BY <2>1 DEF StartCleanup, history
    <3>2. stages[s].saved[d] = {}
      BY <2>1, StartEffect DEF DirsInv, NoDir, NoRows
    <3> QED
      BY <1>5, <2>1, <3>1, <3>2, StartEffect
  <2>2. ASSUME NEW s \in Stages, StartRestore(s) PROVE Kept
    <3>1. Grows
      BY <2>2 DEF StartRestore, history
    <3>2. stages'[s].saved = stages[s].saved /\ stages'[s].marker.owed = OwedBy(s)
      BY <2>2, RestoreEffect
    <3>3. stages[s].saved[d] \subseteq stages[s].threads
      BY DEF DirsInv
    <3>4. r \in stages[s].saved[d] /\ Holds(s, d) => d \in OwedBy(s)
      BY <3>3, Shapes DEF Holds, OwedBy, Sections
    <3> QED
      BY <1>5, <2>2, <3>1, <3>2, <3>4, RestoreEffect DEF Holds
  <2> QED
    BY <1>6, <2>1, <2>2 DEF Starts
<1>7. CASE UNCHANGED stages /\ Grows
  BY <1>4, <1>7 DEF Holds
<1>8. CASE CommitSatellite
  <2>1. /\ job.pc = "satellites" /\ UNCHANGED <<stages, dropped>>
    BY <1>8 DEF CommitSatellite, history
  <2>2. Holds(job.stage, d) /\ job.stage \in Stages
    BY <1>2, <2>1 DEF RowsInv, CleanupPcs, Holds, Here
  <2>3. r \in rows[d] => r \in rows'[d] \/ r \in stages[job.stage].saved[d]
    BY <1>1, <1>8 DEF CommitSatellite, DeleteSaved, Here
  <2> QED
    BY <1>3, <2>1, <2>2, <2>3 DEF Holds
<1>9. CASE CommitState
  <2>1. /\ job.pc = "satellites" /\ UNCHANGED <<stages, dropped>>
    BY <1>9 DEF CommitState, history
  <2>2. Holds(job.stage, d) /\ job.stage \in Stages /\ stages[job.stage].saved["state"] = stages[job.stage].threads
    BY <1>2, <2>1 DEF RowsInv, CleanupPcs, Holds, Here
  <2>3. r \in rows[d] => r \in rows'[d] \/ r \in stages[job.stage].saved[d]
    BY <1>1, <1>9, <2>2 DEF CommitState, Here
  <2> QED
    BY <1>3, <2>1, <2>2, <2>3 DEF Holds
<1>10. ASSUME NEW f \in Files, StageFile(f) \/ RollbackFile(f) \/ PurgeFile(f) \/ UnlinkFile(f)
       PROVE  Kept
  <2>1. job.stage \in Stages
    BY <1>2, <1>10 DEF StageFile, RollbackFile, PurgeFile, UnlinkFile
  <2>2. Grows
    BY <1>10 DEF StageFile, RollbackFile, PurgeFile, UnlinkFile, history
  <2>3. \E v : Refiled(f, v)
    BY <1>10, <2>1, StageEffects
  <2> QED
    BY <1>5, <2>1, <2>2, <2>3 DEF Refiled, Holds
<1>11. CASE LockAndBackup
  <2>1. job.pc = "reconcile" /\ Grows /\ job.stage \in Stages
    BY <1>2, <1>11 DEF LockAndBackup, history
  <2>2. stages[job.stage].saved[d] = {}
    BY <2>1 DEF RowsInv, Here, NoRows
  <2> QED
    BY <1>5, <1>11, <2>1, <2>2, StageEffects DEF BackedUp
<1>12. CASE ClearBackup
  <2>1. /\ job.pc = "undo" /\ job.next = LastSat /\ Grows /\ job.stage \in Stages
        /\ UNCHANGED rows
    BY <1>2, <1>12 DEF ClearBackup, history
  <2>2. stages[job.stage].saved[d] \subseteq rows[d]
    <3>1. CASE d = "state"
      BY <2>1, <3>1 DEF RowsInv, Here
    <3>2. CASE d \in Sats
      <4>1. PICK i \in 1 .. Len(SatOrder) : d = SatOrder[i]
        BY <3>2, Shapes
      <4>2. i \in 1 .. job.next - 1
        BY <2>1, Shapes
      <4> QED
        BY <2>1, <4>1, <4>2 DEF RowsInv, Here
    <3> QED
      BY <3>1, <3>2, Shapes
  <2> QED
    BY <1>5, <1>12, <2>1, <2>2, StageEffects DEF BackedUp
<1>13. CASE PersistMarker \/ RestoreAborts
  <2>1. job.pc \in {"sections", "persist"} /\ Grows /\ job.stage \in Stages /\ UNCHANGED rows
    BY <1>2, <1>13 DEF PersistMarker, RestoreAborts, history
  <2>2. CASE UNCHANGED stages
    BY <1>7, <2>1, <2>2
  <2>3. CASE Owing(job.owed)
    <3>1. d \in stages[job.stage].marker.owed => d \in job.owed \/ stages[job.stage].saved[d] \subseteq rows[d]
      BY <2>1 DEF RowsInv, Here
    <3>2. stages[job.stage].marker.here
      BY <2>1 DEF RowsInv, Here
    <3> QED
      BY <1>5, <2>1, <2>3, <3>1, <3>2 DEF Owing, Holds
  <2> QED
    BY <1>13, <2>1, <2>2, <2>3, StageEffects
<1>14. CASE FinishUnwind
  <2>1. job.pc = "unwind" /\ Grows /\ job.stage \in Stages
    BY <1>2, <1>14 DEF FinishUnwind, history
  <2>2. CASE job.keep \/ job.left # {}
    BY <1>7, <1>14, <2>1, <2>2, StageEffects
  <2>3. CASE ~job.keep /\ job.left = {}
    <3>1. stages[job.stage].saved[d] = {}
      BY <2>1, <2>3 DEF RowsInv, Here, NoRows
    <3> QED
      BY <1>5, <1>14, <2>1, <2>3, <3>1, StageEffects DEF Emptied
  <2> QED
    BY <2>2, <2>3
<1>15. CASE FinishPurge
  <2>1. /\ job.pc = "purge" /\ job.stage \in Stages /\ UNCHANGED rows
    BY <1>2, <1>15 DEF FinishPurge
  <2>2. CASE job.left = {}
    <3>1. dropped'[d] = dropped[d] \cup stages[job.stage].saved[d]
      BY <1>15, <2>2 DEF FinishPurge, Here
    <3> QED
      BY <1>5, <1>15, <2>1, <2>2, <3>1, StageEffects DEF Emptied
  <2>3. CASE job.left # {}
    <3>1. Grows
      BY <1>15, <2>1, <2>3 DEF FinishPurge
    <3> QED
      BY <1>5, <1>15, <2>1, <2>3, <3>1, StageEffects DEF Relisted, Holds
  <2> QED
    BY <2>2, <2>3
<1>16. CASE FinalizeRestore
  <2>1. job.pc = "sections" /\ job.owed = {} /\ Grows /\ job.stage \in Stages
    BY <1>2, <1>16 DEF FinalizeRestore, history
  <2>2. ~Holds(job.stage, d)
    BY <2>1 DEF RowsInv, Here, Holds
  <2> QED
    BY <1>5, <1>16, <2>1, <2>2, StageEffects DEF Emptied
<1>17. CASE UndoSatellite \/ RestoreSection
  <2>1. UNCHANGED <<stages, dropped>>
    BY <1>17 DEF UndoSatellite, RestoreSection, history
  <2>2. rows[d] \subseteq rows'[d]
    BY <1>1, <1>17 DEF UndoSatellite, RestoreSection, InsertSaved
  <2> QED
    BY <1>7, <2>1, <2>2
<1>18. \/ UNCHANGED <<rows, dropped, stages>>
       \/ Starts \/ CommitSatellite \/ CommitState
       \/ \E f \in Files : StageFile(f) \/ RollbackFile(f) \/ PurgeFile(f) \/ UnlinkFile(f)
       \/ LockAndBackup \/ ClearBackup \/ PersistMarker \/ RestoreAborts
       \/ FinishUnwind \/ FinishPurge \/ FinalizeRestore \/ UndoSatellite \/ RestoreSection
  BY DEF disk, history, Next, CleanupStep, RestoreStep, WorldStep, vars, Starts, StageFails, FinalManifest,
     RollbackBlocked, ReconcileFails, SatellitesFail, UndoFails, PurgeBlocked, LinkFile, UnlinkFails,
     MoveFails, MovesDone, JobDies, CodexForks, CodexAdds, CodexTakes
<1> QED
  BY <1>6, <1>7, <1>8, <1>9, <1>10, <1>11, <1>12, <1>13, <1>14, <1>15, <1>16, <1>17, <1>18

-----------------------------------------------------------------------------
(* No file gets lost: it is put only where nothing is, and a directory is
   removed only when it is empty.                                          *)
LEMMA RolloutsStep == TypeOK /\ DirsInv /\ FilesInv /\ RolloutsSurvive /\ [Next]_vars => RolloutsSurvive'
<1> SUFFICES ASSUME TypeOK, DirsInv, FilesInv, RolloutsSurvive, [Next]_vars,
                    NEW f \in Files, NEW v \in 1 .. MaxVersion, v <= born'[f]
             PROVE  \/ archive'[f] = v
                    \/ \E s \in Stages : stages'[s].files[f] = v
                    \/ <<f, v>> \in purged' \cup taken'
  BY DEF RolloutsSurvive
<1> DEFINE Survives == \/ archive'[f] = v
                       \/ \E s \in Stages : stages'[s].files[f] = v
                       \/ <<f, v>> \in purged' \cup taken'
           Quiet == born'[f] = born[f] /\ purged \subseteq purged' /\ taken \subseteq taken'
<1>1. /\ job \in JobRecord /\ stages \in [Stages -> StageRecord]
      /\ archive \in [Files -> Versions] /\ born \in [Files -> Versions]
      /\ v # 0 /\ v \in Nat
  BY DEF TypeOK
<1>2. job.pc # "idle" => job.stage \in Stages /\ Here.files \in [Files -> Versions]
  BY <1>1 DEF DirsInv, Here, StageRecord
<1>3. born'[f] = born[f] =>
        \/ archive[f] = v
        \/ \E s \in Stages : stages[s].files[f] = v
        \/ <<f, v>> \in purged \cup taken
  BY DEF RolloutsSurvive
<1>4. \A s \in Stages : Quiet /\ Elsewhere(s)
        /\ (archive[f] = v => Survives) /\ (stages[s].files[f] = v => Survives) => Survives
  BY <1>3 DEF Elsewhere
<1>5. CASE Starts
  <2>1. Quiet /\ UNCHANGED archive
    BY <1>5 DEF Starts, StartCleanup, StartRestore, history
  <2>2. ASSUME NEW s \in Stages, NEW mode \in {"quarantine", "permanent"},
               NEW chosen \in SUBSET Rollouts, StartCleanup(s, mode, chosen)
        PROVE  Survives
    <3>1. stages[s].files[f] = 0
      BY <2>2, StartEffect DEF DirsInv, NoDir, NoFiles
    <3> QED
      BY <1>1, <1>4, <2>1, <2>2, <3>1, StartEffect
  <2>3. ASSUME NEW s \in Stages, StartRestore(s) PROVE Survives
    BY <1>4, <2>1, <2>3, RestoreEffect
  <2> QED
    BY <1>5, <2>2, <2>3 DEF Starts
<1>6. CASE Quiet /\ UNCHANGED <<archive, stages>>
  BY <1>3, <1>6
<1>7. ASSUME NEW g \in Files, StageFile(g) PROVE Survives
  <2>1. /\ job.pc = "staging" /\ g \in job.todo /\ Quiet
        /\ archive' = [archive EXCEPT ![g] = 0] /\ Refiled(g, archive[g])
    BY <1>2, <1>7, StageEffects DEF StageFile, IsOldest, history
  <2>2. stages[job.stage].files[g] = 0
    BY <2>1 DEF FilesInv, Here
  <2> QED
    BY <1>1, <1>2, <1>4, <2>1, <2>2 DEF Refiled, Here
<1>8. ASSUME NEW g \in Files, RollbackFile(g) PROVE Survives
  <2>1. /\ job.pc = "unwind" /\ archive[g] = 0 /\ Quiet /\ Refiled(g, 0)
        /\ archive' = [archive EXCEPT ![g] = Here.files[g]]
    BY <1>2, <1>8, StageEffects DEF RollbackFile, history
  <2> QED
    BY <1>1, <1>2, <1>4, <2>1 DEF Refiled, Here
<1>9. ASSUME NEW g \in Files, PurgeFile(g) PROVE Survives
  <2>1. /\ job.pc = "purge" /\ Quiet /\ Refiled(g, 0) /\ UNCHANGED archive
        /\ purged' = purged \cup {<<g, Here.files[g]>>}
    BY <1>2, <1>9, StageEffects DEF PurgeFile
  <2> QED
    BY <1>1, <1>2, <1>4, <2>1 DEF Refiled, Here
<1>10. ASSUME NEW g \in Files, LinkFile(g) PROVE Survives
  <2>1. /\ archive[g] = 0 /\ Quiet /\ UNCHANGED stages
        /\ archive' = [archive EXCEPT ![g] = Here.files[g]]
    BY <1>10 DEF LinkFile, history
  <2> QED
    BY <1>1, <1>3, <2>1
<1>11. ASSUME NEW g \in Files, UnlinkFile(g) PROVE Survives
  <2>1. /\ job.pc = "unlinking" /\ job.left = {g} /\ Quiet /\ Refiled(g, 0) /\ UNCHANGED archive
    BY <1>2, <1>11, StageEffects DEF UnlinkFile, history
  <2>2. archive[g] = stages[job.stage].files[g]
    BY <2>1 DEF FilesInv, Here
  <2> QED
    BY <1>1, <1>2, <1>4, <2>1, <2>2 DEF Refiled, Here
<1>12. ASSUME NEW g \in Files, UnlinkFails(g) PROVE Survives
  <2>1. /\ job.pc = "unlinking" /\ job.left = {g} /\ Quiet /\ UNCHANGED stages
        /\ archive' = [archive EXCEPT ![g] = 0] \/ UNCHANGED archive
    BY <1>12 DEF UnlinkFails, history
  <2>2. archive[g] = stages[job.stage].files[g] /\ job.stage \in Stages
    BY <1>2, <2>1 DEF FilesInv, Here
  <2> QED
    BY <1>1, <1>3, <2>1, <2>2
<1>13. CASE LockAndBackup \/ ClearBackup \/ PersistMarker \/ RestoreAborts
  <2>1. job.stage \in Stages /\ Quiet /\ UNCHANGED archive
    BY <1>2, <1>13 DEF LockAndBackup, ClearBackup, PersistMarker, RestoreAborts, history
  <2> QED
    BY <1>4, <1>6, <1>13, <2>1, StageEffects DEF BackedUp, Owing
<1>14. CASE FinishUnwind \/ FinishPurge
  <2>1. /\ job.stage \in Stages /\ Quiet /\ UNCHANGED archive
        /\ job.pc \in {"unwind", "purge"} /\ job.todo = {}
    BY <1>2, <1>14 DEF FinishUnwind, FinishPurge, history
  <2>2. job.left = {} => stages[job.stage].files[f] = 0
    BY <2>1 DEF FilesInv, Here
  <2>3. UNCHANGED stages \/ Relisted \/ (Emptied /\ job.left = {})
    BY <1>14, <2>1, StageEffects
  <2> QED
    BY <1>1, <1>4, <1>6, <2>1, <2>2, <2>3 DEF Relisted, Emptied
<1>15. CASE FinalizeRestore
  <2>1. job.stage \in Stages /\ Quiet /\ UNCHANGED archive /\ stages[job.stage].files[f] = 0
    BY <1>2, <1>15 DEF FinalizeRestore, history, Here, NoFiles
  <2> QED
    BY <1>1, <1>4, <1>15, <2>1, StageEffects DEF Emptied
<1>16. ASSUME NEW g \in Files, CodexAdds(g) PROVE Survives
  <2>1. /\ archive[g] = 0 /\ UNCHANGED <<stages, purged, taken>>
        /\ archive' = [archive EXCEPT ![g] = born[g] + 1]
        /\ born' = [born EXCEPT ![g] = @ + 1]
    BY <1>16 DEF CodexAdds
  <2>2. CASE f = g /\ v = born[g] + 1
    BY <1>1, <2>1, <2>2
  <2>3. CASE f # g
    BY <1>1, <1>3, <2>1, <2>3
  <2>4. CASE f = g /\ v # born[g] + 1
    <3>1. born[f] \in Nat /\ born'[f] = born[f] + 1
      BY <1>1, <2>1, <2>4, Shapes
    <3>2. v <= born[f]
      BY <1>1, <2>4, <3>1
    <3> QED
      BY <1>1, <2>1, <2>4, <3>2 DEF RolloutsSurvive
  <2> QED
    BY <2>2, <2>3, <2>4
<1>17. ASSUME NEW g \in Files, CodexTakes(g) PROVE Survives
  <2>1. /\ UNCHANGED <<stages, purged, born>> /\ taken' = taken \cup {<<g, archive[g]>>}
        /\ archive' = [archive EXCEPT ![g] = 0]
    BY <1>17 DEF CodexTakes
  <2> QED
    BY <1>1, <1>3, <2>1
<1>18. \/ Quiet /\ UNCHANGED <<archive, stages>>
       \/ Starts \/ LockAndBackup \/ ClearBackup \/ PersistMarker \/ RestoreAborts
       \/ FinishUnwind \/ FinishPurge \/ FinalizeRestore
       \/ \E g \in Files : \/ StageFile(g) \/ RollbackFile(g) \/ PurgeFile(g) \/ LinkFile(g)
                           \/ UnlinkFile(g) \/ UnlinkFails(g) \/ CodexAdds(g) \/ CodexTakes(g)
  BY DEF disk, history, Next, CleanupStep, RestoreStep, WorldStep, vars, Starts, StageFails,
     FinalManifest, RollbackBlocked, ReconcileFails, CommitSatellite, CommitState, SatellitesFail,
     UndoSatellite, UndoFails, PurgeBlocked, MoveFails, MovesDone, RestoreSection, JobDies, CodexForks
<1> QED
  BY <1>5, <1>6, <1>7, <1>8, <1>9, <1>10, <1>11, <1>12, <1>13, <1>14, <1>15, <1>16, <1>17, <1>18

-----------------------------------------------------------------------------
(* Restores that await their files. *)

(* Steps other than the start of a restore leave what a marked directory
   lists, and unlink in it only what has been linked into place. *)
LEMMA MarkedStep ==
    ASSUME TypeOK, DirsInv, RowsInv, [Next]_vars, \A t \in Stages : ~StartRestore(t),
           NEW s \in Stages, stages'[s].marker.here
    PROVE  /\ stages[s].marker.here
           /\ stages'[s].marker.accepted = stages[s].marker.accepted
           /\ stages'[s].saved = stages[s].saved /\ stages'[s].entries = stages[s].entries
           /\ \/ stages'[s].marker.owed = stages[s].marker.owed
              \/ /\ s = job.stage /\ stages'[s].marker.owed = job.owed
                 /\ PersistMarker \/ RestoreAborts
           /\ \A f \in Files : \/ stages'[s].files[f] = stages[s].files[f]
                               \/ UnlinkFile(f) /\ s = job.stage /\ stages'[s].files[f] = 0
<1> DEFINE Marked ==
             /\ stages[s].marker.here
             /\ stages'[s].marker.accepted = stages[s].marker.accepted
             /\ stages'[s].saved = stages[s].saved /\ stages'[s].entries = stages[s].entries
             /\ \/ stages'[s].marker.owed = stages[s].marker.owed
                \/ /\ s = job.stage /\ stages'[s].marker.owed = job.owed
                   /\ PersistMarker \/ RestoreAborts
             /\ \A f \in Files : \/ stages'[s].files[f] = stages[s].files[f]
                                 \/ UnlinkFile(f) /\ s = job.stage /\ stages'[s].files[f] = 0
<1>1. job.pc # "idle" => job.stage \in Stages
  BY DEF DirsInv
<1>2. stages'[s] = stages[s] => Marked
  OBVIOUS
<1>3. ASSUME NEW t \in Stages, NEW mode \in {"quarantine", "permanent"},
             NEW chosen \in SUBSET Rollouts, StartCleanup(t, mode, chosen)
      PROVE  Marked
  <2>1. s # t
    BY <1>3, StartEffect DEF NoMarker
  <2> QED
    BY <1>2, <1>3, <2>1, StartEffect DEF Elsewhere
<1>4. ASSUME NEW f \in Files, StageFile(f) \/ RollbackFile(f) \/ PurgeFile(f) PROVE Marked
  <2>1. job.pc \in CleanupPcs /\ job.stage \in Stages
    BY <1>1, <1>4 DEF StageFile, RollbackFile, PurgeFile, CleanupPcs
  <2>2. \E v : Refiled(f, v)
    BY <1>4, <2>1, StageEffects
  <2>3. s # job.stage
    BY <2>1, <2>2 DEF RowsInv, Here, Refiled
  <2> QED
    BY <1>2, <2>2, <2>3 DEF Refiled, Elsewhere
<1>5. ASSUME NEW f \in Files, UnlinkFile(f) PROVE Marked
  <2>1. Refiled(f, 0) /\ job.stage \in Stages
    BY <1>1, <1>5, StageEffects DEF UnlinkFile
  <2>2. CASE s = job.stage
    <3>1. stages[s].files \in [Files -> Versions]
      BY DEF TypeOK, StageRecord
    <3> QED
      BY <1>5, <2>1, <2>2, <3>1 DEF Refiled
  <2> QED
    BY <1>2, <2>1, <2>2 DEF Refiled, Elsewhere
<1>6. CASE LockAndBackup \/ ClearBackup
  <2>1. job.pc \in CleanupPcs /\ job.stage \in Stages
    BY <1>1, <1>6 DEF LockAndBackup, ClearBackup, CleanupPcs
  <2>2. \E R, b : BackedUp(R, b)
    BY <1>6, <2>1, StageEffects
  <2>3. s # job.stage
    BY <2>1, <2>2 DEF RowsInv, Here, BackedUp
  <2> QED
    BY <1>2, <2>2, <2>3 DEF BackedUp, Elsewhere
<1>7. CASE PersistMarker \/ RestoreAborts
  <2>1. job.stage \in Stages
    BY <1>1, <1>7 DEF PersistMarker, RestoreAborts
  <2>2. Owing(job.owed) \/ UNCHANGED stages
    BY <1>7, <2>1, StageEffects
  <2> QED
    BY <1>2, <1>7, <2>1, <2>2 DEF Owing, Elsewhere
<1>8. CASE FinishUnwind \/ FinishPurge \/ FinalizeRestore
  <2>1. job.stage \in Stages
    BY <1>1, <1>8 DEF FinishUnwind, FinishPurge, FinalizeRestore
  <2>2. UNCHANGED stages \/ Emptied \/ (FinishPurge /\ Relisted)
    BY <1>8, <2>1, StageEffects
  <2>3. Emptied => s # job.stage
    BY DEF Emptied, NoDir, NoMarker
  <2>4. FinishPurge /\ Relisted => s # job.stage
    BY DEF FinishPurge, Relisted, RowsInv, CleanupPcs, Here
  <2> QED
    BY <1>2, <2>2, <2>3, <2>4 DEF Emptied, Relisted, Elsewhere
<1> QED
  BY <1>2, <1>3, <1>4, <1>5, <1>6, <1>7, <1>8, DirsUntouched DEF Starts

(* What was taken stays taken; who may empty a place, or delete a row. *)
LEMMA Losses ==
    ASSUME TypeOK, [Next]_vars
    PROVE  /\ \A r \in Rollouts : TakenFrom(r) => TakenFrom(r)'
           /\ \A f \in Files : CodexTakes(f) => TakenFrom(RolloutOf[f])'
           /\ \A f \in Files : archive[f] # 0 /\ archive'[f] = 0 =>
                StageFile(f) \/ UnlinkFails(f) \/ CodexTakes(f)
           /\ \A d \in Dbs : rows[d] \subseteq rows'[d] \/ CommitSatellite \/ CommitState
<1>1. archive \in [Files -> Versions] /\ born \in [Files -> Versions] /\ rows \in [Dbs -> SUBSET Rollouts]
  BY DEF TypeOK
<1>2. taken \subseteq taken'
  BY DEF history, Next, CleanupStep, RestoreStep, WorldStep, vars, StartCleanup, StageFile,
     StageFails, FinalManifest, RollbackFile, RollbackBlocked, FinishUnwind, LockAndBackup,
     ReconcileFails, CommitSatellite, CommitState, SatellitesFail, UndoSatellite, ClearBackup,
     UndoFails, PurgeFile, PurgeBlocked, FinishPurge, StartRestore, LinkFile, UnlinkFile,
     UnlinkFails, MoveFails, MovesDone, RestoreSection, PersistMarker, RestoreAborts,
     FinalizeRestore, JobDies, CodexForks, CodexAdds, CodexTakes
<1>3. ASSUME NEW f \in Files, archive[f] # 0, archive'[f] = 0
      PROVE  StageFile(f) \/ UnlinkFails(f) \/ CodexTakes(f)
  <2>1. ASSUME NEW g \in Files, StageFile(g) \/ UnlinkFails(g) \/ CodexTakes(g) PROVE f = g
    BY <1>1, <1>3, <2>1 DEF StageFile, UnlinkFails, CodexTakes
  <2>2. ASSUME NEW g \in Files, RollbackFile(g) \/ LinkFile(g) \/ CodexAdds(g) PROVE FALSE
    BY <1>1, <1>3, <2>2 DEF RollbackFile, LinkFile, CodexAdds
  <2> QED
    BY <1>3, <2>1, <2>2 DEF disk, Next, CleanupStep, RestoreStep, WorldStep, vars, StartCleanup,
       StageFails, FinalManifest, RollbackBlocked, FinishUnwind, LockAndBackup,
       ReconcileFails, CommitSatellite, CommitState, SatellitesFail, UndoSatellite, ClearBackup,
       UndoFails, PurgeFile, PurgeBlocked, FinishPurge, StartRestore, UnlinkFile,
       MoveFails, MovesDone, RestoreSection, PersistMarker, RestoreAborts,
       FinalizeRestore, JobDies, CodexForks
<1>4. ASSUME NEW d \in Dbs PROVE rows[d] \subseteq rows'[d] \/ CommitSatellite \/ CommitState
  <2>1. UndoSatellite \/ RestoreSection => rows[d] \subseteq rows'[d]
    BY <1>1 DEF UndoSatellite, RestoreSection, InsertSaved
  <2> QED
    BY <2>1 DEF disk, Next, CleanupStep, RestoreStep, WorldStep, vars, StartCleanup, StageFile,
       StageFails, FinalManifest, RollbackFile, RollbackBlocked, FinishUnwind, LockAndBackup,
       ReconcileFails, SatellitesFail, ClearBackup,
       UndoFails, PurgeFile, PurgeBlocked, FinishPurge, StartRestore, LinkFile, UnlinkFile,
       UnlinkFails, MoveFails, MovesDone, PersistMarker, RestoreAborts,
       FinalizeRestore, JobDies, CodexForks, CodexAdds, CodexTakes
<1>5. ASSUME NEW f \in Files, CodexTakes(f) PROVE TakenFrom(RolloutOf[f])'
  <2>1. <<f, archive[f]>> \in taken'
    BY <1>5 DEF CodexTakes
  <2>2. \E p \in taken' : RolloutOf[p[1]] = RolloutOf[f]
    BY <2>1
  <2> QED
    BY <2>2 DEF TakenFrom
<1> QED
  BY <1>2, <1>3, <1>4, <1>5 DEF TakenFrom

(* Where a phase is entered from, and what it has to work on. *)
LEMMA Phases ==
    ASSUME TypeOK, DirsInv, [Next]_vars
    PROVE  /\ job'.pc \in CleanupPcs =>
                \/ \E s \in Stages, mode \in {"quarantine", "permanent"}, chosen \in SUBSET Rollouts :
                     StartCleanup(s, mode, chosen)
                \/ /\ job.pc \in CleanupPcs /\ job'.stage = job.stage
                   /\ job'.todo \cup job'.done \subseteq job.todo \cup job.done
                   /\ job.done \subseteq job'.done
                   /\ job'.pc = "staging" => job.pc = "staging" /\ job'.todo \subseteq job.todo
           /\ job'.pc \in {"moving", "unlinking"} =>
                \/ \E s \in Stages : StartRestore(s)
                \/ \E f \in Files : LinkFile(f) /\ job'.pc = "unlinking" /\ job'.left = {f}
                \/ \E f \in Files : UnlinkFile(f) /\ job'.pc = "moving"
                \/ UNCHANGED <<job, stages, rows>>
           /\ job'.pc \in {"sections", "persist"} => Restores \/ UNCHANGED <<job, stages, rows>>
           /\ job'.pc \in {"moving", "unlinking", "sections", "persist"} =>
                \/ \E s \in Stages : StartRestore(s)
                \/ /\ job.pc \in {"moving", "unlinking", "sections", "persist"}
                   /\ job'.stage = job.stage /\ job'.done = job.done
<1>1. job \in JobRecord
  BY DEF TypeOK
<1>2. CASE job'.pc = "idle"
  BY <1>2 DEF CleanupPcs
<1>3. CASE Outside \/ UNCHANGED vars
  BY <1>3 DEF Outside, CodexForks, CodexAdds, CodexTakes, vars, disk
<1>4. CASE Starts
  <2>1. \A s \in Stages, mode \in {"quarantine", "permanent"}, chosen \in SUBSET Rollouts :
          StartCleanup(s, mode, chosen) => job'.pc = "staging"
    BY StartEffect
  <2>2. \A s \in Stages : StartRestore(s) => job'.pc = "moving"
    BY RestoreEffect
  <2> QED
    BY <1>4, <2>1, <2>2 DEF Starts, CleanupPcs
<1>5. CASE Fails
  BY <1>5, FailEffect DEF CleanupPcs
<1>6. CASE Proceeds
  <2>1. job'.todo = job.todo
    BY <1>1, <1>6 DEF Proceeds, FinalManifest, LockAndBackup, CommitSatellite, UndoSatellite, JobRecord
  <2> QED
    BY <1>6, <2>1, ProceedEffect DEF CleanupPcs
<1>7. CASE Undoes \/ Leaves
  <2>1. job.stage \in Stages
    BY <1>7 DEF DirsInv, Undoes, Leaves, RollbackFile, PurgeFile, RollbackBlocked, PurgeBlocked
  <2> QED
    BY <1>7, <2>1, UndoEffect DEF CleanupPcs
<1>8. CASE CommitState
  BY <1>1, <1>8 DEF CommitState, JobRecord, IdleJob, CleanupPcs
<1>9. CASE Restores
  BY <1>1, <1>9 DEF Restores, MovesDone, RestoreSection, PersistMarker, JobRecord, CleanupPcs
<1>10. CASE \E f \in Files : StageFile(f)
  <2>1. PICK f \in Files : StageFile(f)
    BY <1>10
  <2>2. /\ job.pc = "staging" /\ job'.pc = "staging" /\ job'.stage = job.stage
        /\ job'.todo = job.todo \ {f} /\ job'.done = job.done \cup {f} /\ f \in job.todo
    BY <1>1, <2>1 DEF StageFile, JobRecord, IsOldest
  <2> QED
    BY <2>2 DEF CleanupPcs
<1>11. CASE \E f \in Files : LinkFile(f)
  <2>1. PICK f \in Files : LinkFile(f)
    BY <1>11
  <2>2. /\ job.pc = "moving" /\ job'.pc = "unlinking" /\ job'.stage = job.stage
        /\ job'.left = {f} /\ job'.done = job.done
    BY <1>1, <2>1 DEF LinkFile, JobRecord
  <2> QED
    BY <2>1, <2>2 DEF CleanupPcs
<1>12. CASE \E f \in Files : UnlinkFile(f)
  <2>1. PICK f \in Files : UnlinkFile(f)
    BY <1>12
  <2>2. /\ job.pc = "unlinking" /\ job'.pc = "moving" /\ job'.stage = job.stage
        /\ job'.done = job.done
    BY <1>1, <2>1 DEF UnlinkFile, JobRecord
  <2> QED
    BY <2>1, <2>2 DEF CleanupPcs
<1> QED
  BY <1>2, <1>3, <1>4, <1>5, <1>6, <1>7, <1>8, <1>9, <1>10, <1>11, <1>12, Kinds

(* What a cleanup chooses, no restore awaits. *)
LEMMA ChosenAreFree ==
    ASSUME TypeOK, NEW t \in Stages, NEW mode \in {"quarantine", "permanent"},
           NEW chosen \in SUBSET Rollouts, StartCleanup(t, mode, chosen)
    PROVE  \A g \in job'.todo : /\ g \in Files /\ RolloutOf[g] \in chosen
                                /\ archive[g] # 0 /\ ~OverlapsPending(RolloutOf[g])
<1>1. job'.todo = UNION {HomeOf(r) : r \in chosen} /\ chosen \subseteq SafeCandidates
  BY DEF StartCleanup, IdleJob
<1> QED
  BY <1>1 DEF HomeOf, SafeCandidates

LEMMA AwaitedArePending ==
    ASSUME NEW s \in Stages, NEW f \in Files, Awaits(s, f), archive[f] # 0
    PROVE  OverlapsPending(RolloutOf[f])
<1>1. f \in PendingDests
  BY DEF PendingDests, Awaits
<1>2. f \in HomeOf(RolloutOf[f])
  BY DEF HomeOf
<1> QED
  BY <1>1, <1>2 DEF OverlapsPending

LEMMA ResumeStep ==
    TypeOK /\ DirsInv /\ FilesInv /\ RowsInv /\ ResumeInv /\ [Next]_vars => ResumeInv'
<1> SUFFICES ASSUME TypeOK, DirsInv, FilesInv, RowsInv, ResumeInv, [Next]_vars PROVE ResumeInv'
  OBVIOUS
<1>1. /\ job \in JobRecord /\ archive \in [Files -> Versions] /\ stages \in [Stages -> StageRecord]
      /\ \A f \in Files : RolloutOf[f] \in Rollouts
      /\ \A s \in Stages : stages[s].marker.accepted \in SUBSET Files
      /\ \A s \in Stages : stages[s].marker.here => \A f \in stages[s].marker.accepted :
           archive[f] # 0 \/ stages[s].files[f] # 0 \/ TakenFrom(RolloutOf[f])
  BY TrashConstants DEF TypeOK, ResumeInv, ResumeFindsFiles, StageRecord, MarkerRecord
<1>2. job.pc # "idle" => job.stage \in Stages
  BY DEF DirsInv
<1>3. job.left \in SUBSET Files /\ job.todo \in SUBSET Files
  BY <1>1 DEF JobRecord
<1>4. ASSUME NEW s \in Stages, stages'[s].marker.here, NEW f \in stages'[s].marker.accepted
      PROVE  archive'[f] # 0 \/ stages'[s].files[f] # 0 \/ TakenFrom(RolloutOf[f])'
  <2>1. ASSUME NEW t \in Stages, StartRestore(t)
        PROVE  archive'[f] # 0 \/ stages'[s].files[f] # 0 \/ TakenFrom(RolloutOf[f])'
    <3>1. CASE s = t
      BY <1>4, <2>1, <3>1, RestoreEffect DEF Surviving
    <3>2. CASE s # t
      BY <1>1, <1>4, <2>1, <3>2, RestoreEffect DEF Elsewhere, TakenFrom
    <3> QED
      BY <3>1, <3>2
  <2>2. ASSUME \A t \in Stages : ~StartRestore(t)
        PROVE  archive'[f] # 0 \/ stages'[s].files[f] # 0 \/ TakenFrom(RolloutOf[f])'
    <3>1. /\ stages[s].marker.here /\ f \in stages[s].marker.accepted /\ f \in Files /\ Awaits(s, f)
          /\ stages'[s].files[f] = stages[s].files[f] \/ UnlinkFile(f)
      BY <1>1, <1>4, <2>2, MarkedStep DEF Awaits
    <3>2. CASE TakenFrom(RolloutOf[f])
      BY <1>1, <3>1, <3>2, Losses
    <3>3. CASE archive[f] # 0 /\ archive'[f] = 0
      <4>1. ~StageFile(f)
        BY <3>1 DEF StageFile, IsOldest, ResumeInv
      <4>2. ASSUME UnlinkFails(f)
            PROVE  stages'[s].files[f] # 0 \/ TakenFrom(RolloutOf[f])'
        <5>1. job.pc = "unlinking" /\ f \in job.left /\ UNCHANGED stages
          BY <4>2 DEF UnlinkFails
        <5> QED
          BY <1>1, <3>1, <5>1, Losses DEF ResumeInv
      <4>3. CodexTakes(f) => TakenFrom(RolloutOf[f])'
        BY <3>1, Losses
      <4> QED
        BY <3>1, <3>3, <4>1, <4>2, <4>3, Losses
    <3>4. CASE UnlinkFile(f)
      <4>1. archive[f] # 0 /\ UNCHANGED archive
        BY <3>4 DEF UnlinkFile, FilesInv
      <4> QED
        BY <4>1
    <3> QED
      BY <1>1, <3>1, <3>2, <3>3, <3>4
  <2> QED
    BY <2>1, <2>2
<1>5. ASSUME job'.pc = "staging", NEW s \in Stages, NEW f \in job'.todo PROVE ~Awaits(s, f)'
  <2>1. \A t \in Stages : ~StartRestore(t)
    BY <1>5, RestoreEffect
  <2>2. Awaits(s, f)' => Awaits(s, f)
    BY <2>1, MarkedStep DEF Awaits
  <2>3. ASSUME NEW t \in Stages, NEW mode \in {"quarantine", "permanent"},
               NEW chosen \in SUBSET Rollouts, StartCleanup(t, mode, chosen)
        PROVE  ~Awaits(s, f)
    BY <1>5, <2>3, ChosenAreFree, AwaitedArePending
  <2>4. job.pc = "staging" /\ job'.todo \subseteq job.todo => ~Awaits(s, f)
    BY DEF ResumeInv
  <2> QED
    BY <1>5, <2>2, <2>3, <2>4, Phases DEF CleanupPcs
<1>6. ASSUME job'.pc = "unlinking", NEW s \in Stages, NEW f \in job'.left, Awaits(s, f)'
      PROVE  stages'[s].files[f] # 0 \/ TakenFrom(RolloutOf[f])'
  <2>1. \A t \in Stages : ~StartRestore(t)
    BY <1>6, RestoreEffect
  <2>2. Awaits(s, f) /\ f \in Files
    BY <1>1, <1>6, <2>1, MarkedStep DEF Awaits
  <2>3. ASSUME LinkFile(f) PROVE stages'[s].files[f] # 0 \/ TakenFrom(RolloutOf[f])'
    <3>1. archive[f] = 0 /\ UNCHANGED stages
      BY <2>3 DEF LinkFile
    <3> QED
      BY <1>1, <2>2, <3>1, Losses DEF Awaits
  <2>4. ASSUME UNCHANGED <<job, stages>> PROVE stages'[s].files[f] # 0 \/ TakenFrom(RolloutOf[f])'
    BY <1>1, <1>6, <2>2, <2>4, Losses DEF ResumeInv
  <2> QED
    BY <1>6, <2>1, <2>3, <2>4, Phases
<1> QED
  BY <1>4, <1>5, <1>6 DEF ResumeInv, ResumeFindsFiles

LEMMA AwaitedStep ==
    TypeOK /\ DirsInv /\ FilesInv /\ RowsInv /\ AwaitedInv /\ [Next]_vars => AwaitedInv'
<1> SUFFICES ASSUME TypeOK, DirsInv, FilesInv, RowsInv, AwaitedInv, [Next]_vars PROVE AwaitedInv'
  OBVIOUS
<1>1. /\ job \in JobRecord /\ archive \in [Files -> Versions] /\ stages \in [Stages -> StageRecord]
      /\ \A f \in Files : RolloutOf[f] \in Rollouts
      /\ \A s \in Stages : stages[s].entries \in SUBSET Files
      /\ job.done \in SUBSET Files /\ job.todo \in SUBSET Files
  BY TrashConstants DEF TypeOK, StageRecord, JobRecord
<1>2. job.pc # "idle" => job.stage \in Stages
  BY DEF DirsInv
<1>3. ASSUME NEW s \in Stages, NEW f \in stages'[s].entries,
             stages'[s].marker.here, stages'[s].files[f] # 0
      PROVE  Awaits(s, f)'
  <2>1. ASSUME NEW t \in Stages, StartRestore(t) PROVE Awaits(s, f)'
    <3>1. CASE s = t
      BY <1>3, <2>1, <3>1, RestoreEffect DEF Surviving, Awaits
    <3>2. CASE s # t
      BY <1>3, <2>1, <3>2, RestoreEffect DEF Elsewhere, AwaitedInv, Awaits
    <3> QED
      BY <3>1, <3>2
  <2>2. ASSUME \A t \in Stages : ~StartRestore(t) PROVE Awaits(s, f)'
    BY <1>1, <1>3, <2>2, MarkedStep DEF AwaitedInv, Awaits
  <2> QED
    BY <2>1, <2>2
<1>4. ASSUME job'.pc \in {"moving", "unlinking", "sections", "persist"}
      PROVE  job'.done = Here'.marker.accepted
  <2>1. ASSUME NEW t \in Stages, StartRestore(t) PROVE job'.done = Here'.marker.accepted
    BY <2>1, RestoreEffect DEF Here
  <2>2. ASSUME \A t \in Stages : ~StartRestore(t) PROVE job'.done = Here'.marker.accepted
    <3>1. job.pc \in {"moving", "unlinking", "sections", "persist"} /\ job'.stage = job.stage /\ job'.done = job.done
      BY <1>4, <2>2, Phases
    <3>2. Here'.marker.here /\ job.stage \in Stages
      BY <1>2, <1>4, <3>1, RowsStep DEF RowsInv
    <3> QED
      BY <2>2, <3>1, <3>2, MarkedStep DEF AwaitedInv, Here
  <2> QED
    BY <2>1, <2>2
<1>5. ASSUME job'.pc \in {"moving", "unlinking"}, NEW f \in job'.done
      PROVE  archive'[f] # 0 \/ f \in job'.todo \/ TakenFrom(RolloutOf[f])'
  <2>1. ASSUME NEW t \in Stages, StartRestore(t)
        PROVE  archive'[f] # 0 \/ f \in job'.todo \/ TakenFrom(RolloutOf[f])'
    BY <1>5, <2>1, RestoreEffect DEF Surviving
  <2>2. ASSUME NEW g \in Files, LinkFile(g)
        PROVE  archive'[f] # 0 \/ f \in job'.todo \/ TakenFrom(RolloutOf[f])'
    <3>1. /\ job.pc = "moving" /\ job'.done = job.done /\ job'.todo = job.todo
          /\ archive' = [archive EXCEPT ![g] = Here.files[g]] /\ g \in job.todo
      BY <1>1, <2>2 DEF LinkFile, JobRecord, IsOldest
    <3>2. Here.files[g] # 0
      BY <3>1 DEF FilesInv
    <3> QED
      BY <1>1, <1>5, <3>1, <3>2, Losses DEF AwaitedInv
  <2>3. ASSUME NEW g \in Files, UnlinkFile(g)
        PROVE  archive'[f] # 0 \/ f \in job'.todo \/ TakenFrom(RolloutOf[f])'
    <3>1. /\ job.pc = "unlinking" /\ job'.done = job.done /\ job'.todo = job.todo \ {g}
          /\ g \in job.left /\ UNCHANGED archive
      BY <1>1, <2>3 DEF UnlinkFile, JobRecord
    <3>2. archive[g] # 0
      BY <3>1 DEF FilesInv
    <3> QED
      BY <1>1, <1>5, <3>1, <3>2, Losses DEF AwaitedInv
  <2>4. ASSUME UNCHANGED <<job, stages>>
        PROVE  archive'[f] # 0 \/ f \in job'.todo \/ TakenFrom(RolloutOf[f])'
    <3>1. ~StageFile(f) /\ ~UnlinkFails(f)
      BY <1>5, <2>4 DEF StageFile, UnlinkFails, IdleJob
    <3>2. CodexTakes(f) => TakenFrom(RolloutOf[f])'
      BY <1>1, <1>5, <2>4, Losses
    <3> QED
      BY <1>1, <1>5, <2>4, <3>1, <3>2, Losses DEF AwaitedInv
  <2> QED
    BY <1>5, <2>1, <2>2, <2>3, <2>4, Phases
<1>6. ASSUME job'.pc \in {"sections", "persist"}, NEW f \in job'.done
      PROVE  archive'[f] # 0 \/ TakenFrom(RolloutOf[f])'
  <2>1. CASE MovesDone
    <3>1. job.pc = "moving" /\ job.todo = {} /\ job'.done = job.done /\ UNCHANGED archive
      BY <1>1, <2>1 DEF MovesDone, JobRecord, disk
    <3> QED
      BY <1>1, <1>6, <3>1, Losses DEF AwaitedInv
  <2>2. CASE RestoreSection \/ PersistMarker
    <3>1. job.pc \in {"sections", "persist"} /\ job'.done = job.done /\ UNCHANGED archive
      BY <1>1, <2>2 DEF RestoreSection, PersistMarker, JobRecord
    <3> QED
      BY <1>1, <1>6, <3>1, Losses DEF AwaitedInv
  <2>3. CASE UNCHANGED <<job, stages>>
    <3>1. ~StageFile(f) /\ ~UnlinkFails(f)
      BY <1>6, <2>3 DEF StageFile, UnlinkFails, IdleJob
    <3>2. CodexTakes(f) => TakenFrom(RolloutOf[f])'
      BY <1>1, <1>6, <2>3, Losses
    <3> QED
      BY <1>1, <1>6, <2>3, <3>1, <3>2, Losses DEF AwaitedInv
  <2> QED
    BY <1>6, <2>1, <2>2, <2>3, Phases DEF Restores
<1> QED
  BY <1>3, <1>4, <1>5, <1>6 DEF AwaitedInv

(* A row brought back stays while its restore goes on. *)
LEMMA AgreeStep == IInv /\ [Next]_vars => AgreeInv'
<1> SUFFICES ASSUME IInv, [Next]_vars PROVE AgreeInv'
  OBVIOUS
<1>1. /\ job \in JobRecord /\ archive \in [Files -> Versions] /\ stages \in [Stages -> StageRecord]
      /\ rows \in [Dbs -> SUBSET Rollouts]
      /\ \A f \in Files : RolloutOf[f] \in Rollouts
      /\ \A s \in Stages : stages[s].marker.accepted \in SUBSET Files /\ stages[s].entries \in SUBSET Files
      /\ job.done \in SUBSET Files /\ job.todo \in SUBSET Files /\ job.left \in SUBSET Files
  BY TrashConstants DEF IInv, TypeOK, StageRecord, MarkerRecord, JobRecord
<1>2. /\ TypeOK /\ DirsInv /\ RowsInv /\ FilesInv
      /\ job.pc # "idle" => job.stage \in Stages
  BY DEF IInv, DirsInv
<1>3. ASSUME NEW s \in Stages, NEW d \in Dbs, NEW f \in Files, BroughtBack(s, d, f)
      PROVE  archive[f] # 0 /\ RolloutOf[f] \in rows[d] /\ Awaits(s, f)
  BY <1>3 DEF IInv, AgreeInv, BroughtBack
<1>4. ASSUME NEW s \in Stages, NEW d \in Dbs, NEW f \in Files, BroughtBack(s, d, f)',
             \A t \in Stages : ~StartRestore(t)
      PROVE  \/ BroughtBack(s, d, f)
             \/ PersistMarker /\ s = job.stage /\ d \notin job.owed
             \/ RestoreAborts /\ s = job.stage /\ d \notin job.owed
  <2>1. ~TakenFrom(RolloutOf[f])
    BY <1>1, <1>2, <1>4, Losses DEF BroughtBack
  <2> QED
    BY <1>2, <1>4, <2>1, MarkedStep DEF BroughtBack, Awaits
<1>5. ASSUME NEW s \in Stages, NEW d \in Dbs, NEW f \in Files, BroughtBack(s, d, f)'
      PROVE  archive'[f] # 0 /\ RolloutOf[f] \in rows'[d]
  <2>1. ASSUME NEW t \in Stages, StartRestore(t)
        PROVE  archive'[f] # 0 /\ RolloutOf[f] \in rows'[d]
    <3>1. UNCHANGED <<archive, rows, taken>>
      BY <1>2, <2>1, RestoreEffect
    <3>2. CASE s = t
      <4>1. /\ f \in Surviving(t) /\ d \notin OwedBy(t) /\ RolloutOf[f] \in stages[t].saved[d]
            /\ ~TakenFrom(RolloutOf[f])
        BY <1>2, <1>5, <2>1, <3>1, <3>2, RestoreEffect DEF BroughtBack, Awaits, TakenFrom
      <4>2. stages[t].saved[d] \subseteq stages[t].threads
        BY <1>2 DEF DirsInv
      <4>3. stages[t].marker.here /\ d \notin stages[t].marker.owed
        BY <4>1, <4>2, Shapes DEF OwedBy, Sections
      <4>4. Awaits(t, f)
        BY <4>1, <4>3 DEF IInv, AwaitedInv, Surviving, Accepted, Awaits
      <4> QED
        BY <1>3, <3>1, <4>1, <4>3, <4>4 DEF BroughtBack
    <3>3. CASE s # t
      <4>1. BroughtBack(s, d, f)
        BY <1>2, <1>5, <2>1, <3>1, <3>3, RestoreEffect DEF BroughtBack, Awaits, TakenFrom, Elsewhere
      <4> QED
        BY <1>3, <3>1, <4>1
    <3> QED
      BY <3>2, <3>3
  <2>2. ASSUME \A t \in Stages : ~StartRestore(t), BroughtBack(s, d, f)
        PROVE  archive'[f] # 0 /\ RolloutOf[f] \in rows'[d]
    <3>1. archive[f] # 0 /\ RolloutOf[f] \in rows[d]
      BY <1>3, <2>2
    <3>2. ~StageFile(f)
      <4>1. StageFile(f) => job.pc = "staging" /\ f \in job.todo
        BY DEF StageFile, IsOldest
      <4> QED
        BY <2>2, <4>1 DEF IInv, AgreeInv, CleanupPcs
    <3>3. ~UnlinkFails(f)
      <4>1. UnlinkFails(f) => job.pc = "unlinking" /\ f \in job.left
        BY DEF UnlinkFails
      <4> QED
        BY <2>2, <4>1 DEF IInv, AgreeInv
    <3>4. ~CodexTakes(f)
      BY <1>2, <1>5, Losses DEF BroughtBack
    <3>5. archive'[f] # 0
      BY <1>2, <3>1, <3>2, <3>3, <3>4, Losses
    <3>6. CASE CommitSatellite \/ CommitState
      <4>1. job.pc = "satellites" /\ job.stage \in Stages
        BY <1>2, <3>6 DEF CommitSatellite, CommitState
      <4>2. RolloutOf[f] \notin Here.threads
        BY <2>2, <4>1 DEF IInv, AgreeInv, CleanupPcs
      <4>3. \A e \in Dbs : Here.saved[e] \subseteq Here.threads
        BY <1>2, <4>1 DEF DirsInv, Here
      <4> QED
        BY <1>1, <3>1, <3>5, <3>6, <4>2, <4>3 DEF CommitSatellite, CommitState, DeleteSaved
    <3> QED
      BY <1>2, <3>1, <3>5, <3>6, Losses
  <2>3. ASSUME PersistMarker \/ RestoreAborts, s = job.stage, d \notin job.owed,
               \A t \in Stages : ~StartRestore(t)
        PROVE  archive'[f] # 0 /\ RolloutOf[f] \in rows'[d]
    <3>1. job.pc \in {"sections", "persist"} /\ UNCHANGED <<archive, rows>>
      BY <2>3 DEF PersistMarker, RestoreAborts
    <3>2. /\ stages[s].marker.here /\ f \in stages[s].marker.accepted
          /\ RolloutOf[f] \in stages[s].saved[d]
      BY <1>2, <1>5, <2>3, MarkedStep DEF BroughtBack, Awaits
    <3>3. ~TakenFrom(RolloutOf[f])
      BY <1>1, <1>2, <1>5, Losses DEF BroughtBack
    <3>4. archive[f] # 0
      BY <2>3, <3>1, <3>2, <3>3 DEF IInv, AwaitedInv, Here
    <3>5. CASE d \in stages[s].marker.owed
      BY <1>2, <2>3, <3>1, <3>2, <3>4, <3>5 DEF RowsInv, Here
    <3>6. CASE d \notin stages[s].marker.owed
      BY <1>3, <3>1, <3>2, <3>3, <3>6 DEF BroughtBack, Awaits
    <3> QED
      BY <3>1, <3>4, <3>5, <3>6
  <2> QED
    BY <1>4, <1>5, <2>1, <2>2, <2>3
<1>6. ASSUME job'.pc \in CleanupPcs
      PROVE  /\ Here'.threads \subseteq {RolloutOf[g] : g \in job'.done}
             /\ \A s \in Stages, d \in Dbs, f \in Files : BroughtBack(s, d, f)' =>
                  \A g \in job'.todo \cup job'.done : RolloutOf[g] # RolloutOf[f]
  <2>1. ASSUME NEW t \in Stages, NEW mode \in {"quarantine", "permanent"},
               NEW chosen \in SUBSET Rollouts, StartCleanup(t, mode, chosen)
        PROVE  /\ Here'.threads \subseteq {RolloutOf[g] : g \in job'.done}
               /\ \A s \in Stages, d \in Dbs, f \in Files : BroughtBack(s, d, f)' =>
                    \A g \in job'.todo \cup job'.done : RolloutOf[g] # RolloutOf[f]
    <3>1. Here'.threads = {} /\ job'.done = {} /\ job.pc = "idle" /\ job'.pc = "staging"
      BY <1>2, <2>1, StartEffect DEF Here
    <3>2. ASSUME NEW s \in Stages, NEW d \in Dbs, NEW f \in Files, BroughtBack(s, d, f)',
                 NEW g \in job'.todo
          PROVE  RolloutOf[g] # RolloutOf[f]
      <4>1. BroughtBack(s, d, f)
        BY <1>2, <1>4, <3>1, <3>2, RestoreEffect DEF PersistMarker, RestoreAborts
      <4>2. OverlapsPending(RolloutOf[f])
        BY <1>3, <4>1, AwaitedArePending
      <4>3. ~OverlapsPending(RolloutOf[g])
        BY <1>2, <2>1, <3>2, ChosenAreFree
      <4> QED
        BY <4>2, <4>3
    <3> QED
      BY <3>1, <3>2
  <2>2. ASSUME job.pc \in CleanupPcs, job'.stage = job.stage,
               job'.todo \cup job'.done \subseteq job.todo \cup job.done, job.done \subseteq job'.done
        PROVE  /\ Here'.threads \subseteq {RolloutOf[g] : g \in job'.done}
               /\ \A s \in Stages, d \in Dbs, f \in Files : BroughtBack(s, d, f)' =>
                    \A g \in job'.todo \cup job'.done : RolloutOf[g] # RolloutOf[f]
    <3>1. /\ \A t \in Stages : ~StartRestore(t) /\ ~PersistMarker /\ ~RestoreAborts
          /\ job.pc # "idle" /\ job.stage \in Stages
      BY <1>2, <2>2 DEF StartRestore, PersistMarker, RestoreAborts, CleanupPcs
    <3>2. \A s \in Stages, d \in Dbs, f \in Files : BroughtBack(s, d, f)' => BroughtBack(s, d, f)
      BY <1>4, <3>1 DEF PersistMarker
    <3>3. Here.threads \subseteq {RolloutOf[g] : g \in job.done}
      BY <2>2 DEF IInv, AgreeInv
    <3>4. Here'.threads \subseteq {RolloutOf[g] : g \in job'.done}
      <4>1. CASE LockAndBackup
        BY <1>2, <2>2, <3>1, <4>1, StageEffects DEF BackedUp, Here, ThreadsOf
      <4>2. CASE ClearBackup
        BY <1>2, <2>2, <3>1, <4>2, StageEffects DEF BackedUp, Here
      <4>3. CASE Here'.threads = Here.threads
        BY <2>2, <3>3, <4>3
      <4>4. CASE \E f \in Files : StageFile(f) \/ RollbackFile(f) \/ PurgeFile(f) \/ UnlinkFile(f)
        <5>1. \E f \in Files : \E v : Refiled(f, v)
          BY <1>2, <3>1, <4>4, StageEffects
        <5> QED
          BY <2>2, <4>3, <5>1 DEF Refiled, Here
      <4>5. CASE FinishUnwind \/ FinishPurge \/ FinalizeRestore
        BY <1>6, <4>5 DEF FinishUnwind, FinishPurge, FinalizeRestore, IdleJob, CleanupPcs
      <4>6. CASE UNCHANGED stages
        BY <2>2, <4>3, <4>6 DEF Here
      <4>7. ~Starts
        BY <3>1 DEF Starts, StartCleanup
      <4> QED
        BY <1>2, <3>1, <4>1, <4>2, <4>4, <4>5, <4>6, <4>7, DirsUntouched
    <3>5. \A s \in Stages, d \in Dbs, f \in Files : BroughtBack(s, d, f)' =>
            \A g \in job'.todo \cup job'.done : RolloutOf[g] # RolloutOf[f]
      BY <2>2, <3>2 DEF IInv, AgreeInv
    <3> QED
      BY <3>4, <3>5
  <2> QED
    BY <1>2, <1>6, <2>1, <2>2, Phases
<1>7. ASSUME job'.pc = "unlinking", NEW s \in Stages, NEW d \in Dbs, NEW f \in job'.left
      PROVE  ~BroughtBack(s, d, f)'
  <2>1. \A t \in Stages : ~StartRestore(t)
    BY <1>2, <1>7, RestoreEffect
  <2>2. f \in Files /\ BroughtBack(s, d, f)' => BroughtBack(s, d, f)
    <3>1. ~PersistMarker /\ ~RestoreAborts
      BY <1>1, <1>7 DEF PersistMarker, RestoreAborts, IdleJob, JobRecord
    <3> QED
      BY <1>4, <2>1, <3>1
  <2>3. LinkFile(f) => archive[f] = 0
    BY DEF LinkFile
  <2>4. UNCHANGED job => f \in job.left /\ job.pc = "unlinking" /\ f \in Files
    BY <1>1, <1>7
  <2> QED
    BY <1>2, <1>3, <1>7, <2>1, <2>2, <2>3, <2>4, Phases DEF IInv, AgreeInv
<1> QED
  BY <1>5, <1>6, <1>7 DEF AgreeInv

-----------------------------------------------------------------------------
(* The invariant holds at first, ... *)
LEMMA InitIInv == Init => IInv
<1> SUFFICES ASSUME Init PROVE IInv
  OBVIOUS
<1>1. TypeOK
  BY Shapes, TrashConstants DEF Init, TypeOK, Versions
<1>2. DirsInv
  BY DEF Init, DirsInv, NoDir, NoRows, IdleJob
<1>3. FilesInv /\ RowsInv
  BY DEF Init, FilesInv, RowsInv, CleanupPcs, IdleJob
<1>4. RowsKept
  BY DEF Init, RowsKept
<1>5. RolloutsSurvive
  <2>1. ASSUME NEW f \in Files, NEW v \in 1 .. MaxVersion, v <= born[f] PROVE archive[f] = v
    BY <2>1, TrashConstants DEF Init
  <2> QED
    BY <2>1 DEF RolloutsSurvive
<1>6. ResumeInv /\ AwaitedInv /\ AgreeInv
  BY DEF Init, ResumeInv, ResumeFindsFiles, AwaitedInv, AgreeInv, BroughtBack, Awaits, CleanupPcs,
     IdleJob, NoDir, NoMarker
<1> QED
  BY <1>1, <1>2, <1>3, <1>4, <1>5, <1>6 DEF IInv

(* ... and every step keeps it. *)
THEOREM Invariance == Spec => []IInv
<1>1. IInv /\ [Next]_vars => IInv'
  BY TypeStep, DirsStep, FilesStep, RowsStep, RowsKeptStep, RolloutsStep,
     ResumeStep, AwaitedStep, AgreeStep DEF IInv
<1> QED
  BY <1>1, InitIInv, PTL DEF Spec

(* Files, directories, rows and the job are of their shapes, for any files,
   rollouts, satellites, stage directories and bounds. *)
THEOREM TypeCorrect == Spec => []TypeOK
<1>1. IInv => TypeOK
  BY DEF IInv
<1> QED
  BY <1>1, Invariance, PTL

(* Whatever fails or dies at whatever step of cleanup.ts, no rollout file
   and no row of a thread is lost, for any number of rollouts, satellites,
   interrupted jobs and steps of other programs. *)
THEOREM NothingIsLost == Spec => []ThreadsSurvive
<1>1. IInv => ThreadsSurvive
  BY DEF IInv, RowsKept, RowsSurvive, ThreadsSurvive
<1> QED
  BY <1>1, Invariance, PTL

(* A restore that was interrupted finds its files again, whatever cleanups
   ran in between, unless another program took them. *)
THEOREM ResumeIsPossible == Spec => []ResumeFindsFiles
<1>1. IInv => ResumeFindsFiles
  BY DEF IInv, ResumeInv
<1> QED
  BY <1>1, Invariance, PTL

(* A permanent cleanup unlinks a file only when its thread's row has left
   the state database. *)
LEMMA PurgeFollowsCommit == IInv /\ [Next]_vars => CommitBeforePurge
<1> SUFFICES ASSUME IInv, [Next]_vars, NEW p \in purged' \ purged
             PROVE  RolloutOf[p[1]] \notin rows["state"]
  BY DEF CommitBeforePurge
<1>1. PICK f \in Files : PurgeFile(f)
  BY DEF disk, history, Next, CleanupStep, RestoreStep, WorldStep, vars, StartCleanup, StageFile,
     StageFails, FinalManifest, RollbackFile, RollbackBlocked, FinishUnwind, LockAndBackup,
     ReconcileFails, CommitSatellite, CommitState, SatellitesFail, UndoSatellite, ClearBackup,
     UndoFails, PurgeBlocked, FinishPurge, StartRestore, LinkFile, UnlinkFile,
     UnlinkFails, MoveFails, MovesDone, RestoreSection, PersistMarker, RestoreAborts,
     FinalizeRestore, JobDies, CodexForks, CodexAdds, CodexTakes
<1>2. p = <<f, Here.files[f]>> /\ job.pc = "purge" /\ f \in job.todo
  BY <1>1 DEF PurgeFile, IsOldest
<1> QED
  BY <1>2 DEF IInv, RowsInv

(* A restore that ends with success has put back all its backup holds of
   the rollouts it put back. *)
LEMMA RestoresAreWhole == IInv => RestoredRollouts
<1> SUFFICES ASSUME IInv, FinalizeRestore, NEW f \in job.done, NEW d \in Dbs,
                    RolloutOf[f] \in Here.saved[d], ~TakenFrom(RolloutOf[f])
             PROVE  RolloutOf[f] \in rows[d]
  BY DEF RestoredRollouts
<1>1. job.pc = "sections" /\ job.owed = {} /\ job.stage \in Stages
  BY DEF FinalizeRestore, IInv, DirsInv
<1>2. job.done \in SUBSET Files
  BY DEF IInv, TypeOK, JobRecord
<1>3. Here.marker.here /\ Here.marker.owed = {} /\ job.done = Here.marker.accepted
  BY <1>1 DEF IInv, RowsInv, AwaitedInv
<1>4. BroughtBack(job.stage, d, f)
  BY <1>3 DEF BroughtBack, Awaits, Here
<1> QED
  BY <1>1, <1>2, <1>4 DEF IInv, AgreeInv

(* Files and rows of a thread go and come together, for any rollouts,
   satellites, interrupted jobs and steps of other programs: a purge never
   runs ahead of the commit, and a restore that ends with success is whole. *)
THEOREM FilesFollowRows == Spec => FilesAndRowsAgree
<1>1. IInv /\ [Next]_vars => [CommitBeforePurge /\ RestoredRollouts]_vars
  BY PurgeFollowsCommit, RestoresAreWhole
<1> QED
  BY <1>1, Invariance, PTL DEF Spec, FilesAndRowsAgree
=============================================================================
