---------------------------- MODULE ArchiveTrash ----------------------------
(***************************************************************************)
(* Archived-session cleanup and its trash: src/storage/cleanup.ts, run     *)
(* under the mutation slot of storage-mutation-coordinator.ts by           *)
(* cleanup-job.ts, policy-job.ts and restore-job.ts.                       *)
(*                                                                         *)
(* A cleanup moves the rollout files of some threads from                  *)
(* archived_sessions/ into a fresh stage directory under .trash, writes a  *)
(* backup of the threads' rows there, deletes the rows from the satellite  *)
(* databases one by one and from the state database last.  A restore       *)
(* undoes it.  Both are a row of file renames and database commits, each   *)
(* durable by itself; a worker time-out, an abort or a crash may come      *)
(* after any of them.                                                      *)
(*                                                                         *)
(* A file place of archived_sessions/ is a member of Files and holds a     *)
(* version of that file or nothing (0): other programs may put a new file  *)
(* at a free place (version 2) or take one away.  A rollout may have two   *)
(* places, the plain .jsonl and its compressed twin.  The rows a thread    *)
(* has in one database come and go together.                               *)
(***************************************************************************)
EXTENDS Integers, Sequences

CONSTANTS
    Files,       \* places in archived_sessions/
    Age,         \* their place in the listing, oldest first
    Rollouts,    \* logical rollouts, one thread each
    RolloutOf,   \* the rollout a place belongs to
    PlainOf,     \* the .jsonl place of a rollout, its public name
    Stages,      \* directory names under .trash
    SatOrder,    \* the satellite databases present, in commit order
    MaxVersion,  \* bound: how many files may ever appear at one place
    MaxTroubles  \* bound: failures, crashes and steps of other programs

ASSUME TrashConstants ==
    /\ Age \in [Files -> Nat]
    /\ \A f, g \in Files : Age[f] = Age[g] => f = g
    /\ RolloutOf \in [Files -> Rollouts]
    /\ PlainOf \in [Rollouts -> Files]
    /\ \A r \in Rollouts : RolloutOf[PlainOf[r]] = r
    /\ SatOrder \in Seq({"logs", "memories", "goals"})
    /\ MaxVersion \in Nat \ {0}
    /\ MaxTroubles \in Nat

Sats == {SatOrder[i] : i \in 1 .. Len(SatOrder)}
LastSat == Len(SatOrder) + 1
Dbs == Sats \cup {"state"}
NoStage == "no stage"
Versions == 0 .. MaxVersion

VARIABLES
    archive,     \* the version at each place of archived_sessions/
    stages,      \* the directories under .trash
    rows,        \* the threads with rows in each database
    referenced,  \* threads that a thread outside the archive refers to
    job,         \* the holder of the mutation slot
    troubles,    \* failures, crashes and steps of other programs so far
    born,        \* history: versions that ever appeared at each place
    purged,      \* history: versions unlinked by a permanent cleanup
    taken,       \* history: versions other programs took away
    dropped      \* history: rows whose backup a permanent cleanup removed

disk == <<archive, stages, rows>>
history == <<born, purged, taken, dropped>>
outer == <<referenced, troubles>>
vars == <<disk, outer, job, history>>

NoFiles == [f \in Files |-> 0]
NoRows == [d \in Dbs |-> {}]
NoMarker == [here |-> FALSE, accepted |-> {}, owed |-> {}]

(* An absent directory; `entries' are the places its manifest lists,
   `saved' the rows of satellite-backup.json, `threads' its thread ids,
   `marker' is restore-pending.json. *)
NoDir == [here |-> FALSE, entries |-> {}, files |-> NoFiles,
          threads |-> {}, saved |-> NoRows, marker |-> NoMarker]

IdleJob == [pc |-> "idle", stage |-> NoStage, mode |-> "quarantine",
            todo |-> {}, done |-> {}, left |-> {}, next |-> 1,
            keep |-> FALSE, owed |-> {}]

Pcs == {"idle",
        "staging", "reconcile", "satellites", "undo", "unwind", "purge",
        "moving", "unlinking", "sections", "persist"}

MarkerRecord == [here : BOOLEAN, accepted : SUBSET Files, owed : SUBSET Dbs]
StageRecord == [here : BOOLEAN, entries : SUBSET Files,
                files : [Files -> Versions], threads : SUBSET Rollouts,
                saved : [Dbs -> SUBSET Rollouts], marker : MarkerRecord]
JobRecord == [pc : Pcs, stage : Stages \cup {NoStage},
              mode : {"quarantine", "permanent"},
              todo : SUBSET Files, done : SUBSET Files, left : SUBSET Files,
              next : 1 .. LastSat, keep : BOOLEAN, owed : SUBSET Dbs]

Init ==
    /\ archive = [f \in Files |-> 1]
    /\ stages = [s \in Stages |-> NoDir]
    /\ rows = [d \in Dbs |-> Rollouts]
    /\ referenced = {} /\ troubles = 0
    /\ job = IdleJob
    /\ born = [f \in Files |-> 1]
    /\ purged = {} /\ taken = {} /\ dropped = [d \in Dbs |-> {}]

Here == stages[job.stage]

(* Something goes wrong, or another program interferes. *)
Trouble == troubles < MaxTroubles /\ troubles' = troubles + 1

(* Files are handled in the order of the listing, rolled back in reverse. *)
IsOldest(f, S) == f \in S /\ \A g \in S : Age[f] <= Age[g]
IsYoungest(f, S) == f \in S /\ \A g \in S : Age[g] <= Age[f]

(***************************************************************************)
(* Selecting what to clean.                                                *)
(***************************************************************************)
HomeOf(r) == {f \in Files : RolloutOf[f] = r /\ archive[f] # 0}

(* Destinations of every restore that has started and not finished. *)
PendingDests ==
    UNION {stages[s].marker.accepted : s \in {t \in Stages : stages[t].marker.here}}

OverlapsPending(r) == HomeOf(r) \cap PendingDests # {} \/ PlainOf[r] \in PendingDests

(* fault: restores in progress are not looked at. *)
AllCandidates == {r \in Rollouts : HomeOf(r) # {}}

SafeCandidates == {r \in Rollouts : HomeOf(r) # {} /\ ~OverlapsPending(r)}

(* Threads of the chosen rollouts that the state database knows. *)
ThreadsOf(places) == rows["state"] \cap {RolloutOf[f] : f \in places}

(* executeArchivedCleanup up to the first rename: the selection, the
   referenced-history preflight, the exclusive stage directory and its
   manifest.  Any selection and percentage may be asked for. *)
StartCleanup(s, mode, chosen) ==
    /\ job.pc = "idle"
    /\ ~stages[s].here
    /\ chosen # {} /\ chosen \subseteq SafeCandidates
    /\ LET places == UNION {HomeOf(r) : r \in chosen} IN
       /\ ThreadsOf(places) \cap referenced = {}
       /\ stages' = [stages EXCEPT ![s] =
                       [NoDir EXCEPT !.here = TRUE, !.entries = places]]
       /\ job' = [IdleJob EXCEPT !.pc = "staging", !.stage = s,
                                 !.mode = mode, !.todo = places]
    /\ UNCHANGED <<archive, rows, outer, history>>

(***************************************************************************)
(* Staging and its rollback.                                               *)
(***************************************************************************)
StageFile(f) ==
    /\ job.pc = "staging" /\ IsOldest(f, job.todo)
    /\ archive[f] # 0
    /\ archive' = [archive EXCEPT ![f] = 0]
    /\ stages' = [stages EXCEPT ![job.stage].files[f] = archive[f]]
    /\ job' = [job EXCEPT !.todo = @ \ {f}, !.done = @ \cup {f}]
    /\ UNCHANGED <<rows, outer, history>>

(* Every failure of a cleanup ends in rollbackStaged over what was staged. *)
Unwinding(keep) == [job EXCEPT !.pc = "unwind", !.todo = job.done,
                               !.left = {}, !.keep = keep]

(* A rename or the final manifest fails. *)
StageFails ==
    /\ Trouble
    /\ job.pc = "staging"
    /\ job' = Unwinding(FALSE)
    /\ UNCHANGED <<disk, referenced, history>>

(* fault: a permanent cleanup unlinks before the databases are reconciled. *)
PurgeAfterStaging ==
    /\ job.pc = "staging" /\ job.todo = {}
    /\ job' = IF job.mode = "quarantine" THEN [job EXCEPT !.pc = "reconcile"]
              ELSE [job EXCEPT !.pc = "purge", !.todo = job.done]
    /\ UNCHANGED <<disk, outer, history>>

FinalManifest ==
    /\ job.pc = "staging" /\ job.todo = {}
    /\ job' = [job EXCEPT !.pc = "reconcile"]
    /\ UNCHANGED <<disk, outer, history>>

(* rollbackStaged for one file: put back only onto a free place. *)
RollbackFile(f) ==
    /\ job.pc = "unwind" /\ IsYoungest(f, job.todo)
    /\ archive[f] = 0
    /\ archive' = [archive EXCEPT ![f] = Here.files[f]]
    /\ stages' = [stages EXCEPT ![job.stage].files[f] = 0]
    /\ job' = [job EXCEPT !.todo = @ \ {f}]
    /\ UNCHANGED <<rows, outer, history>>

(* The place is taken or the rename fails: the file stays in the stage. *)
RollbackBlocked(f) ==
    /\ Trouble
    /\ job.pc = "unwind" /\ IsYoungest(f, job.todo)
    /\ job' = [job EXCEPT !.todo = @ \ {f}, !.left = @ \cup {f}]
    /\ UNCHANGED <<disk, referenced, history>>

RemoveStage == stages' = [stages EXCEPT ![job.stage] = NoDir]

(* fault: only the row restore decides whether the stage is kept. *)
UnwindRemovesStage ==
    /\ job.pc = "unwind" /\ job.todo = {}
    /\ IF job.keep THEN UNCHANGED stages ELSE RemoveStage
    /\ job' = IdleJob
    /\ UNCHANGED <<archive, rows, outer, history>>

FinishUnwind ==
    /\ job.pc = "unwind" /\ job.todo = {}
    /\ IF job.keep \/ job.left # {} THEN UNCHANGED stages ELSE RemoveStage
    /\ job' = IdleJob
    /\ UNCHANGED <<archive, rows, outer, history>>

(***************************************************************************)
(* reconcileDeletedThreads.                                                *)
(***************************************************************************)
(* The rows of these threads in every database, as the backup keeps them. *)
SnapshotOf(known) == [d \in Dbs |-> rows[d] \cap known]

(* Delete from database d what the backup holds; put it back, leaving what
   is there alone. *)
DeleteSaved(d) == rows' = [rows EXCEPT ![d] = @ \ Here.saved[d]]
InsertSaved(d) == rows' = [rows EXCEPT ![d] = @ \cup Here.saved[d]]

(* The delete set is frozen under the state lock, the satellites are
   locked and the backup of every row is on disk before any is deleted. *)
LockAndBackup ==
    /\ job.pc = "reconcile"
    /\ LET known == ThreadsOf(job.done) IN
       /\ known \cap referenced = {}
       /\ stages' = [stages EXCEPT
                       ![job.stage].threads = known,
                       ![job.stage].saved = SnapshotOf(known)]
       /\ job' = [job EXCEPT !.pc = "satellites",
                             !.next = IF known = {} THEN LastSat ELSE 1]
    /\ UNCHANGED <<archive, rows, outer, history>>

(* Busy databases, referenced history, or the backup cannot be written. *)
ReconcileFails ==
    /\ Trouble
    /\ job.pc = "reconcile"
    /\ job' = Unwinding(FALSE)
    /\ UNCHANGED <<disk, referenced, history>>

CommitSatellite ==
    /\ job.pc = "satellites" /\ job.next < LastSat
    /\ DeleteSaved(SatOrder[job.next])
    /\ job' = [job EXCEPT !.next = @ + 1]
    /\ UNCHANGED <<archive, stages, outer, history>>

(* The re-check and the delete of the threads, last. *)
CommitState ==
    /\ job.pc = "satellites" /\ job.next = LastSat
    /\ Here.threads \cap referenced = {}
    /\ rows' = [rows EXCEPT !["state"] = @ \ Here.threads]
    /\ job' = IF job.mode = "quarantine" THEN IdleJob
              ELSE [job EXCEPT !.pc = "purge", !.todo = job.done]
    /\ UNCHANGED <<archive, stages, outer, history>>

(* A commit or the rewrite of the backup fails: rows that may be gone are
   put back from the backup, unless there was no satellite work. *)
SatellitesFail ==
    /\ Trouble
    /\ job.pc = "satellites"
    /\ job' = IF Here.threads = {} THEN Unwinding(FALSE)
              ELSE [job EXCEPT !.pc = "undo", !.next = 1]
    /\ UNCHANGED <<disk, referenced, history>>

(* restoreSatelliteBackup, one database at a time. *)
UndoSatellite ==
    /\ job.pc = "undo" /\ job.next < LastSat
    /\ InsertSaved(SatOrder[job.next])
    /\ job' = [job EXCEPT !.next = @ + 1]
    /\ UNCHANGED <<archive, stages, outer, history>>

ClearBackup ==
    /\ job.pc = "undo" /\ job.next = LastSat
    /\ stages' = [stages EXCEPT ![job.stage].threads = {},
                                ![job.stage].saved = NoRows]
    /\ job' = Unwinding(FALSE)
    /\ UNCHANGED <<archive, rows, outer, history>>

(* fault: the failed undo does not keep the stage. *)
UndoFailsSilently ==
    /\ Trouble
    /\ job.pc = "undo" /\ job.next < LastSat
    /\ job' = Unwinding(FALSE)
    /\ UNCHANGED <<disk, referenced, history>>

(* The first database that cannot be put back ends the undo: the stage and
   its backup are kept, the files still go home. *)
UndoFails ==
    /\ Trouble
    /\ job.pc = "undo" /\ job.next < LastSat
    /\ job' = Unwinding(TRUE)
    /\ UNCHANGED <<disk, referenced, history>>

(***************************************************************************)
(* Permanent mode: unlink what was staged, after the commit.               *)
(***************************************************************************)
PurgeFile(f) ==
    /\ job.pc = "purge" /\ IsOldest(f, job.todo)
    /\ purged' = purged \cup {<<f, Here.files[f]>>}
    /\ stages' = [stages EXCEPT ![job.stage].files[f] = 0]
    /\ job' = [job EXCEPT !.todo = @ \ {f}]
    /\ UNCHANGED <<archive, rows, outer, born, taken, dropped>>

PurgeBlocked(f) ==
    /\ Trouble
    /\ job.pc = "purge" /\ IsOldest(f, job.todo)
    /\ job' = [job EXCEPT !.todo = @ \ {f}, !.left = @ \cup {f}]
    /\ UNCHANGED <<disk, referenced, history>>

(* All unlinked: the stage goes, and the saved rows with it.  Otherwise the
   manifest is rewritten to the survivors, best effort. *)
FinishPurge ==
    /\ job.pc = "purge" /\ job.todo = {}
    /\ \/ /\ job.left = {}
          /\ RemoveStage
          /\ dropped' = [d \in Dbs |-> dropped[d] \cup Here.saved[d]]
       \/ /\ job.left # {}
          /\ stages' = [stages EXCEPT ![job.stage].entries = job.left]
          /\ UNCHANGED dropped
       \/ /\ job.left # {}
          /\ UNCHANGED <<stages, dropped>>
    /\ job' = IdleJob
    /\ UNCHANGED <<archive, rows, outer, born, purged, taken>>

(***************************************************************************)
(* restoreTrashEntry.                                                      *)
(***************************************************************************)
Accepted(s) == IF stages[s].marker.here THEN stages[s].marker.accepted ELSE {}

Surviving(s) == {f \in stages[s].entries :
    stages[s].files[f] # 0 \/ (f \in Accepted(s) /\ archive[f] # 0)}

(* The sections a backup has: all or none, by whether it names a thread. *)
Sections(s) == IF stages[s].threads = {} THEN {} ELSE Sats

OwedBy(s) == IF stages[s].marker.here THEN stages[s].marker.owed
             ELSE {"state"} \cup Sections(s)

(* Every manifest entry still has a file, no owed section lost its backup,
   and no place in the way is occupied. *)
Restorable(s) ==
    /\ stages[s].here
    /\ stages[s].entries # {}
    /\ \A f \in stages[s].entries :
         \E g \in Surviving(s) : RolloutOf[g] = RolloutOf[f]
    /\ OwedBy(s) \ {"state"} \subseteq Sections(s)
    /\ \A f \in Surviving(s) :
         archive[f] # 0 => f \in Accepted(s) /\ stages[s].files[f] = 0

(* The checks, the satellite locks, and the durable marker written before
   any file leaves the stage. *)
StartRestore(s) ==
    /\ job.pc = "idle"
    /\ Restorable(s)
    /\ stages' = [stages EXCEPT ![s].marker =
                    [here |-> TRUE, accepted |-> Surviving(s), owed |-> OwedBy(s)]]
    /\ job' = [IdleJob EXCEPT !.pc = "moving", !.stage = s,
                 !.todo = {f \in Surviving(s) : stages[s].files[f] # 0},
                 !.done = Surviving(s), !.owed = OwedBy(s)]
    /\ UNCHANGED <<archive, rows, outer, history>>

(* renameNoReplace: a hard link that fails on an occupied place ... *)
LinkFile(f) ==
    /\ job.pc = "moving" /\ IsOldest(f, job.todo)
    /\ archive[f] = 0
    /\ archive' = [archive EXCEPT ![f] = Here.files[f]]
    /\ job' = [job EXCEPT !.pc = "unlinking", !.left = {f}]
    /\ UNCHANGED <<stages, rows, outer, history>>

(* ... then the unlink of the staged name ... *)
UnlinkFile(f) ==
    /\ job.pc = "unlinking" /\ job.left = {f}
    /\ stages' = [stages EXCEPT ![job.stage].files[f] = 0]
    /\ job' = [job EXCEPT !.pc = "moving", !.todo = @ \ {f}, !.left = {}]
    /\ UNCHANGED <<archive, rows, outer, history>>

(* ... whose failure takes the link back, best effort. *)
UnlinkFails(f) ==
    /\ Trouble
    /\ job.pc = "unlinking" /\ job.left = {f}
    /\ \/ archive' = [archive EXCEPT ![f] = 0]
       \/ UNCHANGED archive
    /\ job' = IdleJob
    /\ UNCHANGED <<stages, rows, referenced, history>>

(* A move fails: what was placed stays, the marker stays as written. *)
MoveFails ==
    /\ Trouble
    /\ job.pc = "moving" /\ job.todo # {}
    /\ job' = IdleJob
    /\ UNCHANGED <<disk, referenced, history>>

(* fault: the phase after the moves is misnamed. *)
MovesLost ==
    /\ job.pc = "moving" /\ job.todo = {}
    /\ job' = [job EXCEPT !.pc = "state"]
    /\ UNCHANGED <<disk, outer, history>>

MovesDone ==
    /\ job.pc = "moving" /\ job.todo = {}
    /\ job' = [job EXCEPT !.pc = "sections"]
    /\ UNCHANGED <<disk, outer, history>>

(* The state rows first, then the satellites in order. *)
NextOwed ==
    IF "state" \in job.owed THEN "state"
    ELSE SatOrder[CHOOSE i \in 1 .. Len(SatOrder) :
                    /\ SatOrder[i] \in job.owed
                    /\ \A j \in 1 .. i - 1 : SatOrder[j] \notin job.owed]

(* INSERT OR IGNORE of one section, committed. *)
RestoreSection ==
    /\ job.pc = "sections" /\ job.owed # {}
    /\ InsertSaved(NextOwed)
    /\ job' = [job EXCEPT !.pc = "persist", !.owed = @ \ {NextOwed}]
    /\ UNCHANGED <<archive, stages, outer, history>>

PersistMarker ==
    /\ job.pc = "persist"
    /\ stages' = [stages EXCEPT ![job.stage].marker.owed = job.owed]
    /\ job' = [job EXCEPT !.pc = "sections"]
    /\ UNCHANGED <<archive, rows, outer, history>>

(* fault: a section is struck off before it is committed. *)
AbortsAhead ==
    /\ Trouble
    /\ job.pc \in {"sections", "persist"} /\ job.owed # {}
    /\ stages' = [stages EXCEPT ![job.stage].marker.owed = job.owed \ {NextOwed}]
    /\ job' = IdleJob
    /\ UNCHANGED <<archive, rows, referenced, history>>

(* abortAfterMoves: the marker is written once more, best effort. *)
RestoreAborts ==
    /\ Trouble
    /\ job.pc \in {"sections", "persist"}
    /\ \/ stages' = [stages EXCEPT ![job.stage].marker.owed = job.owed]
       \/ UNCHANGED stages
    /\ job' = IdleJob
    /\ UNCHANGED <<archive, rows, referenced, history>>

(* The completeness gate and finalizeRestoredStage. *)
FinalizeRestore ==
    /\ job.pc = "sections" /\ job.owed = {}
    /\ \A f \in job.done : archive[f] # 0 /\ Here.files[f] = 0
    /\ Here.files = NoFiles
    /\ RemoveStage
    /\ job' = IdleJob
    /\ UNCHANGED <<archive, rows, outer, history>>

(***************************************************************************)
(* The rest of the world.                                                  *)
(***************************************************************************)
(* The worker is terminated (ten-minute timer, shutdown) or the process
   dies: open transactions roll back, the slot is free again. *)
JobDies ==
    /\ Trouble
    /\ job.pc # "idle"
    /\ job' = IdleJob
    /\ UNCHANGED <<disk, referenced, history>>

(* Codex forks a thread that is archived here; it needs the state lock. *)
CodexForks(r) ==
    /\ Trouble
    /\ job.pc # "satellites"
    /\ r \in rows["state"] \ referenced
    /\ referenced' = referenced \cup {r}
    /\ UNCHANGED <<disk, job, history>>

(* A file appears at a free place ... *)
CodexAdds(f) ==
    /\ Trouble
    /\ archive[f] = 0 /\ born[f] < MaxVersion
    /\ archive' = [archive EXCEPT ![f] = born[f] + 1]
    /\ born' = [born EXCEPT ![f] = @ + 1]
    /\ UNCHANGED <<stages, rows, referenced, job, purged, taken, dropped>>

(* ... or is taken away (unarchived), but not between the two adjacent
   system calls of one renameNoReplace. *)
CodexTakes(f) ==
    /\ Trouble
    /\ archive[f] # 0
    /\ job.pc = "unlinking" => f \notin job.left
    /\ taken' = taken \cup {<<f, archive[f]>>}
    /\ archive' = [archive EXCEPT ![f] = 0]
    /\ UNCHANGED <<stages, rows, referenced, job, born, purged, dropped>>

CleanupStep ==
    \/ \E s \in Stages, mode \in {"quarantine", "permanent"},
          chosen \in SUBSET Rollouts : StartCleanup(s, mode, chosen)
    \/ \E f \in Files : StageFile(f) \/ RollbackFile(f) \/ RollbackBlocked(f)
    \/ StageFails \/ FinalManifest \/ FinishUnwind
    \/ LockAndBackup \/ ReconcileFails \/ CommitSatellite \/ CommitState
    \/ SatellitesFail \/ UndoSatellite \/ ClearBackup \/ UndoFails
    \/ \E f \in Files : PurgeFile(f) \/ PurgeBlocked(f)
    \/ FinishPurge

RestoreStep ==
    \/ \E s \in Stages : StartRestore(s)
    \/ \E f \in Files : LinkFile(f) \/ UnlinkFile(f) \/ UnlinkFails(f)
    \/ MoveFails \/ MovesDone \/ RestoreSection \/ PersistMarker
    \/ RestoreAborts \/ FinalizeRestore

WorldStep ==
    \/ JobDies
    \/ \E r \in Rollouts : CodexForks(r)
    \/ \E f \in Files : CodexAdds(f) \/ CodexTakes(f)

Next == CleanupStep \/ RestoreStep \/ WorldStep

Spec == Init /\ [][Next]_vars

(***************************************************************************)
(* Properties.                                                             *)
(***************************************************************************)
(* Every value the variables hold is of its shape. *)
TypeOK ==
    /\ archive \in [Files -> Versions]
    /\ stages \in [Stages -> StageRecord]
    /\ rows \in [Dbs -> SUBSET Rollouts]
    /\ referenced \in SUBSET Rollouts
    /\ troubles \in Nat
    /\ job \in JobRecord
    /\ born \in [Files -> Versions]
    /\ purged \in SUBSET (Files \X Versions)
    /\ taken \in SUBSET (Files \X Versions)
    /\ dropped \in [Dbs -> SUBSET Rollouts]

(* Whatever fails or dies at whatever step, a rollout file is in the archive
   or in a stage directory, unless a permanent cleanup unlinked it or
   another program took it: no rename overwrites a file and no directory is
   removed with a file in it (stageCandidates, rollbackStaged,
   removeStageIfEmpty, renameNoReplace, finalizeRestoredStage). *)
RolloutsSurvive ==
    \A f \in Files, v \in 1 .. MaxVersion : v <= born[f] =>
        \/ archive[f] = v
        \/ \E s \in Stages : stages[s].files[f] = v
        \/ <<f, v>> \in purged \cup taken

(* A thread's rows are in their database or in a backup under .trash, unless
   a permanent cleanup that went through removed them: the backup is on disk
   before the first delete and goes only once the rows are back
   (reconcileDeletedThreads, restoreTrashEntry). *)
RowsSurvive ==
    \A d \in Dbs, r \in Rollouts :
        \/ r \in rows[d]
        \/ \E s \in Stages : r \in stages[s].saved[d]
        \/ r \in dropped[d]

(* No thread is lost: neither its file nor its rows, in whatever order the
   renames, commits, failures and deaths of a job come. *)
ThreadsSurvive == RolloutsSurvive /\ RowsSurvive

(* Another program took a file of this rollout. *)
TakenFrom(r) == \E p \in taken : RolloutOf[p[1]] = r

(* A restore that was interrupted finds its files again: each accepted
   destination is at home or still staged, whatever cleanups ran in between,
   unless another program took the file (candidateOverlapsPendingRestore). *)
ResumeFindsFiles ==
    \A s \in Stages : stages[s].marker.here =>
        \A f \in stages[s].marker.accepted :
            \/ archive[f] # 0 \/ stages[s].files[f] # 0
            \/ TakenFrom(RolloutOf[f])

(* A file is unlinked only after its thread's row left the state database. *)
CommitBeforePurge ==
    \A p \in purged' \ purged : RolloutOf[p[1]] \notin rows["state"]

(* A successful restore has put back every row its backup holds for a
   rollout it put back, unless another program took files of that rollout. *)
RestoredRollouts ==
    FinalizeRestore =>
        \A f \in job.done, d \in Dbs :
            (RolloutOf[f] \in Here.saved[d] /\ ~TakenFrom(RolloutOf[f]))
            => RolloutOf[f] \in rows[d]

(* Files and rows of a thread go and come together: a purge never runs ahead
   of the commit, and a restore that ends with success is whole, also after
   any number of interrupted attempts and of other jobs between them
   (deleteArchivedCandidates, restoreTrashEntry). *)
FilesAndRowsAgree == [][CommitBeforePurge /\ RestoredRollouts]_vars

(* cleanup.ts:1846 "Journal staged paths before the first rename so a crash
   mid-stage is recoverable": a stage a crash left behind before any row was
   touched can be restored, if its files' places are free. *)
CrashMidStageIsRecoverable ==
    \A s \in Stages :
        (/\ job.pc = "idle" /\ stages[s].here
         /\ stages[s].threads = {} /\ ~stages[s].marker.here
         /\ stages[s].files # NoFiles /\ purged = {}
         /\ \A f \in Files : stages[s].files[f] # 0 => archive[f] = 0)
        => Restorable(s)
(* cleanup.ts:1912 "Overwrite the pre-commit manifest so recovery reflects
   what actually survived": a restore does not bring back the row of a
   thread whose files a permanent cleanup unlinked. *)
RecoveryReflectsSurvivors ==
    [][FinalizeRestore =>
         ~ \E r \in Here.threads \cap rows["state"] :
             \A f \in Files : RolloutOf[f] = r =>
                \A v \in 1 .. born[f] : <<f, v>> \in purged]_vars
=============================================================================
