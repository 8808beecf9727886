------------------------- MODULE CloudTransferProofs -------------------------
(***************************************************************************)
(* Proofs about CloudTransfer, for every number of files and chunks: what  *)
(* is at the target is whole, the staging directory is never deleted under *)
(* an undelivered file, and a completed task has delivered everything.     *)
(*                                                                         *)
(* The totals of bytes are sums over a function, that is folds: that they  *)
(* are numbers is out of the provers' reach, and nothing here needs it.    *)
(***************************************************************************)
EXTENDS CloudTransfer, TLAPS

-----------------------------------------------------------------------------
(* The rows                                                                *)

\* A record with the fields of a task, whatever its totals are.
IsTask(t) ==
  /\ t = [st |-> t.st, err |-> t.err, staged |-> t.staged, total |-> t.total, done |-> t.done]
  /\ t.st \in TaskStatus
  /\ t.staged \in BOOLEAN

IsFile(r) == r = [st |-> r.st, done |-> r.done]

IsFiles(F) == F = [f \in Files |-> F[f]] /\ \A f \in Files : IsFile(F[f])

\* A step that neither completes the task or a file nor notes the staging path.
RowsKept ==
  /\ IsTask(task') /\ IsFiles(file')
  /\ task'.staged => task.staged
  /\ task'.st \in {"completed", "cleaning_cloud"} => task.st \in {"completed", "cleaning_cloud"}
  /\ task'.st # "absent" => task.st # "absent" /\ (task.staged => task'.staged)
  /\ \A f \in Files : file'[f].st = "completed" => file[f].st = "completed"

\* Writing a status (every handler).
LEMMA TaskSt ==
  ASSUME NEW t, IsTask(t), NEW x \in TaskStatus
  PROVE  LET u == [t EXCEPT !.st = x] IN IsTask(u) /\ u.st = x /\ u.staged = t.staged
BY DEF IsTask

\* Writing an error code (_mark_task_failed, cleanup_cloud_staging).
LEMMA TaskErr ==
  ASSUME NEW t, IsTask(t), NEW x
  PROVE  LET u == [t EXCEPT !.err = x] IN IsTask(u) /\ u.st = t.st /\ u.staged = t.staged
BY DEF IsTask

\* Writing the total (_process_transfer_task).
LEMMA TaskTotal ==
  ASSUME NEW t, IsTask(t), NEW x
  PROVE  LET u == [t EXCEPT !.total = x] IN IsTask(u) /\ u.st = t.st /\ u.staged = t.staged
BY DEF IsTask

\* Writing the bytes done (_process_transfer_task).
LEMMA TaskDone ==
  ASSUME NEW t, IsTask(t), NEW x
  PROVE  LET u == [t EXCEPT !.done = x] IN IsTask(u) /\ u.st = t.st /\ u.staged = t.staged
BY DEF IsTask

\* Noting the staging path (_process_transfer_task).
LEMMA TaskStaged ==
  ASSUME NEW t, IsTask(t), NEW x \in BOOLEAN
  PROVE  LET u == [t EXCEPT !.staged = x] IN IsTask(u) /\ u.st = t.st /\ u.staged = x
BY DEF IsTask

\* A status with an error code (cancel, failure, recovery, cleanup).
LEMMA EndedTask ==
  ASSUME NEW t, IsTask(t), NEW x \in TaskStatus, NEW y
  PROVE  /\ IsTask(Ended(t, x, y))
         /\ Ended(t, x, y).st = x /\ Ended(t, x, y).staged = t.staged
<1> DEFINE v == [t EXCEPT !.st = x]
<1>1. IsTask(v) /\ v.st = x /\ v.staged = t.staged
  BY TaskSt, Zenon
<1> DEFINE u == [v EXCEPT !.err = y]
<1>2. Ended(t, x, y) = u
  BY DEF Ended
<1> HIDE DEF v
<1>3. IsTask(u) /\ u.st = x /\ u.staged = t.staged
  BY <1>1, TaskErr, Zenon
<1> HIDE DEF u
<1> QED BY <1>2, <1>3

\* A status with the staging path (_process_transfer_task).
LEMMA TaskStStaged ==
  ASSUME NEW t, IsTask(t), NEW x \in TaskStatus
  PROVE  LET u == [t EXCEPT !.st = x, !.staged = TRUE] IN
           IsTask(u) /\ u.st = x /\ u.staged = TRUE
<1> DEFINE v == [t EXCEPT !.st = x]
<1>1. IsTask(v) /\ v.st = x
  BY TaskSt, Zenon
<1>2. [t EXCEPT !.st = x, !.staged = TRUE] = [v EXCEPT !.staged = TRUE]
  OBVIOUS
<1> HIDE DEF v
<1> QED BY <1>1, <1>2, TaskStaged, Zenon

\* The counters leave the rest of a row (_process_transfer_task).
LEMMA CountedRow ==
  /\ \A t : IsTask(t) => IsTask(Counted(t)) /\ Counted(t).st = t.st /\ Counted(t).staged = t.staged
  /\ \A r : IsFile(r) => IsFile(Counted(r)) /\ Counted(r).st = r.st
BY DEF IsTask, IsFile, Counted

\* The counters of the current file (_process_transfer_task).
LEMMA CountedFilesRows ==
  ASSUME IsFiles(file)
  PROVE  IsFiles(CountedFiles) /\ \A f \in Files : CountedFiles[f].st = file[f].st
BY CountedRow DEF IsFiles, CountedFiles

\* Failing or cancelling the unfinished files completes none.
LEMMA OverwrittenFiles ==
  ASSUME NEW F, IsFiles(F), NEW x, x # "completed"
  PROVE  /\ IsFiles(Overwritten(F, x))
         /\ \A f \in Files : Overwritten(F, x)[f].st = "completed" => F[f].st = "completed"
BY DEF IsFiles, IsFile, Overwritten

-----------------------------------------------------------------------------
(* The steps that keep the rows                                            *)

LEMMA Statuses ==
  /\ "staging_to_cloud" \in TaskStatus /\ "downloading" \in TaskStatus
  /\ "verifying" \in TaskStatus /\ "renaming" \in TaskStatus /\ "completed" \in TaskStatus
  /\ "cleaning_cloud" \in TaskStatus /\ "failed" \in TaskStatus /\ "paused" \in TaskStatus
  /\ "cancelled" \in TaskStatus /\ "pending" \in TaskStatus /\ "absent" \in TaskStatus
  /\ RunningStatuses \subseteq TaskStatus /\ "absent" \notin RunningStatuses
  /\ CancellableStatuses \cap {"absent", "completed", "cleaning_cloud"} = {}
  /\ PausableStatuses \cap {"absent", "completed", "cleaning_cloud"} = {}
BY DEF TaskStatus, RunningStatuses, CancellableStatuses, PausableStatuses

\* A status other than "completed" and "cleaning_cloud" over an existing row.
LEMMA StKept ==
  ASSUME IsTask(task), Exists, IsTask(task'), IsFiles(file'),
         task'.st \notin {"completed", "cleaning_cloud"},
         task'.staged = task.staged,
         \A f \in Files : file'[f].st = "completed" => file[f].st = "completed"
  PROVE  RowsKept
BY DEF RowsKept, Exists

\* Rows that are not written.
LEMMA SameKept ==
  ASSUME IsTask(task), IsFiles(file), UNCHANGED rows
  PROVE  RowsKept
BY DEF RowsKept, rows

\* The requests and the ends of the thread.
LEMMA RequestsKeepRows ==
  ASSUME IsTask(task), IsFiles(file),
         Cancel \/ ChangeStatus \/ Delete \/ RecoverRunning \/ Claim \/ ConfirmPaused \/ MarkFailed
  PROVE  RowsKept
<1>1. CASE Cancel
  <2>1. IsTask(task') /\ task'.st = "cancelled" /\ task'.staged = task.staged
    BY <1>1, EndedTask, Statuses DEF Cancel
  <2>2. IsFiles(file') /\ \A f \in Files : file'[f].st = "completed" => file[f].st = "completed"
    BY <1>1, OverwrittenFiles, Zenon DEF Cancel
  <2>3. Exists
    BY <1>1, Statuses DEF Cancel, Exists
  <2> QED BY <2>1, <2>2, <2>3, StKept
<1>2. CASE ChangeStatus
  <2>1. IsTask(task') /\ task'.st \in {"paused", "pending"} /\ task'.staged = task.staged
    <3>1. CASE task' = [task EXCEPT !.st = "paused"]
      BY <3>1, TaskSt, Statuses, Zenon
    <3>2. CASE task' = [task EXCEPT !.st = "pending"]
      BY <3>2, TaskSt, Statuses, Zenon
    <3>3. CASE task' = Ended(task, "pending", "none")
      BY <3>3, EndedTask, Statuses
    <3> QED BY <1>2, <3>1, <3>2, <3>3 DEF ChangeStatus
  <2>2. Exists
    BY <1>2, Statuses DEF ChangeStatus, Exists
  <2>3. file' = file
    BY <1>2 DEF ChangeStatus
  <2> QED BY <2>1, <2>2, <2>3, StKept
<1>3. CASE Delete
  <2>1. IsTask(task') /\ task'.st = "absent" /\ ~task'.staged
    BY <1>3, Statuses DEF Delete, AbsentTask, NewTask, IsTask
  <2>2. IsFiles(file') /\ \A f \in Files : file'[f].st # "completed"
    BY <1>3 DEF Delete, AbsentFile, IsFiles, IsFile
  <2> QED BY <2>1, <2>2 DEF RowsKept
<1>4. CASE RecoverRunning
  <2>1. CASE task.st \in RunningStatuses
    <3>0. /\ task' = Ended(task, "failed", "WORKER_RECOVERY_REQUIRED")
          /\ file' = Overwritten(file, "failed")
      BY <1>4, <2>1, Zenon DEF RecoverRunning
    <3>1. IsTask(task') /\ task'.st = "failed" /\ task'.staged = task.staged
      BY <3>0, EndedTask, Statuses
    <3>2. IsFiles(file') /\ \A f \in Files : file'[f].st = "completed" => file[f].st = "completed"
      BY <3>0, OverwrittenFiles, Zenon
    <3> QED BY <2>1, <3>1, <3>2, Statuses, StKept DEF Exists
  <2>2. CASE task.st \notin RunningStatuses
    BY <1>4, <2>2, SameKept DEF RecoverRunning
  <2> QED BY <2>1, <2>2
<1>5. CASE Claim
  <2>1. IsTask(task') /\ task'.st = "staging_to_cloud" /\ task'.staged = task.staged
    BY <1>5, TaskSt, Statuses, Zenon DEF Claim
  <2>2. Exists /\ file' = file
    BY <1>5 DEF Claim, Exists
  <2> QED BY <2>1, <2>2, StKept
<1>6. CASE ConfirmPaused
  <2>1. CASE Dies
    BY <2>1, SameKept DEF Dies
  <2>2. CASE Exists /\ task' = Counted([task EXCEPT !.st = "paused"]) /\ file' = CountedFiles
    <3> DEFINE t == [task EXCEPT !.st = "paused"]
    <3>1. IsTask(t) /\ t.st = "paused" /\ t.staged = task.staged
      BY TaskSt, Statuses, Zenon
    <3> HIDE DEF t
    <3>2. IsTask(task') /\ task'.st = "paused" /\ task'.staged = task.staged
      BY <2>2, <3>1, CountedRow, Zenon DEF t
    <3> QED BY <2>2, <3>2, CountedFilesRows, StKept
  <2> QED BY <1>6, <2>1, <2>2 DEF ConfirmPaused
<1>7. CASE MarkFailed
  <2>1. CASE Dies
    BY <2>1, SameKept DEF Dies
  <2>2. CASE /\ Exists
             /\ task' = Counted(Ended(task, "failed", exc))
             /\ file' = Overwritten(CountedFiles, "failed")
    <3>2. IsTask(task') /\ task'.st = "failed" /\ task'.staged = task.staged
      BY <2>2, EndedTask, Statuses, CountedRow
    <3>3. IsFiles(file') /\ \A f \in Files : file'[f].st = "completed" => file[f].st = "completed"
      BY <2>2, CountedFilesRows, OverwrittenFiles, Zenon
    <3> QED BY <2>2, <3>2, <3>3, StKept
  <2> QED BY <1>7, <2>1, <2>2 DEF MarkFailed
<1> QED BY <1>1, <1>2, <1>3, <1>4, <1>5, <1>6, <1>7

\* The steps of the thread between two completions of a file.
LEMMA FileStepsKeepRows ==
  ASSUME IsTask(task), IsFiles(file), NEW f \in Files,
         NextFile(f) \/ Align(f) \/ Chunk(f) \/ CommitProgress(f) \/ Verify(f)
         \/ CheckSize(f) \/ CommitRenaming(f) \/ Rename(f)
  PROVE  RowsKept
<1>0. CASE UNCHANGED rows
  BY <1>0, SameKept
<1>1. CASE NextFile(f)
  <2>1. CASE /\ Exists /\ task' = task
             /\ file' = [file EXCEPT ![f].st = "downloading"]
    <3>1. IsFiles(file') /\ file'[f].st = "downloading"
          /\ \A g \in Files : g # f => file'[g] = file[g]
      BY <2>1 DEF IsFiles, IsFile
    <3> QED BY <2>1, <3>1 DEF RowsKept
  <2> QED BY <1>0, <1>1, <2>1 DEF NextFile, Dies, rows
<1>2. CASE Align(f)
  <2>1. ASSUME ~Stopped, Exists,
               NEW len, NEW more, NEW s \in {"verified", file[f].st},
               file' = [file EXCEPT ![f].done = len, ![f].st = s],
               task' = [task EXCEPT !.done = more]
        PROVE  RowsKept
    <3> DEFINE F == [file EXCEPT ![f].done = len]
    <3>1. IsFiles(F) /\ \A g \in Files : F[g].st = file[g].st
      BY DEF IsFiles, IsFile
    <3>2. file' = [F EXCEPT ![f].st = s]
      BY <2>1
    <3> HIDE DEF F
    <3>3. IsFiles(file') /\ file'[f].st = s /\ \A g \in Files : g # f => file'[g] = F[g]
      BY <3>1, <3>2 DEF IsFiles, IsFile
    <3>4. IsTask(task') /\ task'.st = task.st /\ task'.staged = task.staged
      BY <2>1, TaskDone, Zenon
    <3> QED BY <2>1, <3>1, <3>3, <3>4 DEF RowsKept, Exists
  <2> QED BY <1>0, <1>2, <2>1 DEF Align, Stop, Dies, rows
<1>3. CASE CommitProgress(f)
  <2>1. task' = Counted(task) /\ file' = CountedFiles /\ Exists
    BY <1>3 DEF CommitProgress
  <2>2. IsTask(task') /\ task'.st = task.st /\ task'.staged = task.staged
    BY <2>1, CountedRow, Zenon
  <2> QED BY <2>1, <2>2, CountedFilesRows DEF RowsKept
<1>4. CASE Verify(f)
  <2>1. CASE /\ Exists /\ task' = [task EXCEPT !.st = "verifying"]
             /\ file' = [file EXCEPT ![f].st = "verified"]
    <3>1. IsTask(task') /\ task'.st = "verifying" /\ task'.staged = task.staged
      BY <2>1, TaskSt, Statuses, Zenon
    <3>2. IsFiles(file') /\ file'[f].st = "verified"
          /\ \A g \in Files : g # f => file'[g] = file[g]
      BY <2>1 DEF IsFiles, IsFile
    <3> QED BY <2>1, <3>1, <3>2 DEF RowsKept, Exists
  <2> QED BY <1>0, <1>4, <2>1 DEF Verify, Stop, Dies, rows
<1>5. CASE CommitRenaming(f)
  <2>1. CASE Exists /\ task' = [task EXCEPT !.st = "renaming"] /\ file' = file
    <3>1. IsTask(task') /\ task'.st = "renaming" /\ task'.staged = task.staged
      BY <2>1, TaskSt, Statuses, Zenon
    <3> QED BY <2>1, <3>1 DEF RowsKept, Exists
  <2> QED BY <1>0, <1>5, <2>1 DEF CommitRenaming, Stop, Dies, rows
<1>6. CASE Chunk(f) \/ CheckSize(f) \/ Rename(f)
  BY <1>0, <1>6 DEF Chunk, CheckSize, Rename, Stop, Dies, Raise, rows
<1> QED BY <1>1, <1>2, <1>3, <1>4, <1>5, <1>6

\* The listing of the staging directory.
LEMMA ListFilesKeepsRows ==
  ASSUME IsTask(task), IsFiles(file), ListFiles
  PROVE  RowsKept
<1>1. CASE UNCHANGED rows
  BY <1>1, SameKept
<1>2. CASE /\ Exists /\ file' = file
           /\ \E total, done :
                task' = [task EXCEPT !.st = "downloading", !.total = total, !.done = done]
  <2>1. PICK total, done :
          task' = [task EXCEPT !.st = "downloading", !.total = total, !.done = done]
    BY <1>2
  <2> DEFINE t == [task EXCEPT !.st = "downloading"]
             u == [t EXCEPT !.total = total]
             v == [u EXCEPT !.done = done]
  <2>2. task' = v
    BY <2>1
  <2>3. IsTask(t) /\ t.st = "downloading" /\ t.staged = task.staged
    BY TaskSt, Statuses, Zenon
  <2> HIDE DEF t
  <2>4. IsTask(u) /\ u.st = "downloading" /\ u.staged = task.staged
    BY <2>3, TaskTotal, Zenon
  <2> HIDE DEF u
  <2>5. IsTask(v) /\ v.st = "downloading" /\ v.staged = task.staged
    BY <2>4, TaskDone, Zenon
  <2> HIDE DEF v
  <2> QED BY <1>2, <2>2, <2>5 DEF RowsKept, Exists
<1> QED BY <1>1, <1>2 DEF ListFiles, Stop, Dies, rows

\* Steps that leave the rows alone.
LEMMA OthersKeepRows ==
  ASSUME IsTask(task), IsFiles(file),
         \/ Open \/ DeleteStaging \/ RetryCleanup \/ WorkerStops \/ ApiStops
         \/ StorageFails({"list", "align", "copy", "size", "rename", "clean"})
         \/ \E f \in Files : TakeAway(f)
  PROVE  RowsKept
BY SameKept DEF Open, Stop, Raise, DeleteStaging, RetryCleanup, WorkerStops, ApiStops,
     StorageFails, TakeAway, rows

-----------------------------------------------------------------------------
(* The steps that complete something                                       *)

\* What save_share leaves: the path is noted over a complete directory.
LEMMA SaveShareRows ==
  ASSUME IsTask(task), IsFiles(file), SaveShare
  PROVE  \/ RowsKept /\ UNCHANGED rows /\ pc' \in {"none", "fail"}
         \/ /\ IsTask(task') /\ task'.st \in {task.st, "staging_to_cloud"} /\ task'.staged = TRUE
            /\ Exists /\ file' = file /\ staging' = Files /\ pc' = "list"
            /\ UNCHANGED <<todo, target, taken, apc>>
<1>1. CASE UNCHANGED rows /\ pc' \in {"none", "fail"}
  BY <1>1, SameKept
<1>2. ASSUME NEW st \in {task.st, "staging_to_cloud"}, Exists,
             task' = [task EXCEPT !.st = st, !.staged = TRUE],
             staging' = Files, pc' = "list", UNCHANGED <<file, todo, target, taken, apc>>
      PROVE  /\ IsTask(task') /\ task'.st \in {task.st, "staging_to_cloud"}
             /\ task'.staged = TRUE
  <2>1. st \in TaskStatus
    BY Statuses DEF IsTask
  <2> DEFINE u == [task EXCEPT !.st = st, !.staged = TRUE]
  <2>2. IsTask(u) /\ u.st = st /\ u.staged = TRUE
    BY <2>1, TaskStStaged, Zenon
  <2> HIDE DEF u
  <2> QED BY <1>2, <2>2 DEF u
<1> QED BY <1>1, <1>2 DEF SaveShare, Dies, End, Raise, Goto, rows

\* The row of a file that has been delivered (_process_transfer_task).
LEMMA CommitFileRows ==
  ASSUME IsTask(task), IsFiles(file), NEW f \in Files, CommitFile(f)
  PROVE  \/ UNCHANGED rows /\ pc' = "none"
         \/ /\ task' = task /\ IsFiles(file') /\ pc' = "next" /\ todo' = todo \ {f}
            /\ \A g \in Files : g # f => file'[g] = file[g]
<1>1. CASE file' = [file EXCEPT ![f].st = "completed"]
  BY <1>1 DEF CommitFile, Dies, End, Goto, IsFiles, IsFile, rows
<1> QED BY <1>1 DEF CommitFile, Dies, End, rows

\* The completion of the task and the cleanup change nothing but its status.
LEMMA CompletionRows ==
  ASSUME IsTask(task), CompleteTask \/ StartCleanup \/ FinishCleanup \/ ApiCleanup
  PROVE  /\ IsTask(task') /\ task'.staged = task.staged /\ file' = file
         /\ task'.st # "absent" => Exists
<1>1. CASE UNCHANGED rows
  BY <1>1 DEF rows, Exists
<1>2. ASSUME Exists, file' = file,
             NEW st \in {"completed", "cleaning_cloud"}, task' = [task EXCEPT !.st = st]
      PROVE  IsTask(task') /\ task'.staged = task.staged
  <2>1. st \in TaskStatus
    BY Statuses
  <2> QED BY <1>2, <2>1, TaskSt, Zenon
<1>3. CASE Exists /\ file' = file /\ (task' = Cleaned \/ task' = NotCleaned)
  BY <1>3, EndedTask, Statuses DEF Cleaned, NotCleaned
<1> QED BY <1>1, <1>2, <1>3
     DEF CompleteTask, StartCleanup, FinishCleanup, ApiCleanup, MayClean, Dies, End, Exists, rows

\* The rows keep their shape in every step.
LEMMA RowsType ==
  ASSUME IsTask(task), IsFiles(file), [Next]_vars
  PROVE  IsTask(task') /\ IsFiles(file')
<1>1. CASE RowsKept
  BY <1>1 DEF RowsKept
<1>2. CASE UNCHANGED vars
  BY <1>2 DEF vars
<1>3. CASE Next
  <2>1. CASE SaveShare
    BY <2>1, SaveShareRows DEF RowsKept, IsFiles
  <2>2. CASE \E f \in Files : CommitFile(f)
    BY <2>2, CommitFileRows DEF rows
  <2>3. CASE CompleteTask \/ StartCleanup \/ FinishCleanup \/ ApiCleanup
    BY <2>3, CompletionRows
  <2>4. CASE \E f \in Files : FileStep(f) /\ ~CommitFile(f)
    BY <1>1, <2>4, FileStepsKeepRows DEF FileStep
  <2> QED BY <1>1, <1>3, <2>1, <2>2, <2>3, <2>4, RequestsKeepRows, ListFilesKeepsRows,
             OthersKeepRows DEF Next, WorkerStep
<1> QED BY <1>2, <1>3

-----------------------------------------------------------------------------
(* Types                                                                   *)

TypeInv ==
  /\ IsTask(task) /\ IsFiles(file)
  /\ temp \in [Files -> Seq(Nat)]
  /\ target \in [Files -> Seq(Nat)]
  /\ staging \subseteq Files
  /\ todo \subseteq Files
  /\ pos \in Nat

\* What the thread and the kills do to the temporary files.
LEMMA TempType ==
  ASSUME TypeInv, [Next]_vars
  PROVE  temp' \in [Files -> Seq(Nat)] /\ target' \in [Files -> Seq(Nat)]
<1>1. CASE UNCHANGED <<temp, target>>
  BY <1>1 DEF TypeInv
<1>2. CASE \E f \in Files : Align(f)
  <2>1. PICK f \in Files : Align(f)
    BY <1>2
  <2>2. CASE \E s \in {<<>>, temp[f]} : temp' = [temp EXCEPT ![f] = s] /\ target' = target
    <3>1. <<>> \in Seq(Nat) /\ temp[f] \in Seq(Nat)
      BY DEF TypeInv
    <3> QED BY <2>2, <3>1 DEF TypeInv
  <2> QED BY <1>1, <2>1, <2>2 DEF Align, Stop, Dies, disk
<1>3. CASE \E f \in Files : Chunk(f)
  <2>1. PICK f \in Files : Chunk(f)
    BY <1>3
  <2>2. CASE temp' = [temp EXCEPT ![f] = Append(@, pos + 1)] /\ target' = target
    <3>1. Append(temp[f], pos + 1) \in Seq(Nat)
      BY DEF TypeInv
    <3> QED BY <2>2, <3>1 DEF TypeInv
  <2> QED BY <1>1, <2>1, <2>2 DEF Chunk, Stop, Dies, disk
<1>4. CASE \E f \in Files : Rename(f)
  BY <1>1, <1>4 DEF Rename, TypeInv
<1>5. CASE WorkerStops
  <2>1. CASE \E f \in Files : temp' = [temp EXCEPT ![f] = Front(@)] /\ target' = target
    <3>1. PICK f \in Files : temp' = [temp EXCEPT ![f] = Front(@)] /\ target' = target
      BY <2>1
    <3>2. Front(temp[f]) \in Seq(Nat)
      BY DEF TypeInv, Front
    <3> QED BY <3>1, <3>2 DEF TypeInv
  <2> QED BY <1>1, <1>5, <2>1 DEF WorkerStops
<1>6. CASE \E f \in Files : TakeAway(f)
  BY <1>6 DEF TakeAway, TypeInv
<1>7. CASE UNCHANGED vars
  BY <1>1, <1>7 DEF vars
<1>8. CASE \E f \in Files : NextFile(f) \/ CommitProgress(f) \/ Verify(f) \/ CheckSize(f)
                           \/ CommitRenaming(f) \/ CommitFile(f)
  BY <1>1, <1>8 DEF NextFile, CommitProgress, Verify, CheckSize, CommitRenaming, CommitFile,
     Stop, Dies, disk
<1>9. CASE Next /\ ~WorkerStops /\ ~\E f \in Files : FileStep(f) \/ TakeAway(f)
  BY <1>1, <1>9 DEF Next, WorkerStep, Claim, Open, SaveShare, ListFiles, CompleteTask,
     StartCleanup, DeleteStaging, FinishCleanup, ConfirmPaused, MarkFailed, StorageFails,
     RetryCleanup, ApiCleanup, Cancel, ChangeStatus, Delete, RecoverRunning, ApiStops,
     Stop, Dies, disk
<1> QED BY <1>2, <1>3, <1>4, <1>5, <1>6, <1>7, <1>8, <1>9 DEF FileStep

\* The staging directory, the list of files and the position of the thread.
LEMMA ThreadType ==
  ASSUME TypeInv, [Next]_vars
  PROVE  staging' \subseteq Files /\ todo' \subseteq Files /\ pos' \in Nat
<1>1. CASE todo' \in {todo, {}} /\ pos' \in {pos, 0} /\ staging' \in {staging} \cup SUBSET Files
  BY <1>1 DEF TypeInv
<1>2. CASE \E f \in Files : FileStep(f)
  <2>1. PICK f \in Files : FileStep(f)
    BY <1>2
  <2>2. staging' = staging
    BY <2>1 DEF FileStep, NextFile, Align, Chunk, CommitProgress, Verify, CheckSize,
       CommitRenaming, Rename, CommitFile, Stop, Dies, disk
  <2>3. todo' \in {todo, {}, todo \ {f}}
    BY <2>1 DEF FileStep, NextFile, Align, Chunk, CommitProgress, Verify, CheckSize,
       CommitRenaming, Rename, CommitFile, Stop, Dies, End, Raise
  <2>4. pos' \in Nat
    <3>1. CASE pos' \in {pos, 0, pos + 1}
      BY <3>1 DEF TypeInv
    <3>2. CASE Align(f)
      <4>1. Len(temp[f]) \in Nat /\ Len(<<>>) \in Nat
        BY DEF TypeInv
      <4> QED BY <3>1, <3>2, <4>1 DEF Align, Stop, Dies, End
    <3> QED BY <2>1, <3>1, <3>2 DEF FileStep, NextFile, Chunk, CommitProgress, Verify,
               CheckSize, CommitRenaming, Rename, CommitFile, Stop, Dies, End, Raise
  <2> QED BY <2>2, <2>3, <2>4 DEF TypeInv
<1>3. CASE ListFiles
  BY <1>3 DEF ListFiles, TypeInv, Stop, Dies, End, disk
<1>4. CASE UNCHANGED vars
  BY <1>1, <1>4 DEF vars
<1>5. CASE Next /\ ~ListFiles /\ ~\E f \in Files : FileStep(f)
  <2>1. staging' \in {staging} \cup SUBSET Files
    BY <1>5 DEF Next, WorkerStep, Claim, Open, SaveShare, CompleteTask, StartCleanup,
       DeleteStaging, FinishCleanup, ConfirmPaused, MarkFailed, StorageFails, RetryCleanup,
       ApiCleanup, Cancel, ChangeStatus, Delete, WorkerStops, RecoverRunning, ApiStops,
       TakeAway, Stop, Dies, Deleted, TypeInv, disk
  <2>2. todo' \in {todo, {}} /\ pos' \in {pos, 0}
    BY <1>5 DEF Next, WorkerStep, Claim, Open, SaveShare, CompleteTask, StartCleanup,
       DeleteStaging, FinishCleanup, ConfirmPaused, MarkFailed, StorageFails, RetryCleanup,
       ApiCleanup, Cancel, ChangeStatus, Delete, WorkerStops, RecoverRunning, ApiStops,
       TakeAway, Stop, Dies, End, Raise, thread
  <2> QED BY <1>1, <2>1, <2>2
<1> QED BY <1>2, <1>3, <1>4, <1>5

LEMMA TypeStep == TypeInv /\ [Next]_vars => TypeInv'
BY RowsType, TempType, ThreadType DEF TypeInv

LEMMA TypeInit == Init => TypeInv
BY Statuses DEF Init, TypeInv, NewTask, AbsentFile, IsTask, IsFiles, IsFile

-----------------------------------------------------------------------------
(* The contents                                                            *)

\* A beginning of a file, as long as it is.
Beginning(s) == s = [i \in 1..Len(s) |-> i]

\* Appending the next chunk, losing the last one, starting afresh.
LEMMA Beginnings ==
  ASSUME NEW s \in Seq(Nat), Beginning(s)
  PROVE  /\ Beginning(Append(s, Len(s) + 1)) /\ Len(Append(s, Len(s) + 1)) = Len(s) + 1
         /\ Beginning(Front(s))
         /\ Beginning(<<>>)
BY DEF Beginning, Front

\* The smallest file of the list is the only one the thread is at.
LEMMA OneCurrent ==
  ASSUME NEW f \in Files, NEW g \in Files, Current(f), Current(g)
  PROVE  f = g
BY ConstantsAssumption DEF Current, Files

\* Steps that leave the files alone and do not lead to a copying or a renaming.
LEMMA ContentKept ==
  ASSUME ContentInv, UNCHANGED <<temp, target, taken>>,
         \/ pc' \notin {"copy", "renaming", "rename", "commitFile"}
         \/ UNCHANGED <<pc, todo, pos>>
  PROVE  ContentInv'
BY DEF ContentInv, TargetIsWhole, Whole, Current, Delivered

\* One file's temporary file changes, and the thread stays at or leaves that file.
LEMMA TempChanged ==
  ASSUME TypeInv, ContentInv, NEW f \in Files, NEW s \in Seq(Nat), Beginning(s),
         temp' = [temp EXCEPT ![f] = s], UNCHANGED <<target, taken>>,
         \/ pc' \notin {"copy", "renaming", "rename", "commitFile"}
         \/ pc' = "copy" /\ pos' = Len(s) /\ todo' = todo /\ Current(f)
  PROVE  ContentInv'
<1>1. TargetIsWhole'
  BY DEF ContentInv, TargetIsWhole, Whole
<1>2. \A g \in Files : temp'[g] = IF g = f THEN s ELSE temp[g]
  BY DEF TypeInv
<1>3. \A g \in Files : Beginning(temp'[g])
  BY <1>2 DEF ContentInv, Beginning
<1>4. ASSUME NEW g \in Files, Current(g)', pc' = "copy"
      PROVE  pos' = Len(temp'[g])
  BY <1>2, <1>4, OneCurrent DEF Current
<1> QED BY <1>1, <1>3, <1>4 DEF ContentInv, Beginning

\* The copying, the check of the size and the renaming of one file.
LEMMA ContentFile ==
  ASSUME TypeInv, ContentInv, NEW f \in Files, FileStep(f)
  PROVE  ContentInv'
<1>0. CASE /\ UNCHANGED <<temp, target, taken>>
           /\ pc' \notin {"copy", "renaming", "rename", "commitFile"}
  BY <1>0, ContentKept
<1>1. CASE Align(f)
  <2>1. CASE \E s \in {<<>>, temp[f]} :
               /\ temp' = [temp EXCEPT ![f] = s] /\ UNCHANGED <<target, taken, todo>>
               /\ pc' = "verify" \/ (pc' = "copy" /\ pos' = Len(s) /\ Current(f))
    <3>1. <<>> \in Seq(Nat) /\ temp[f] \in Seq(Nat) /\ Beginning(<<>>) /\ Beginning(temp[f])
      BY Beginnings DEF TypeInv, ContentInv, Beginning
    <3> QED BY <2>1, <3>1, TempChanged
  <2> QED BY <1>0, <1>1, <2>1 DEF Align, Stop, Dies, End, Goto, disk
<1>2. CASE Chunk(f)
  <2>1. CASE /\ temp' = [temp EXCEPT ![f] = Append(@, pos + 1)] /\ pos' = pos + 1
             /\ UNCHANGED <<target, taken, todo, pc>> /\ pc = "copy" /\ Current(f)
    <3>1. temp[f] \in Seq(Nat) /\ Beginning(temp[f]) /\ pos = Len(temp[f])
      BY <2>1 DEF TypeInv, ContentInv, Beginning
    <3>2. Beginning(Append(temp[f], pos + 1)) /\ pos' = Len(Append(temp[f], pos + 1))
      BY <2>1, <3>1, Beginnings
    <3>3. Append(temp[f], pos + 1) \in Seq(Nat)
      BY <3>1 DEF TypeInv
    <3> QED BY <2>1, <3>2, <3>3, TempChanged
  <2> QED BY <1>0, <1>2, <2>1 DEF Chunk, Stop, Dies, End, Goto, disk
<1>3. CASE CommitProgress(f)
  BY <1>3, ContentKept DEF CommitProgress, Goto, disk
<1>4. CASE CheckSize(f)
  <2>1. CASE /\ UNCHANGED <<temp, target, taken, todo>> /\ pc' = "renaming"
             /\ Len(temp[f]) = Size[f] /\ Current(f)
    BY <2>1, OneCurrent DEF ContentInv, TargetIsWhole, Whole, Current, Delivered
  <2> QED BY <1>0, <1>4, <2>1 DEF CheckSize, Raise, Goto, disk
<1>5. CASE CommitRenaming(f)
  <2>1. CASE /\ UNCHANGED <<temp, target, taken, todo>> /\ pc' = "rename" /\ pc = "renaming"
    BY <2>1 DEF ContentInv, TargetIsWhole, Whole, Current, Delivered
  <2> QED BY <1>0, <1>5, <2>1 DEF CommitRenaming, Stop, Dies, End, Goto, disk
<1>6. CASE Rename(f)
  <2>1. CASE /\ target' = [target EXCEPT ![f] = temp[f]] /\ temp' = [temp EXCEPT ![f] = <<>>]
             /\ taken' = taken \ {f} /\ todo' = todo /\ pc' = "commitFile"
             /\ pc = "rename" /\ Current(f)
    <3>1. temp[f] = Whole(f)
      BY <2>1 DEF ContentInv, Whole
    <3>2. \A g \in Files : /\ target'[g] = IF g = f THEN Whole(f) ELSE target[g]
                           /\ temp'[g] = IF g = f THEN <<>> ELSE temp[g]
      BY <2>1, <3>1 DEF TypeInv
    <3>3. TargetIsWhole'
      BY <3>2 DEF ContentInv, TargetIsWhole, Whole
    <3>4. \A g \in Files : Beginning(temp'[g])
      BY <3>2, Beginnings DEF ContentInv, Beginning
    <3>5. \A g \in Files : Current(g)' => Delivered(g)'
      BY <2>1, <3>2, OneCurrent DEF Current, Delivered, Whole
    <3> QED BY <2>1, <3>3, <3>4, <3>5 DEF ContentInv, Beginning
  <2> QED BY <1>0, <1>6, <2>1 DEF Rename, Raise, Goto
<1>7. CASE NextFile(f) \/ Verify(f) \/ CommitFile(f)
  BY <1>0, <1>7 DEF NextFile, Verify, CommitFile, Stop, Dies, End, Goto, disk
<1> QED BY <1>1, <1>2, <1>3, <1>4, <1>5, <1>6, <1>7 DEF FileStep

\* Every step keeps the contents.
LEMMA ContentStep == TypeInv /\ ContentInv /\ [Next]_vars => ContentInv'
<1> SUFFICES ASSUME TypeInv, ContentInv, [Next]_vars PROVE ContentInv'
  OBVIOUS
<1>1. CASE UNCHANGED <<temp, target, taken, pc, todo, pos>>
  BY <1>1, ContentKept
<1>2. CASE \E f \in Files : FileStep(f)
  BY <1>2, ContentFile
<1>3. CASE WorkerStops
  <2>1. CASE UNCHANGED temp
    BY <1>3, <2>1, ContentKept DEF WorkerStops, End
  <2>2. CASE \E f \in Files : temp' = [temp EXCEPT ![f] = Front(@)]
    <3>1. PICK f \in Files : temp' = [temp EXCEPT ![f] = Front(temp[f])]
      BY <2>2
    <3>2. Front(temp[f]) \in Seq(Nat)
      BY DEF TypeInv, Front
    <3>3. temp[f] \in Seq(Nat) /\ Beginning(temp[f])
      BY DEF TypeInv, ContentInv, Beginning
    <3>4. Beginning(Front(temp[f]))
      BY <3>3, Beginnings
    <3> QED BY <1>3, <3>1, <3>2, <3>4, TempChanged DEF WorkerStops, End
  <2> QED BY <1>3, <2>1, <2>2 DEF WorkerStops
<1>4. CASE \E f \in Files : TakeAway(f)
  <2>1. PICK f \in Files : TakeAway(f)
    BY <1>4
  <2>2. \A g \in Files : target'[g] = IF g = f THEN <<>> ELSE target[g]
    BY <2>1 DEF TakeAway, TypeInv
  <2>3. TargetIsWhole'
    BY <2>2 DEF ContentInv, TargetIsWhole, Whole
  <2>4. \A g \in Files : Delivered(g) => Delivered(g)'
    BY <2>1, <2>2 DEF TakeAway, Delivered, Whole
  <2> QED BY <2>1, <2>3, <2>4 DEF TakeAway, ContentInv, Current, thread
<1>5. CASE Claim \/ Open \/ SaveShare \/ ListFiles \/ CompleteTask \/ StartCleanup \/ DeleteStaging
           \/ FinishCleanup \/ ConfirmPaused \/ MarkFailed
           \/ StorageFails({"list", "align", "copy", "size", "rename", "clean"})
  <2>1. UNCHANGED <<temp, target, taken>>
    BY <1>5 DEF Claim, Open, SaveShare, ListFiles, CompleteTask, StartCleanup, DeleteStaging,
       FinishCleanup, ConfirmPaused, MarkFailed, StorageFails, Stop, Dies, disk
  <2>2. pc' \notin {"copy", "renaming", "rename", "commitFile"}
    BY <1>5 DEF Claim, Open, SaveShare, ListFiles, CompleteTask, StartCleanup, DeleteStaging,
       FinishCleanup, ConfirmPaused, MarkFailed, StorageFails, Stop, Dies, End, Raise, Goto, Deleted
  <2> QED BY <2>1, <2>2, ContentKept
<1>6. CASE RetryCleanup \/ ApiCleanup \/ Cancel \/ ChangeStatus \/ Delete \/ RecoverRunning \/ ApiStops
           \/ UNCHANGED vars
  BY <1>1, <1>6 DEF RetryCleanup, ApiCleanup, Cancel, ChangeStatus, Delete, RecoverRunning,
     ApiStops, vars, disk, thread
<1> QED BY <1>2, <1>3, <1>4, <1>5, <1>6 DEF Next, WorkerStep

LEMMA ContentInit == Init => ContentInv
BY Beginnings DEF Init, ContentInv, TargetIsWhole, Beginning

\* Nothing that any history of attempts leaves at the target has a gap or a
\* repetition (_process_transfer_task).
THEOREM TargetIsWholeCorrect == Spec => []TargetIsWhole
<1>1. Init => TypeInv /\ ContentInv
  BY TypeInit, ContentInit
<1>2. TypeInv /\ ContentInv /\ [Next]_vars => (TypeInv /\ ContentInv)'
  BY TypeStep, ContentStep
<1>3. ContentInv => TargetIsWhole
  BY DEF ContentInv
<1> QED BY <1>1, <1>2, <1>3, PTL DEF Spec

-----------------------------------------------------------------------------
(* The delivery                                                            *)

\* What has been delivered stays so: no step but a rename writes the target, and
\* that not over a file.
LEMMA DeliveredKept ==
  ASSUME TypeInv, ContentInv, [Next]_vars
  PROVE  \A f \in Files : Delivered(f) => Delivered(f)'
<1>1. CASE UNCHANGED <<target, taken>>
  BY <1>1 DEF Delivered, Whole
<1>2. CASE \E f \in Files : Rename(f)
  <2>1. PICK f \in Files : Rename(f)
    BY <1>2
  <2>2. CASE /\ target' = [target EXCEPT ![f] = temp[f]] /\ taken' = taken \ {f}
             /\ pc = "rename" /\ Current(f)
    <3>1. temp[f] = Whole(f)
      BY <2>2 DEF ContentInv, Whole
    <3>2. target'[f] = Whole(f) /\ \A g \in Files : g # f => target'[g] = target[g]
      BY <2>2, <3>1 DEF TypeInv
    <3> QED BY <2>2, <3>2 DEF Delivered, Whole
  <2> QED BY <1>1, <2>1, <2>2 DEF Rename
<1>3. CASE \E f \in Files : TakeAway(f)
  BY <1>3 DEF TakeAway, TypeInv, Delivered, Whole
<1>4. CASE UNCHANGED vars
  BY <1>1, <1>4 DEF vars
<1>5. CASE \E f \in Files : FileStep(f) /\ ~Rename(f)
  BY <1>1, <1>5 DEF FileStep, NextFile, Align, Chunk, CommitProgress, Verify, CheckSize,
     CommitRenaming, CommitFile, Stop, Dies, disk
<1>6. CASE Next /\ ~\E f \in Files : FileStep(f) \/ TakeAway(f)
  BY <1>1, <1>6 DEF Next, WorkerStep, Claim, Open, SaveShare, ListFiles, CompleteTask,
     StartCleanup, DeleteStaging, FinishCleanup, ConfirmPaused, MarkFailed, StorageFails,
     RetryCleanup, ApiCleanup, Cancel, ChangeStatus, Delete, WorkerStops, RecoverRunning,
     ApiStops, Stop, Dies, disk
<1> QED BY <1>2, <1>3, <1>4, <1>5, <1>6

\* The steps that start, list, complete and delete nothing.
LEMMA DeliveryKept ==
  ASSUME DeliveryInv, RowsKept, \A f \in Files : Delivered(f) => Delivered(f)',
         UNCHANGED staging,
         \/ UNCHANGED <<pc, todo>>
         \/ pc' \in {"none", "open", "fail", "paused"}
         \/ pc \in Copying /\ pc' \in Copying /\ todo' = todo,
         apc' \in {apc, "none", "clean"}
  PROVE  DeliveryInv'
<1>1. NothingIsLost'
  BY DEF DeliveryInv, NothingIsLost, RowsKept
<1>2. CompletedIsDelivered'
  BY DEF DeliveryInv, CompletedIsDelivered, RowsKept
<1>3. \A f \in Files : file'[f].st = "completed" => Delivered(f)'
  BY DEF DeliveryInv, RowsKept
<1>4. (pc = "save" => ~task.staged)' /\ (pc = "list" /\ Exists => task.staged)'
  BY DEF DeliveryInv, RowsKept, Exists, Copying
<1>5. pc' \in Copying => \A f \in Files : f \in todo' \/ Delivered(f)'
  BY DEF DeliveryInv, Copying
<1>6. pc' \in Cleaning \/ apc' \in Cleaning => \A f \in Files : Delivered(f)'
  BY DEF DeliveryInv, Cleaning, Copying
<1> QED BY <1>1, <1>2, <1>3, <1>4, <1>5, <1>6 DEF DeliveryInv

\* Once everything has been delivered, nothing can go wrong any more: the steps of
\* a completion and of a cleanup.
LEMMA AllDelivered ==
  ASSUME DeliveryInv, \A f \in Files : Delivered(f)', pc' \notin {"save", "list"} \/ pc' = pc,
         task'.staged = task.staged, task'.st # "absent" => Exists
  PROVE  DeliveryInv'
BY DEF DeliveryInv, NothingIsLost, CompletedIsDelivered, Exists

\* Starting and saving the share: only without a path, which is noted over a complete
\* directory.
LEMMA DeliverySave ==
  ASSUME TypeInv, DeliveryInv, \A f \in Files : Delivered(f) => Delivered(f)', Open \/ SaveShare
  PROVE  DeliveryInv'
<1>1. CASE Open
  <2>1. UNCHANGED <<rows, staging, apc>>
    BY <1>1 DEF Open, Raise, Stop, disk, rows
  <2>2. RowsKept
    BY <2>1, SameKept DEF TypeInv
  <2>3. CASE pc' \in {"none", "fail", "paused"}
    BY <2>1, <2>2, <2>3, DeliveryKept
  <2>4. CASE Exists /\ pc' = IF task.staged THEN "list" ELSE "save"
    BY <2>1, <2>4 DEF DeliveryInv, NothingIsLost, CompletedIsDelivered, Exists, Copying,
       Cleaning, rows
  <2> QED BY <1>1, <2>3, <2>4 DEF Open, Raise, Stop, End, Goto, Exists
<1>2. CASE SaveShare
  <2>1. CASE RowsKept /\ UNCHANGED rows /\ pc' \in {"none", "fail"}
    <3>1. ~task.staged /\ apc' = apc
      BY <1>2 DEF SaveShare, DeliveryInv, Dies
    <3> QED BY <2>1, <3>1 DEF DeliveryInv, NothingIsLost, CompletedIsDelivered, Exists,
               Copying, Cleaning, rows
  <2>2. CASE /\ task'.st \in {task.st, "staging_to_cloud"} /\ task'.staged = TRUE
             /\ Exists /\ file' = file /\ staging' = Files /\ pc' = "list"
             /\ UNCHANGED <<todo, target, taken, apc>>
    BY <2>2 DEF DeliveryInv, NothingIsLost, CompletedIsDelivered, Copying, Cleaning
  <2> QED BY <1>2, <2>1, <2>2, SaveShareRows DEF TypeInv
<1> QED BY <1>1, <1>2

\* The list is what the staging directory has, and what it has not is delivered.
LEMMA DeliveryList ==
  ASSUME TypeInv, DeliveryInv, \A f \in Files : Delivered(f) => Delivered(f)', ListFiles
  PROVE  DeliveryInv'
<1>1. RowsKept /\ UNCHANGED <<staging, apc>>
  BY ListFilesKeepsRows DEF TypeInv, ListFiles, Stop, Dies, disk
<1>2. CASE pc' \in {"none", "paused"}
  BY <1>1, <1>2, DeliveryKept
<1>3. CASE pc = "list" /\ Exists /\ todo' = staging /\ pc' = "next"
  <2>1. \A f \in Files : f \in todo' \/ Delivered(f)'
    BY <1>3 DEF DeliveryInv, NothingIsLost
  <2> QED BY <1>1, <1>3, <2>1 DEF DeliveryInv, NothingIsLost, CompletedIsDelivered, RowsKept,
             Copying, Cleaning
<1> QED BY <1>2, <1>3 DEF ListFiles, Stop, Dies, End, Goto

\* A file leaves the list when its row, or the rename before it, says it is delivered.
LEMMA DeliveryFile ==
  ASSUME TypeInv, ContentInv, DeliveryInv, \A f \in Files : Delivered(f) => Delivered(f)',
         NEW f \in Files, FileStep(f)
  PROVE  DeliveryInv'
<1>1. UNCHANGED <<staging, apc>>
  BY DEF FileStep, NextFile, Align, Chunk, CommitProgress, Verify, CheckSize, CommitRenaming,
     Rename, CommitFile, Stop, Dies, disk
<1>2. CASE CommitFile(f)
  <2>1. CASE UNCHANGED rows /\ pc' = "none"
    BY <1>1, <2>1, SameKept, DeliveryKept DEF TypeInv
  <2>2. CASE /\ task' = task /\ pc' = "next" /\ todo' = todo \ {f}
             /\ \A g \in Files : g # f => file'[g] = file[g]
    <3>1. Delivered(f)' /\ pc \in Copying
      BY <1>2 DEF CommitFile, ContentInv, Copying
    <3> QED BY <1>1, <2>2, <3>1 DEF DeliveryInv, NothingIsLost, CompletedIsDelivered, Exists,
               Copying, Cleaning
  <2> QED BY <1>2, <2>1, <2>2, CommitFileRows DEF TypeInv
<1>3. CASE ~CommitFile(f)
  <2>1. RowsKept
    BY <1>3, FileStepsKeepRows DEF FileStep, TypeInv
  <2>2. CASE \/ pc' \in {"none", "fail", "paused"}
             \/ pc \in Copying /\ pc' \in Copying /\ todo' = todo
    BY <1>1, <2>1, <2>2, DeliveryKept
  <2>3. CASE NextFile(f) /\ file[f].st = "completed" /\ todo' = todo \ {f} /\ UNCHANGED pc
    <3>1. Delivered(f)'
      BY <2>3 DEF DeliveryInv
    <3> QED BY <1>1, <2>1, <2>3, <3>1 DEF DeliveryInv, NothingIsLost, CompletedIsDelivered,
               RowsKept, NextFile, Copying, Cleaning
  <2> QED BY <1>3, <2>2, <2>3 DEF FileStep, NextFile, Align, Chunk, CommitProgress, Verify,
             CheckSize, CommitRenaming, Rename, Stop, Dies, End, Raise, Goto, Copying
<1> QED BY <1>2, <1>3

\* Who deletes has seen everything delivered.
LEMMA DeliveryClean ==
  ASSUME TypeInv, DeliveryInv, \A f \in Files : Delivered(f) => Delivered(f)',
         CompleteTask \/ StartCleanup \/ DeleteStaging \/ FinishCleanup \/ ApiCleanup
  PROVE  DeliveryInv'
<1>1. /\ task'.staged = task.staged /\ file' = file
      /\ task'.st # "absent" => Exists
  BY CompletionRows DEF TypeInv, DeleteStaging, rows, Exists
<1>2. pc' \notin {"save", "list"} \/ pc' = pc
  BY DEF CompleteTask, StartCleanup, DeleteStaging, FinishCleanup, ApiCleanup, Deleted, Dies,
     End, Goto, thread
<1>3. CASE \A f \in Files : Delivered(f)
  BY <1>1, <1>2, <1>3, AllDelivered
<1>4. CASE /\ UNCHANGED <<rows, staging>> /\ apc' \in {apc, "none"}
           /\ pc' = "none" \/ UNCHANGED <<pc, todo>>
  BY <1>4, SameKept, DeliveryKept DEF TypeInv
<1>5. CASE CompleteTask
  BY <1>3, <1>4, <1>5 DEF CompleteTask, DeliveryInv, Copying, Dies, End, disk
<1>6. CASE StartCleanup
  BY <1>3, <1>4, <1>6 DEF StartCleanup, MayClean, DeliveryInv, CompletedIsDelivered, Dies,
     End, disk, rows
<1>7. CASE DeleteStaging \/ FinishCleanup
  BY <1>3, <1>7 DEF DeleteStaging, FinishCleanup, DeliveryInv, Cleaning
<1>8. CASE ApiCleanup
  BY <1>3, <1>4, <1>8 DEF ApiCleanup, MayClean, DeliveryInv, CompletedIsDelivered, Cleaning,
     disk, rows, thread
<1> QED BY <1>5, <1>6, <1>7, <1>8

\* Every step keeps what is needed to deliver.
LEMMA DeliveryStep == TypeInv /\ ContentInv /\ DeliveryInv /\ [Next]_vars => DeliveryInv'
<1> SUFFICES ASSUME TypeInv, ContentInv, DeliveryInv, [Next]_vars PROVE DeliveryInv'
  OBVIOUS
<1>1. \A f \in Files : Delivered(f) => Delivered(f)'
  BY DeliveredKept
<1>2. CASE UNCHANGED vars
  BY <1>1, <1>2, SameKept, DeliveryKept DEF vars, rows, TypeInv
<1>3. CASE Cancel \/ ChangeStatus \/ Delete \/ RecoverRunning \/ Claim \/ ConfirmPaused \/ MarkFailed
  <2>1. RowsKept
    BY <1>3, RequestsKeepRows DEF TypeInv
  <2>2. /\ UNCHANGED <<staging, apc>>
        /\ UNCHANGED <<pc, todo>> \/ pc' \in {"none", "open"}
    BY <1>3 DEF Cancel, ChangeStatus, Delete, RecoverRunning, Claim, ConfirmPaused, MarkFailed,
       Dies, End, Goto, disk, thread
  <2> QED BY <1>1, <2>1, <2>2, DeliveryKept
<1>4. CASE \/ RetryCleanup \/ (\E f \in Files : TakeAway(f))
           \/ StorageFails({"list", "align", "copy", "size", "rename", "clean"})
  <2>1. RowsKept
    BY <1>4, OthersKeepRows DEF TypeInv
  <2>2. /\ UNCHANGED staging /\ apc' \in {apc, "clean"}
        /\ UNCHANGED <<pc, todo>> \/ pc' = "fail"
    BY <1>4 DEF RetryCleanup, TakeAway, StorageFails, Raise, Goto, disk, thread
  <2> QED BY <1>1, <2>1, <2>2, DeliveryKept
<1>5. CASE WorkerStops
  <2>1. UNCHANGED <<rows, apc>> /\ pc' = "none"
    BY <1>5 DEF WorkerStops, End
  <2>2. RowsKept
    BY <2>1, SameKept DEF TypeInv
  <2>3. CASE staging' = staging
    BY <1>1, <2>1, <2>2, <2>3, DeliveryKept
  <2>4. CASE pc = "save"
    BY <1>1, <2>1, <2>4 DEF DeliveryInv, NothingIsLost, CompletedIsDelivered, Exists, Copying,
       Cleaning, rows
  <2>5. CASE pc = "delete"
    BY <1>1, <2>1, <2>5, AllDelivered DEF DeliveryInv, Cleaning, rows, Exists
  <2> QED BY <1>5, <2>3, <2>4, <2>5 DEF WorkerStops
<1>6. CASE ApiStops
  <2>1. UNCHANGED <<rows, pc, todo>> /\ apc' = "none"
    BY <1>6 DEF ApiStops, thread
  <2>2. RowsKept
    BY <2>1, SameKept DEF TypeInv
  <2>3. CASE staging' = staging
    BY <1>1, <2>1, <2>2, <2>3, DeliveryKept
  <2>4. CASE apc = "delete"
    BY <1>1, <2>1, <2>4, AllDelivered DEF DeliveryInv, Cleaning, rows, Exists
  <2> QED BY <1>6, <2>3, <2>4 DEF ApiStops
<1> QED BY <1>1, <1>2, <1>3, <1>4, <1>5, <1>6, DeliverySave, DeliveryList, DeliveryFile,
           DeliveryClean DEF Next, WorkerStep

LEMMA DeliveryInit == Init => DeliveryInv
BY DEF Init, DeliveryInv, NothingIsLost, CompletedIsDelivered, NewTask, AbsentFile, Copying,
   Cleaning

\* The three inductive invariants together.
LEMMA Invariance == Spec => [](TypeInv /\ ContentInv /\ DeliveryInv)
<1>1. Init => TypeInv /\ ContentInv /\ DeliveryInv
  BY TypeInit, ContentInit, DeliveryInit
<1>2. TypeInv /\ ContentInv /\ DeliveryInv /\ [Next]_vars
        => (TypeInv /\ ContentInv /\ DeliveryInv)'
  BY TypeStep, ContentStep, DeliveryStep
<1> QED BY <1>1, <1>2, PTL DEF Spec

\* A noted staging path always stands for files that are staged or delivered
\* (_process_transfer_task, cleanup_cloud_staging).
THEOREM NothingIsLostCorrect == Spec => []NothingIsLost
<1>1. DeliveryInv => NothingIsLost
  BY DEF DeliveryInv
<1> QED BY <1>1, Invariance, PTL

\* A completed task has delivered every file of the share (_process_transfer_task).
THEOREM CompletedIsDeliveredCorrect == Spec => []CompletedIsDelivered
<1>1. DeliveryInv => CompletedIsDelivered
  BY DEF DeliveryInv
<1> QED BY <1>1, Invariance, PTL

-----------------------------------------------------------------------------
(* The whole is an atomic delivery                                         *)

\* Steps that only touch the rows: seen from outside nothing happens, or the
\* task is deleted.
LEMMA RowsOnly ==
  ASSUME IsTask(task), RowsKept, UNCHANGED <<staging, target, taken>>
  PROVE  [Delivery!Next]_<<task.staged, staging, target, taken>>
<1>1. task.staged \in BOOLEAN /\ task'.staged \in BOOLEAN /\ (task'.staged => task.staged)
  BY DEF RowsKept, IsTask
<1>2. CASE task'.staged = task.staged
  BY <1>2
<1>3. CASE task'.staged = FALSE
  BY <1>3 DEF Delivery!Next, Delivery!Forget
<1> QED BY <1>1, <1>2, <1>3

\* Steps of a cleanup, after all has been delivered.
LEMMA CleanOnly ==
  ASSUME \A f \in Files : Delivered(f), staging' \subseteq staging,
         task'.staged = task.staged, UNCHANGED <<target, taken>>
  PROVE  [Delivery!Next]_<<task.staged, staging, target, taken>>
BY DEF Delivered, Delivery!Delivered, Delivery!Next, Delivery!Clean

\* Saving the share.
LEMMA SaveOnly ==
  ASSUME TypeInv, DeliveryInv, pc = "save", staging' \subseteq Files, UNCHANGED <<target, taken>>,
         task'.staged = task.staged \/ (task'.staged = TRUE /\ staging' = Files)
  PROVE  [Delivery!Next]_<<task.staged, staging, target, taken>>
<1>1. task.staged = FALSE
  BY DEF DeliveryInv, TypeInv, IsTask
<1> QED BY <1>1 DEF Delivery!Next, Delivery!Save

\* A rename makes a file appear whole.
LEMMA RenamePublishes ==
  ASSUME TypeInv, ContentInv, NEW f \in Files, Rename(f)
  PROVE  [Delivery!Next]_<<task.staged, staging, target, taken>>
<1>1. UNCHANGED <<task, staging>>
  BY DEF Rename, Raise, rows
<1>2. CASE UNCHANGED <<target, taken>>
  BY <1>1, <1>2
<1>3. CASE /\ target[f] = <<>> /\ target' = [target EXCEPT ![f] = temp[f]] /\ taken' = taken \ {f}
           /\ pc = "rename" /\ Current(f)
  <2>1. temp[f] = Whole(f)
    BY <1>3 DEF ContentInv, Whole
  <2> QED BY <1>1, <1>3, <2>1 DEF Delivery!Next, Delivery!Publish
<1> QED BY <1>2, <1>3 DEF Rename

\* The other steps for one file.
LEMMA FileStepsOutside ==
  ASSUME TypeInv, NEW f \in Files, FileStep(f), ~Rename(f)
  PROVE  [Delivery!Next]_<<task.staged, staging, target, taken>>
<1>1. UNCHANGED <<staging, target, taken>>
  BY DEF FileStep, NextFile, Align, Chunk, CommitProgress, Verify, CheckSize,
     CommitRenaming, CommitFile, Stop, Dies, disk
<1>2. CASE CommitFile(f)
  <2>1. task' = task
    BY <1>2, CommitFileRows DEF TypeInv, rows
  <2> QED BY <1>1, <2>1
<1>3. CASE ~CommitFile(f)
  <2>1. RowsKept
    BY <1>3, FileStepsKeepRows DEF FileStep, TypeInv
  <2> QED BY <1>1, <2>1, RowsOnly DEF TypeInv
<1> QED BY <1>2, <1>3

\* The thread's steps for the whole share.
LEMMA ShareStepsOutside ==
  ASSUME TypeInv, DeliveryInv, WorkerStep, \A f \in Files : ~FileStep(f)
  PROVE  [Delivery!Next]_<<task.staged, staging, target, taken>>
<1>1. CASE SaveShare
  <2>1. UNCHANGED <<target, taken>> /\ pc = "save" /\ staging' \subseteq Files
    BY <1>1 DEF SaveShare, Raise, Dies, disk, TypeInv
  <2>2. task'.staged = task.staged \/ (task'.staged = TRUE /\ staging' = Files)
    BY <1>1, SaveShareRows DEF TypeInv, rows
  <2> QED BY <2>1, <2>2, SaveOnly
<1>2. CASE DeleteStaging
  <2>1. /\ UNCHANGED <<task, target, taken>> /\ staging' \subseteq staging /\ pc \in Cleaning
    BY <1>2 DEF DeleteStaging, Deleted, rows, Cleaning
  <2> QED BY <2>1, CleanOnly DEF DeliveryInv
<1>3. CASE CompleteTask \/ StartCleanup \/ FinishCleanup
  <2>1. UNCHANGED <<staging, target, taken>>
    BY <1>3 DEF CompleteTask, StartCleanup, FinishCleanup, Dies, disk
  <2>2. task'.staged = task.staged
    BY <1>3, CompletionRows DEF TypeInv
  <2> QED BY <2>1, <2>2
<1>4. CASE Open \/ ListFiles \/ ConfirmPaused \/ MarkFailed
           \/ StorageFails({"list", "align", "copy", "size", "rename", "clean"})
  <2>1. UNCHANGED <<staging, target, taken>>
    BY <1>4 DEF Open, ListFiles, ConfirmPaused, MarkFailed, StorageFails, Raise, Stop, Dies, disk
  <2>2. RowsKept
    BY <1>4, OthersKeepRows, ListFilesKeepsRows, RequestsKeepRows DEF TypeInv
  <2> QED BY <2>1, <2>2, RowsOnly DEF TypeInv
<1> QED BY <1>1, <1>2, <1>3, <1>4 DEF WorkerStep

\* Requests, the cleanup in the API, faults and people.
LEMMA OthersOutside ==
  ASSUME TypeInv, DeliveryInv, Next, ~WorkerStep
  PROVE  [Delivery!Next]_<<task.staged, staging, target, taken>>
<1>1. CASE Claim \/ Cancel \/ ChangeStatus \/ Delete \/ RecoverRunning
  <2>1. UNCHANGED <<staging, target, taken>>
    BY <1>1 DEF Claim, Cancel, ChangeStatus, Delete, RecoverRunning, disk
  <2>2. RowsKept
    BY <1>1, RequestsKeepRows DEF TypeInv
  <2> QED BY <2>1, <2>2, RowsOnly DEF TypeInv
<1>2. CASE RetryCleanup
  BY <1>2 DEF RetryCleanup, rows, disk
<1>3. CASE ApiCleanup
  <2>1. task'.staged = task.staged /\ UNCHANGED <<target, taken>>
    BY <1>3, CompletionRows DEF TypeInv, ApiCleanup, disk
  <2>2. staging' = staging \/ (staging' \subseteq staging /\ apc \in Cleaning)
    BY <1>3 DEF ApiCleanup, Deleted, Cleaning, disk
  <2> QED BY <2>1, <2>2, CleanOnly DEF DeliveryInv
<1>4. CASE WorkerStops
  <2>1. UNCHANGED <<task, target, taken>>
    BY <1>4 DEF WorkerStops, rows
  <2>2. CASE staging' = staging
    BY <2>1, <2>2
  <2>3. CASE pc = "save"
    BY <1>4, <2>1, <2>3, SaveOnly DEF WorkerStops
  <2>4. CASE pc = "delete"
    BY <1>4, <2>1, <2>4, CleanOnly DEF WorkerStops, DeliveryInv, Cleaning
  <2> QED BY <1>4, <2>2, <2>3, <2>4 DEF WorkerStops
<1>5. CASE ApiStops
  <2>1. UNCHANGED <<task, target, taken>>
    BY <1>5 DEF ApiStops, rows
  <2>2. staging' = staging \/ (staging' \subseteq staging /\ apc \in Cleaning)
    BY <1>5 DEF ApiStops, Cleaning
  <2> QED BY <2>1, <2>2, CleanOnly DEF DeliveryInv
<1>6. ASSUME NEW f \in Files, TakeAway(f)
      PROVE  [Delivery!Next]_<<task.staged, staging, target, taken>>
  BY <1>6 DEF TakeAway, rows, Delivery!Next, Delivery!TakeAway
<1> QED BY <1>1, <1>2, <1>3, <1>4, <1>5, <1>6 DEF Next

\* Seen from the two directories, the thread, its attempts, the requests, kills and
\* both cleanups together implement the atomic delivery of AtomicDelivery.
THEOREM Refinement == Spec => DeliverySpec
<1>1. Init => Delivery!Init
  BY DEF Init, Delivery!Init, NewTask
<1>2. TypeInv /\ ContentInv /\ DeliveryInv /\ [Next]_vars
        => [Delivery!Next]_<<task.staged, staging, target, taken>>
  <2> SUFFICES ASSUME TypeInv, ContentInv, DeliveryInv, [Next]_vars
               PROVE  [Delivery!Next]_<<task.staged, staging, target, taken>>
    OBVIOUS
  <2>1. CASE UNCHANGED vars
    BY <2>1 DEF vars
  <2>2. ASSUME NEW f \in Files, FileStep(f)
        PROVE  [Delivery!Next]_<<task.staged, staging, target, taken>>
    BY <2>2, RenamePublishes, FileStepsOutside
  <2> QED BY <2>1, <2>2, ShareStepsOutside, OthersOutside
<1> QED BY <1>1, <1>2, Invariance, PTL DEF Spec, DeliverySpec, Delivery!Spec
=============================================================================
