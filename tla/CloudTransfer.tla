---------------------------- MODULE CloudTransfer ----------------------------
(***************************************************************************)
(* A transfer task that goes over a cloud: the share is saved into the     *)
(* task's staging directory, its files are copied to local storage one     *)
(* after the other, each over a temporary file that a later attempt        *)
(* resumes, and the staging directory is deleted at the end.  One task,    *)
(* its worker thread, the API requests that change its row, a retry of the *)
(* cleanup in the API process, kill and restart, and people who take       *)
(* delivered files out of the target directory.                            *)
(*                                                                         *)
(* A request is one step here: SyncTransfer takes it apart.  Except in     *)
(* SaveShare the thread assigns a status after a commit that expired the   *)
(* instance, or one that differs from the loaded one, so that the          *)
(* assignment overwrites whatever the row has become.                      *)
(*                                                                         *)
(* The files of the share have different names.  Bounds: N, Size.          *)
(***************************************************************************)
EXTENDS TransferStates, Integers, SequencesExt

CONSTANTS
  N,      \* the files of the share are 1..N, in the order of their paths
  Size    \* the number of chunks of each

Files == 1..N

ASSUME ConstantsAssumption ==
  /\ N \in Nat \ {0}
  /\ Size \in [Files -> Nat \ {0}]

VARIABLES
  task,     \* the row: status, error, whether cloud_staging_path is set, bytes
  file,     \* the rows of transfer_files
  staging,  \* the files in the staging directory
  temp,     \* the chunks of each temporary file, <<>> when absent
  target,   \* the chunks of each delivered file, <<>> when absent
  taken,    \* files that people have taken out of the target directory
  worker,   \* the worker process: up or down
  pc,       \* where the worker thread stands
  todo,     \* the files it has listed and not finished
  pos,      \* chunks of the current file it has read
  ahead,    \* chunks it has counted and not committed
  exc,      \* the error it is about to record
  apc       \* where a retry of the cleanup stands

rows   == <<task, file>>
disk   == <<staging, temp, target, taken>>
thread == <<pc, todo, pos, ahead, exc>>
vars   == <<task, file, staging, temp, target, taken, worker, pc, todo, pos,
            ahead, exc, apc>>

-----------------------------------------------------------------------------
(* Types                                                                   *)

CloudPC ==
  {"none", "open", "save", "list", "next", "align", "copy", "verify", "size",
   "renaming", "rename", "commitFile", "clean", "delete", "cleaned",
   "cleanFailed", "fail", "paused"}

CleanPC == {"none", "clean", "delete", "cleaned", "cleanFailed"}

NewTask == [st |-> "pending", err |-> "none", staged |-> FALSE, total |-> 0, done |-> 0]
AbsentTask == [NewTask EXCEPT !.st = "absent"]

AbsentFile == [st |-> "absent", done |-> 0]

TypeOK ==
  /\ task \in [st : TaskStatus, err : ErrorCode, staged : BOOLEAN, total : Nat, done : Nat]
  /\ file \in [Files -> [st : FileStatus \cup {"absent"}, done : Nat]]
  /\ staging \subseteq Files
  /\ temp \in [Files -> Seq(Nat)]
  /\ target \in [Files -> Seq(Nat)]
  /\ taken \subseteq Files
  /\ worker \in {"up", "down"}
  /\ pc \in CloudPC
  /\ todo \subseteq Files
  /\ pos \in Nat /\ ahead \in Nat
  /\ exc \in ErrorCode
  /\ apc \in CleanPC

\* create_transfer
Init ==
  /\ task = NewTask
  /\ file = [f \in Files |-> AbsentFile]
  /\ staging = {}
  /\ temp = [f \in Files |-> <<>>]
  /\ target = [f \in Files |-> <<>>]
  /\ taken = {}
  /\ worker = "up"
  /\ pc = "none" /\ todo = {} /\ pos = 0 /\ ahead = 0 /\ exc = "none"
  /\ apc = "none"

Whole(f) == [i \in 1..Size[f] |-> i]

Exists == task.st # "absent"

\* The file the thread is at.
Current(f) == f \in todo /\ \A g \in todo : f <= g

\* The task with a status and what is to be said of it.
Ended(t, status, code) == [t EXCEPT !.st = status, !.err = code]

\* The unfinished files get the status of their task.
Overwritten(F, status) ==
  [f \in Files |-> IF F[f].st \in UnfinishedFileStatuses
                   THEN [F[f] EXCEPT !.st = status] ELSE F[f]]

-----------------------------------------------------------------------------
(* The thread: claim, ends, errors                                         *)

Goto(label) == pc' = label

End ==
  /\ pc' = "none" /\ todo' = {} /\ pos' = 0 /\ ahead' = 0 /\ exc' = "none"

\* A commit, or the reload of an attribute, when the row has been deleted: the
\* exception also leaves the attempt to record it, and ends the process.
Dies ==
  /\ ~Exists
  /\ End
  /\ worker' = "down"
  /\ UNCHANGED <<rows, disk, apc>>

Raise(code) ==
  /\ Goto("fail")
  /\ exc' = code
  /\ UNCHANGED <<rows, todo, pos, ahead>>

\* The counters of the task and of the current file, as the thread has them.
Counted(r) == [r EXCEPT !.done = @ + ahead]
CountedFiles == [f \in Files |-> IF Current(f) THEN Counted(file[f]) ELSE file[f]]

Claim ==
  /\ worker = "up" /\ pc = "none"
  /\ task.st = "pending"
  /\ task' = [task EXCEPT !.st = "staging_to_cloud"]
  /\ Goto("open")
  /\ UNCHANGED <<file, disk, worker, todo, pos, ahead, exc, apc>>

Stopped == task.st \in {"cancelled", "paused"}

\* _check_task_state: a paused thread commits what it has counted, a cancelled
\* one ends as it is.
Stop ==
  /\ Stopped
  /\ IF task.st = "paused" THEN Goto("paused") /\ UNCHANGED <<todo, pos, ahead, exc>>
                           ELSE End
  /\ UNCHANGED <<rows, disk, worker, apc>>

\* The worker confirms the pause, whatever the status has become meanwhile.
ConfirmPaused ==
  /\ pc = "paused"
  /\ \/ /\ Exists
        /\ task' = Counted([task EXCEPT !.st = "paused"])
        /\ file' = CountedFiles
        /\ End
        /\ UNCHANGED <<disk, worker, apc>>
     \/ Dies

\* Mutant: the status of the task is not written.
MarkFailedInFile ==
  /\ pc = "fail" /\ Exists
  /\ task' = [task EXCEPT !.err = exc]
  /\ file' = CountedFiles
  /\ End
  /\ UNCHANGED <<disk, worker, apc>>

\* Whatever the row has become, the failure is recorded, with the counters.
MarkFailed ==
  /\ pc = "fail"
  /\ \/ /\ Exists
        /\ task' = Counted(Ended(task, "failed", exc))
        /\ file' = Overwritten(CountedFiles, "failed")
        /\ End
        /\ UNCHANGED <<disk, worker, apc>>
     \/ Dies

\* An error of the file system or of the provider.
StorageFails(S) ==
  /\ pc \in S
  /\ Raise("WORKER_TRANSFER_FAILED")
  /\ UNCHANGED <<disk, worker, apc>>

-----------------------------------------------------------------------------
(* The thread: staging and the files                                       *)

\* A deleted or cancelled task is not worked on; without the settings of the
\* two directories it fails; staging runs only once.
Open ==
  /\ pc = "open"
  /\ \/ /\ task.st \in {"absent", "cancelled"}
        /\ End
        /\ UNCHANGED <<rows, disk, worker, apc>>
     \/ /\ task.st \notin {"absent", "cancelled"}
        /\ Raise("WORKER_RUNTIME_CONFIG_MISSING")
        /\ UNCHANGED <<disk, worker, apc>>
     \/ task.st = "paused" /\ Stop
     \/ /\ task.st \notin {"absent", "cancelled", "paused"}
        /\ Goto(IF task.staged THEN "list" ELSE "save")
        /\ UNCHANGED <<rows, disk, worker, todo, pos, ahead, exc, apc>>

\* Mutant: the path is committed before the share has been saved.
SaveShareEarly ==
  /\ pc = "save" /\ Exists
  /\ task' = [task EXCEPT !.staged = TRUE]
  /\ staging' \in SUBSET Files
  /\ Goto("list")
  /\ UNCHANGED <<file, temp, target, taken, worker, todo, pos, ahead, exc, apc>>

\* save_share empties the directory and copies the share; then the path is
\* committed, with the status if the task was loaded with another one (it had
\* been paused and resumed before: left open).  A share that is not there
\* raises first, a copy that fails leaves some of the files behind.
SaveShare ==
  /\ pc = "save"
  /\ \/ /\ Exists
        /\ \E st \in {task.st, "staging_to_cloud"} :
             task' = [task EXCEPT !.st = st, !.staged = TRUE]
        /\ staging' = Files
        /\ Goto("list")
        /\ UNCHANGED <<file, temp, target, taken, worker, todo, pos, ahead, exc, apc>>
     \/ /\ \/ Raise("LOCAL_SHARE_NOT_FOUND") /\ UNCHANGED staging
           \/ Raise("WORKER_TRANSFER_FAILED") /\ staging' \in SUBSET Files
        /\ UNCHANGED <<temp, target, taken, worker, apc>>
     \/ Dies

\* The files of the staging directory make the total, the rows of the files
\* what has been done.
ListFiles ==
  /\ pc = "list"
  /\ \/ Stop
     \/ /\ ~Stopped /\ Exists
        /\ task' = [task EXCEPT !.st = "downloading",
                                !.total = SumFunctionOnSet(Size, staging),
                                !.done = SumFunction([f \in Files |-> file[f].done])]
        /\ todo' = staging
        /\ Goto("next")
        /\ UNCHANGED <<file, disk, worker, pos, ahead, exc, apc>>
     \/ Dies

\* Mutant: a file that has been verified once is finished.
NextFileVerified(f) ==
  /\ pc = "next" /\ Current(f) /\ Exists
  /\ IF file[f].st \in {"completed", "verified", "failed"}
     THEN todo' = todo \ {f} /\ UNCHANGED <<file, pc>>
     ELSE Goto("align") /\ file' = [file EXCEPT ![f].st = "downloading"] /\ UNCHANGED todo
  /\ UNCHANGED <<task, disk, worker, pos, ahead, exc, apc>>

\* A completed file is skipped; any other gets its row and is downloading.
NextFile(f) ==
  /\ pc = "next" /\ Current(f)
  /\ \/ /\ Exists
        /\ \/ /\ file[f].st = "completed"
              /\ todo' = todo \ {f}
              /\ UNCHANGED <<file, pc>>
           \/ /\ file[f].st # "completed"
              /\ file' = [file EXCEPT ![f].st = "downloading"]
              /\ Goto("align")
              /\ UNCHANGED todo
        /\ UNCHANGED <<task, disk, worker, pos, ahead, exc, apc>>
     \/ Dies

\* The temporary file decides where to resume; one that is too long is emptied.
\* The counters are set to what is there.
Align(f) ==
  /\ pc = "align" /\ Current(f)
  /\ \/ Stop
     \/ /\ ~Stopped /\ Exists
        /\ LET resumed == IF Len(temp[f]) > Size[f] THEN <<>> ELSE temp[f]
               more    == task.done + Len(resumed) - file[f].done
           IN /\ temp' = [temp EXCEPT ![f] = resumed]
              /\ pos' = Len(resumed)
              /\ file' = [file EXCEPT ![f].done = Len(resumed),
                                      ![f].st = IF Len(resumed) = Size[f] THEN "verified" ELSE @]
              /\ task' = [task EXCEPT !.done = IF more < 0 THEN 0 ELSE more]
              /\ Goto(IF Len(resumed) = Size[f] THEN "verify" ELSE "copy")
        /\ UNCHANGED <<staging, target, taken, worker, todo, ahead, exc, apc>>
     \/ Dies

\* Mutant: the stream starts at the beginning, the file is still appended to.
ChunkFromStart(f) ==
  /\ pc = "copy" /\ Current(f) /\ ~Stopped /\ f \in staging /\ pos < Size[f]
  /\ temp' = [temp EXCEPT ![f] = Append(@, ahead + 1)]
  /\ pos' = pos + 1 /\ ahead' = ahead + 1
  /\ UNCHANGED <<rows, staging, target, taken, worker, pc, todo, exc, apc>>

\* One chunk; now and then the counters are committed.  Without the row the
\* next reload raises; whether the attributes are loaded is left open.
Chunk(f) ==
  /\ pc = "copy" /\ Current(f)
  /\ \/ Stop
     \/ /\ ~Stopped /\ f \in staging /\ pos < Size[f]
        /\ temp' = [temp EXCEPT ![f] = Append(@, pos + 1)]
        /\ pos' = pos + 1
        /\ ahead' = ahead + 1
        /\ UNCHANGED <<rows, staging, target, taken, worker, pc, todo, exc, apc>>
     \/ Dies

CommitProgress(f) ==
  /\ pc = "copy" /\ Current(f) /\ Exists
  /\ \/ ahead > 0 /\ UNCHANGED pc
     \/ pos = Size[f] /\ Goto("verify")
  /\ task' = Counted(task)
  /\ file' = CountedFiles
  /\ ahead' = 0
  /\ UNCHANGED <<disk, worker, todo, pos, exc, apc>>

Verify(f) ==
  /\ pc = "verify" /\ Current(f)
  /\ \/ Stop
     \/ /\ ~Stopped /\ Exists
        /\ task' = [task EXCEPT !.st = "verifying"]
        /\ file' = [file EXCEPT ![f].st = "verified"]
        /\ Goto("size")
        /\ UNCHANGED <<disk, worker, todo, pos, ahead, exc, apc>>
     \/ Dies

CheckSize(f) ==
  /\ pc = "size" /\ Current(f)
  /\ IF Len(temp[f]) = Size[f]
     THEN Goto("renaming") /\ UNCHANGED <<rows, todo, pos, ahead, exc>>
     ELSE Raise("SIZE_MISMATCH")
  /\ UNCHANGED <<disk, worker, apc>>

CommitRenaming(f) ==
  /\ pc = "renaming" /\ Current(f)
  /\ \/ Stop
     \/ /\ ~Stopped /\ Exists
        /\ task' = [task EXCEPT !.st = "renaming"]
        /\ Goto("rename")
        /\ UNCHANGED <<file, disk, worker, todo, pos, ahead, exc, apc>>
     \/ Dies

\* A target that exists is never replaced.
Rename(f) ==
  /\ pc = "rename" /\ Current(f)
  /\ \/ /\ target[f] = <<>>
        /\ target' = [target EXCEPT ![f] = temp[f]]
        /\ temp' = [temp EXCEPT ![f] = <<>>]
        /\ taken' = taken \ {f}
        /\ Goto("commitFile")
        /\ UNCHANGED <<rows, todo, pos, ahead, exc>>
     \/ /\ target[f] # <<>>
        /\ Raise("TARGET_EXISTS")
        /\ UNCHANGED <<temp, target, taken>>
  /\ UNCHANGED <<staging, worker, apc>>

CommitFile(f) ==
  /\ pc = "commitFile" /\ Current(f)
  /\ \/ /\ Exists
        /\ file' = [file EXCEPT ![f].st = "completed"]
        /\ todo' = todo \ {f}
        /\ pos' = 0
        /\ Goto("next")
        /\ UNCHANGED <<task, disk, worker, ahead, exc, apc>>
     \/ Dies

CompleteTask ==
  /\ pc = "next" /\ todo = {}
  /\ \/ /\ Exists
        /\ task' = [task EXCEPT !.st = "completed"]
        /\ Goto("clean")
        /\ UNCHANGED <<file, disk, worker, todo, pos, ahead, exc, apc>>
     \/ Dies

-----------------------------------------------------------------------------
(* The cleanup of the staging directory, in the thread and in the API      *)

\* _can_cleanup_cloud_staging: every file the task has a row for is completed
\* and stands at the target with its size.
MayClean ==
  /\ task.st = "completed" /\ task.staged
  /\ \E f \in Files : file[f].st # "absent"
  /\ \A f \in Files : file[f].st # "absent" =>
       file[f].st = "completed" /\ Len(target[f]) = Size[f]

Cleaned == Ended(task, "completed", "none")
NotCleaned == Ended(task, "completed", "CLOUD_CLEANUP_FAILED")

\* The directory is deleted file by file.
Deleted(ok, failed) ==
  \/ ok /\ staging' = {}
  \/ failed /\ staging' \in SUBSET staging

StartCleanup ==
  /\ pc = "clean"
  /\ \/ /\ Exists
        /\ IF MayClean
           THEN task' = [task EXCEPT !.st = "cleaning_cloud"] /\ Goto("delete")
                /\ UNCHANGED <<todo, pos, ahead, exc>>
           ELSE End /\ UNCHANGED task
        /\ UNCHANGED <<file, disk, worker, apc>>
     \/ Dies

DeleteStaging ==
  /\ pc = "delete"
  /\ Deleted(Goto("cleaned"), Goto("cleanFailed"))
  /\ UNCHANGED <<rows, temp, target, taken, worker, todo, pos, ahead, exc, apc>>

FinishCleanup ==
  /\ pc \in {"cleaned", "cleanFailed"}
  /\ \/ /\ Exists
        /\ task' = IF pc = "cleaned" THEN Cleaned ELSE NotCleaned
        /\ End
        /\ UNCHANGED <<file, disk, worker, apc>>
     \/ Dies

\* POST /transfers/{id}/retry-cleanup: an error of the comparison ends the
\* request with an exception.
RetryCleanup ==
  /\ apc = "none"
  /\ task.st = "completed" /\ task.err = "CLOUD_CLEANUP_FAILED"
  /\ apc' = "clean"
  /\ UNCHANGED <<rows, disk, worker, thread>>

ApiCleanup ==
  \/ /\ apc = "clean"
     /\ \/ MayClean /\ task' = [task EXCEPT !.st = "cleaning_cloud"] /\ apc' = "delete"
        \/ apc' = "none" /\ UNCHANGED task
     /\ UNCHANGED <<file, disk, worker, thread>>
  \/ /\ apc = "delete"
     /\ Deleted(apc' = "cleaned", apc' = "cleanFailed")
     /\ UNCHANGED <<rows, temp, target, taken, worker, thread>>
  \/ /\ apc \in {"cleaned", "cleanFailed"}
     /\ task' = IF ~Exists THEN task ELSE IF apc = "cleaned" THEN Cleaned ELSE NotCleaned
     /\ apc' = "none"
     /\ UNCHANGED <<file, disk, worker, thread>>

-----------------------------------------------------------------------------
(* Requests, faults and people                                             *)

Cancel ==
  /\ task.st \in CancellableStatuses
  /\ task' = Ended(task, "cancelled", "TASK_CANCELLED")
  /\ file' = Overwritten(file, "cancelled")
  /\ UNCHANGED <<disk, worker, thread, apc>>

ChangeStatus ==
  /\ \/ task.st \in PausableStatuses /\ task' = [task EXCEPT !.st = "paused"]
     \/ task.st = "paused" /\ task' = [task EXCEPT !.st = "pending"]
     \/ /\ task.st = "failed" /\ task.err \in RetryableErrors
        /\ task' = Ended(task, "pending", "none")
  /\ UNCHANGED <<file, disk, worker, thread, apc>>

\* Mutant: the staging directory goes with the rows.
DeleteWithStaging ==
  /\ task.st \notin UndeletableStatuses \cup {"absent"}
  /\ task' = AbsentTask
  /\ file' = [f \in Files |-> AbsentFile]
  /\ staging' = {}
  /\ UNCHANGED <<temp, target, taken, worker, thread, apc>>

\* The rows go; files and staging stay.
Delete ==
  /\ task.st \notin UndeletableStatuses \cup {"absent"}
  /\ task' = AbsentTask
  /\ file' = [f \in Files |-> AbsentFile]
  /\ UNCHANGED <<disk, worker, thread, apc>>

\* The last chunk, shorter than the others, is in the buffer of the open file
\* until the file is closed.
Buffered(f) == pc = "copy" /\ Current(f) /\ pos = Size[f]

\* A kill; a share that is being saved, or a directory that is being deleted,
\* stays as far as it got, and what is in a buffer is lost.
WorkerStops ==
  /\ worker = "up"
  /\ worker' = "down"
  /\ End
  /\ CASE pc = "save" -> staging' \in SUBSET Files
       [] pc = "delete" -> staging' \in SUBSET staging
       [] OTHER -> UNCHANGED staging
  /\ \/ UNCHANGED temp
     \/ \E f \in Files : Buffered(f) /\ temp' = [temp EXCEPT ![f] = Front(@)]
  /\ UNCHANGED <<rows, target, taken, apc>>

RecoverRunning ==
  /\ worker = "down"
  /\ worker' = "up"
  /\ IF task.st \in RunningStatuses
     THEN /\ task' = Ended(task, "failed", "WORKER_RECOVERY_REQUIRED")
          /\ file' = Overwritten(file, "failed")
     ELSE UNCHANGED rows
  /\ UNCHANGED <<disk, thread, apc>>

\* The API process is stopped in the middle of a retry of the cleanup.
ApiStops ==
  /\ apc # "none"
  /\ apc' = "none"
  /\ IF apc = "delete" THEN staging' \in SUBSET staging ELSE UNCHANGED staging
  /\ UNCHANGED <<rows, temp, target, taken, worker, thread>>

\* Somebody moves a delivered file elsewhere.
TakeAway(f) ==
  /\ target[f] # <<>>
  /\ target' = [target EXCEPT ![f] = <<>>]
  /\ taken' = taken \cup {f}
  /\ UNCHANGED <<rows, staging, temp, worker, thread, apc>>

-----------------------------------------------------------------------------

FileStep(f) ==
  \/ NextFile(f) \/ Align(f) \/ Chunk(f) \/ CommitProgress(f) \/ Verify(f)
  \/ CheckSize(f) \/ CommitRenaming(f) \/ Rename(f) \/ CommitFile(f)

WorkerStep ==
  \/ Open \/ SaveShare \/ ListFiles \/ (\E f \in Files : FileStep(f))
  \/ CompleteTask \/ StartCleanup \/ DeleteStaging \/ FinishCleanup
  \/ ConfirmPaused \/ MarkFailed
  \/ StorageFails({"list", "align", "copy", "size", "rename", "clean"})

Next ==
  \/ Claim \/ WorkerStep
  \/ RetryCleanup \/ ApiCleanup
  \/ Cancel \/ ChangeStatus \/ Delete
  \/ WorkerStops \/ RecoverRunning \/ ApiStops
  \/ \E f \in Files : TakeAway(f)

Spec == Init /\ [][Next]_vars

-----------------------------------------------------------------------------
(* Properties                                                              *)

\* The file stands at the target, or people have taken it from there.
Delivered(f) == target[f] = Whole(f) \/ f \in taken

\* Once the share has been saved, each of its files is in the staging
\* directory or has been delivered: neither a cleanup nor a kill in the middle
\* of one nor a repetition of the saving loses a file that is not at its target.
NothingIsLost ==
  task.staged => \A f \in Files : f \in staging \/ Delivered(f)

\* A task is reported as completed only when all of its files have been
\* delivered, however many attempts, each over what the last one left, it took.
CompletedIsDelivered ==
  task.st \in {"completed", "cleaning_cloud"} => \A f \in Files : Delivered(f)

\* No sequence of kills, pauses, failures and resumptions at an offset leaves a
\* gap or a repetition in a file that passes the size check.
TargetIsWhole == \A f \in Files : target[f] # <<>> => target[f] = Whole(f)

\* All of it, attempts, kills, cleanups and their repetitions, is an atomic
\* delivery to somebody who looks at the two directories.
Delivery == INSTANCE AtomicDelivery WITH
  saved <- task.staged, Content <- [f \in Files |-> Whole(f)]
DeliverySpec == Delivery!Spec

-----------------------------------------------------------------------------
(* Inductive invariants                                                    *)

\* A temporary file is a beginning of its file, and the thread reads on where it
\* ends; what it renames is complete.
ContentInv ==
  /\ TargetIsWhole
  /\ \A f \in Files : temp[f] = [i \in 1..Len(temp[f]) |-> i]
  /\ \A f \in Files : Current(f) =>
       /\ pc = "copy" => pos = Len(temp[f])
       /\ pc \in {"renaming", "rename"} => Len(temp[f]) = Size[f]
       /\ pc = "commitFile" => Delivered(f)

\* Where the thread is working on the files.
Copying == {"next", "align", "copy", "verify", "size", "renaming", "rename", "commitFile"}

Cleaning == {"delete", "cleaned", "cleanFailed"}

\* Why nothing is lost: a file the thread has not before it is delivered, a
\* share is saved only while there is no path, and whoever may delete the
\* staging directory, or has said so, has seen everything delivered.
DeliveryInv ==
  /\ NothingIsLost
  /\ CompletedIsDelivered
  /\ \A f \in Files : file[f].st = "completed" => Delivered(f)
  /\ pc = "save" => ~task.staged
  /\ pc = "list" /\ Exists => task.staged
  /\ pc \in Copying => \A f \in Files : f \in todo \/ Delivered(f)
  /\ pc \in Cleaning \/ apc \in Cleaning => \A f \in Files : Delivered(f)

-----------------------------------------------------------------------------
(* Liveness                                                                *)

\* The thread is straight-line code around a loop over finite files.
FairSpec == Spec /\ WF_vars(WorkerStep) /\ WF_vars(ApiCleanup)

\* A running task ends, unless the worker process is gone.  (An API process that
\* stops in the middle of a retry of the cleanup leaves one in "cleaning_cloud"
\* until the worker starts again.)
RunningEnds ==
  task.st \in RunningStatuses \ {"cleaning_cloud"} ~>
    task.st \notin RunningStatuses \ {"cleaning_cloud"} \/ worker = "down"
=============================================================================
