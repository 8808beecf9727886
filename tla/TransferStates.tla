--------------------------- MODULE TransferStates ---------------------------
(***************************************************************************)
(* The vocabulary shared by the transfer modules: the statuses a row of    *)
(* transfer_tasks and of transfer_files can have, the error codes stored   *)
(* with a task, and the sets of statuses on which the worker, the transfer *)
(* API, the scanner and the SMB connection service base their decisions.   *)
(***************************************************************************)

\* "absent" stands for a row that does not exist (not created or deleted).
TaskStatus ==
  {"absent", "pending", "paused", "staging_to_cloud", "cloud_ready",
   "downloading", "verifying", "renaming", "cleaning_source",
   "cleaning_cloud", "completed", "failed", "cancelled"}

FileStatus ==
  {"pending", "downloading", "verified", "completed", "failed", "cancelled"}

\* Statuses the worker counts as running, recovers at startup and that the
\* connection service interrupts.
RunningStatuses ==
  {"staging_to_cloud", "cloud_ready", "downloading", "verifying", "renaming",
   "cleaning_cloud", "cleaning_source"}

CancellableStatuses ==
  {"pending", "staging_to_cloud", "cloud_ready", "downloading", "verifying",
   "paused"}

PausableStatuses == CancellableStatuses \ {"paused"}

\* delete_transfer refuses these and accepts everything else.
UndeletableStatuses ==
  {"downloading", "verifying", "renaming", "cleaning_source",
   "cleaning_cloud"}

ClearableStatuses == {"completed", "cancelled"}

\* While the linked task is in one of these, the scanner leaves the seen file
\* alone even if the source has changed.
ActiveSyncStatuses ==
  {"staging_to_cloud", "cloud_ready", "downloading", "verifying", "renaming",
   "cleaning_source"}

\* File rows that cancel, failure and recovery overwrite.
UnfinishedFileStatuses == {"pending", "downloading", "verified"}

\* SMB_HOST_UNREACHABLE and SMB_CONNECT_FAILED stand for the storage errors
\* on which the worker allows, respectively refuses, a retry.
RetryableErrors ==
  {"SMB_HOST_UNREACHABLE", "SMB_WRITE_FAILED", "WORKER_TRANSFER_FAILED",
   "CLOUD_STREAM_FAILED", "STORAGE_WRITE_FAILED",
   "WORKER_RECOVERY_REQUIRED", "STORAGE_CONFIG_CHANGED"}

CleanupErrors == {"SYNC_SOURCE_DELETE_FAILED", "CLOUD_CLEANUP_FAILED"}

FinalErrors ==
  {"SMB_CONNECT_FAILED", "SMB_PATH_NOT_FOUND", "SMB_RENAME_FAILED",
   "STORAGE_PATH_NOT_FOUND", "TARGET_EXISTS", "SIZE_MISMATCH",
   "TASK_CANCELLED", "SYNC_SOURCE_CHANGED", "LOCAL_SHARE_NOT_FOUND",
   "WORKER_RUNTIME_CONFIG_MISSING"}

\* The error_code column together with the retryable flag written with it.
ErrorCode == {"none"} \cup RetryableErrors \cup CleanupErrors \cup FinalErrors

\* What the ORM holds of a task and of its file: the columns that matter here.
Row == [st : TaskStatus, err : ErrorCode, fs : FileStatus]

\* The attributes of an instance that is not loaded (expired by a commit).
\* The value differs from every column value, so whatever is assigned to an
\* expired instance counts as a change.
Expired == [st |-> "expired", err |-> "expired", fs |-> "expired"]

\* An UPDATE writes the columns whose value differs from the one that was
\* loaded, and leaves to the database the ones that do not: cur is the row in
\* the database, old the instance as loaded, new the instance as assigned.
Flush(cur, old, new) ==
  [st  |-> IF new.st  = old.st  THEN cur.st  ELSE new.st,
   err |-> IF new.err = old.err THEN cur.err ELSE new.err,
   fs  |-> IF new.fs  = old.fs  THEN cur.fs  ELSE new.fs]

\* Failing a task also fails the files whose row is unfinished.
FailFile(cur, old) == IF cur.fs \in UnfinishedFileStatuses THEN "failed" ELSE old.fs

\* Mutant: recovery knows only the statuses of copying.
RecoveredCopy(r) ==
  IF r.st \in {"downloading", "verifying"}
  THEN [st |-> "failed", err |-> "WORKER_RECOVERY_REQUIRED", fs |-> FailFile(r, r)]
  ELSE r

\* The row recover_running_tasks leaves for a row it finds running.
RecoveredRow(r) ==
  IF r.st \in RunningStatuses
  THEN [st |-> "failed", err |-> "WORKER_RECOVERY_REQUIRED", fs |-> FailFile(r, r)]
  ELSE r
=============================================================================
